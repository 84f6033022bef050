------------------------------ MODULE SyncAds ------------------------------
(***************************************************************************)
(* src/ads: AdsClient::AggregatedDiscoveryService, a writer thread that    *)
(* sends one request and closes the sending side of the stream, while the  *)
(* calling thread reads until the stream ends, joins the writer, and calls *)
(* Finish.                                                                 *)
(*                                                                         *)
(* gRPC (external) allows one Write or WritesDone and one Read at a time,  *)
(* fails them once the stream has ended, and allows Finish only when no    *)
(* other operation runs and every message was read.                        *)
(***************************************************************************)
EXTENDS Integers

CONSTANT MaxResponses    \* bound: responses the server sends

ASSUME BoundAssumption == MaxResponses \in Nat

VARIABLES
    main,                \* the calling thread
    writer,              \* the writer thread
    stream, sent, halfClosed,
    pending,             \* responses that arrived and were not read
    discoveryResponse    \* responses read

threadVars == <<main, writer>>
sendVars   == <<sent, halfClosed>>
readVars   == <<pending, discoveryResponse>>
vars == <<threadVars, stream, sendVars, readVars>>

Init ==
    /\ main = "start" /\ writer = "none"
    /\ stream = "none" /\ sent = FALSE /\ halfClosed = FALSE
    /\ pending = 0 /\ discoveryResponse = 0

(* The stream is made ...                                                  *)
StartStream ==
    /\ main = "start"
    /\ main' = "spawn" /\ stream' = "open"
    /\ UNCHANGED <<writer, sendVars, readVars>>

(* ... and the writer started.                                             *)
StartWriter ==
    /\ main = "spawn"
    /\ main' = "read" /\ writer' = "write"
    /\ UNCHANGED <<stream, sendVars, readVars>>

(* The writer ignores what Write and WritesDone return.                    *)
WriterWrite ==
    /\ writer = "write"
    /\ writer' = "writesDone"
    /\ sent' = (stream = "open")
    /\ UNCHANGED <<main, stream, halfClosed, readVars>>

(* Fault: the writer stops without closing its side of the stream.         *)
WriterWithoutWritesDone ==
    /\ writer = "writesDone"
    /\ writer' = "ended"
    /\ UNCHANGED <<main, stream, sendVars, readVars>>

(* WritesDone reaches the server on a stream that is open since Write.     *)
WriterWritesDone ==
    /\ writer = "writesDone"
    /\ writer' = "ended"
    /\ halfClosed' = (stream = "open")
    /\ UNCHANGED <<main, stream, sent, readVars>>

(* Fault: the result of a failed Read is taken for a response.             *)
ReadUnchecked ==
    /\ main = "read" /\ (pending > 0 \/ stream = "ended")
    /\ pending' = pending - 1
    /\ discoveryResponse' = discoveryResponse + 1
    /\ main' = IF pending = 0 THEN "join" ELSE main
    /\ UNCHANGED <<writer, stream, sendVars>>

(* One turn of the Read loop: a response, or the end of the stream after   *)
(* the last one.                                                           *)
ReadResponse ==
    /\ main = "read"
    /\ \/ /\ pending > 0
          /\ pending' = pending - 1
          /\ discoveryResponse' = discoveryResponse + 1
          /\ UNCHANGED main
       \/ /\ pending = 0 /\ stream = "ended"
          /\ main' = "join"
          /\ UNCHANGED readVars
    /\ UNCHANGED <<writer, stream, sendVars>>

(* Fault: the writer is detached.                                          *)
DetachWriter ==
    /\ main = "join"
    /\ main' = "finish"
    /\ UNCHANGED <<writer, stream, sendVars, readVars>>

JoinWriter ==
    /\ main = "join" /\ writer = "ended"
    /\ main' = "finish"
    /\ UNCHANGED <<writer, stream, sendVars, readVars>>

(* Finish, and the end of the scope of stream and context.                 *)
Finish ==
    /\ main = "finish" /\ stream = "ended"
    /\ main' = "returned"
    /\ UNCHANGED <<writer, stream, sendVars, readVars>>

(* The server and the connection (external).                               *)
ServerSend ==
    /\ stream = "open" /\ pending + discoveryResponse < MaxResponses
    /\ pending' = pending + 1
    /\ UNCHANGED <<threadVars, stream, sendVars, discoveryResponse>>

ServerEnd ==
    /\ stream = "open"
    /\ stream' = "ended"
    /\ pending' \in 0..pending
    /\ UNCHANGED <<threadVars, sendVars, discoveryResponse>>

Terminated == main = "returned" /\ UNCHANGED vars

Main   == StartStream \/ StartWriter \/ ReadResponse \/ JoinWriter \/ Finish
Writer == WriterWrite \/ WriterWritesDone

Next == Main \/ Writer \/ ServerSend \/ ServerEnd \/ Terminated

(* Both threads are scheduled; the server owes nothing.                    *)
Spec == Init /\ [][Next]_vars /\ WF_vars(Main) /\ WF_vars(Writer)

-----------------------------------------------------------------------------
(* Properties.                                                             *)

(* Type correctness; at most MaxResponses responses are on their way or    *)
(* read.                                                                   *)
TypeOK ==
    /\ main \in {"start", "spawn", "read", "join", "finish", "returned"}
    /\ writer \in {"none", "write", "writesDone", "ended"}
    /\ stream \in {"none", "open", "ended"}
    /\ sent \in BOOLEAN /\ halfClosed \in BOOLEAN
    /\ pending \in Nat /\ discoveryResponse \in Nat
    /\ pending + discoveryResponse <= MaxResponses

(* Finish runs alone: the writer has ended, so that neither its Write nor  *)
(* its WritesDone uses a stream that is being finished or a context whose  *)
(* scope is left, and no response is left unread (ads/AdsClient.h:53-66).  *)
FinishAlone ==
    main \in {"finish", "returned"} => writer = "ended" /\ pending = 0

OneShotClient == INSTANCE OneShot WITH
    received <- discoveryResponse,
    returned <- main = "returned"

(* The two threads together behave as the client of OneShot: the request   *)
(* precedes the close, every response that arrived is read, and the call   *)
(* returns when the stream ends, and not before.                           *)
ImplementsOneShot == OneShotClient!Spec

(* The safety part of it.                                                  *)
SafelyImplementsOneShot == OneShotClient!Safety
=============================================================================
