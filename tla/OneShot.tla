------------------------------ MODULE OneShot ------------------------------
(***************************************************************************)
(* What the two sample clients promise, whatever their threads do: on one  *)
(* stream the request is sent and then the sending side closed, while the  *)
(* responses are read; the call returns when the stream has ended and      *)
(* every response that arrived was read, and not before.                   *)
(***************************************************************************)
EXTENDS Naturals

CONSTANT MaxResponses    \* bound: responses the server sends

VARIABLES
    stream,        \* no stream yet, an open one, or one that ended
    sent,          \* has the server got the request?
    halfClosed,    \* has the server been told that no other comes?
    pending,       \* responses that arrived and were not read
    received,      \* responses read
    returned       \* has the call returned?

vars == <<stream, sent, halfClosed, pending, received, returned>>

Init == /\ stream = "none" /\ sent = FALSE /\ halfClosed = FALSE
        /\ pending = 0 /\ received = 0 /\ returned = FALSE

Open == /\ stream = "none"
        /\ stream' = "open"
        /\ UNCHANGED <<sent, halfClosed, pending, received, returned>>

SendRequest == /\ stream = "open" /\ ~sent
               /\ sent' = TRUE
               /\ UNCHANGED <<stream, halfClosed, pending, received, returned>>

HalfClose == /\ stream = "open" /\ sent /\ ~halfClosed
             /\ halfClosed' = TRUE
             /\ UNCHANGED <<stream, sent, pending, received, returned>>

Receive == /\ pending > 0 /\ ~returned
           /\ pending' = pending - 1 /\ received' = received + 1
           /\ UNCHANGED <<stream, sent, halfClosed, returned>>

Return == /\ stream = "ended" /\ pending = 0 /\ ~returned
          /\ returned' = TRUE
          /\ UNCHANGED <<stream, sent, halfClosed, pending, received>>

(* The server (external) sends responses, unasked too, and the stream ends *)
(* at any time, with the loss of the last responses.                       *)
ServerSend == /\ stream = "open" /\ pending + received < MaxResponses
              /\ pending' = pending + 1
              /\ UNCHANGED <<stream, sent, halfClosed, received, returned>>

ServerEnd == /\ stream = "open"
             /\ stream' = "ended"
             /\ pending' \in 0..pending
             /\ UNCHANGED <<sent, halfClosed, received, returned>>

Next == \/ Open \/ SendRequest \/ HalfClose \/ Receive \/ Return
        \/ ServerSend \/ ServerEnd

Safety == Init /\ [][Next]_vars

(* On a stream that stays open the request and the close are delivered,    *)
(* what arrives is read, and the end of the stream lets the call return.   *)
Spec == /\ Safety
        /\ WF_vars(Open) /\ WF_vars(SendRequest) /\ WF_vars(HalfClose)
        /\ WF_vars(Receive) /\ WF_vars(Return)
=============================================================================
