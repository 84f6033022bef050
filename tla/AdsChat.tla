------------------------------- MODULE AdsChat -------------------------------
(***************************************************************************)
(* The chat of AdsClient.h beside the multiplexer of the same class:       *)
(* AggregatedDiscoveryService() writes a request on stream_ and answers    *)
(* every response with continueChat().  Both share stream_ with the        *)
(* multiplexer, and the chat looks neither at shutdown_ nor at what the    *)
(* multiplexer has sent.                                                   *)
(*                                                                         *)
(* The thread of the application is in the chat while pc is "idle", so no  *)
(* step of the multiplexer but those of shutdown() on another thread and   *)
(* of the server can come in between.  The node of the request, to which   *)
(* every call appends the same strings, is a node that is set.             *)
(***************************************************************************)
EXTENDS AdsClient

VARIABLES
    chat,               \* where the application is in the chat
    discoveryRequest_,  \* the one request of all the calls
    version_info_, nonce_,
    isOk                \* the result of a call that comes to its end

chatVars == <<chat, discoveryRequest_, version_info_, nonce_, isOk>>
allVars  == <<vars, chatVars>>

ChatInit ==
    /\ Init
    /\ chat = "no" /\ discoveryRequest_ = EmptyRequest
    /\ version_info_ = NoVersion /\ nonce_ = 0 /\ isOk = FALSE

(* A step of the chat leaves alone everything of the multiplexer but the   *)
(* process and the stream's two directions.                                *)
ChatKeeps == UNCHANGED <<threadVars, subscriptions_, request_queue_,
                         first_stream_request_, apiVars, watchVars, stream,
                         streams, writesDone, issued, shutdownVars>>

(* AggregatedDiscoveryService up to its Read loop.  The nonce of the last  *)
(* call is left in the request.  Without a stream it dereferences null.    *)
StartChat ==
    /\ AppIdle /\ chat = "no"
    /\ discoveryRequest_' = [discoveryRequest_ EXCEPT !.version_info = NoVersion,
                                            !.node = TRUE, !.type_url = TRUE]
    /\ IF stream = "none"
         THEN process' = "aborted" /\ UNCHANGED <<chat, wire>>
         ELSE chat' = "read" /\ Write(Cluster, discoveryRequest_')
    /\ ChatKeeps /\ UNCHANGED <<inbox, version_info_, nonce_, isOk>>

(* Read returns a response; what its resources parse to goes to the log.   *)
ChatRead ==
    /\ Running /\ chat = "read" /\ inbox # <<>>
    /\ nonce_' = Head(inbox) /\ version_info_' = issued[Head(inbox)].version_info
    /\ inbox' = Tail(inbox)
    /\ chat' = "continue"
    /\ ChatKeeps /\ UNCHANGED <<process, wire, discoveryRequest_, isOk>>

(* Fault: only the version is copied.                                      *)
AnswerWithoutNonce == [discoveryRequest_ EXCEPT !.version_info = version_info_]

Answer == [discoveryRequest_ EXCEPT !.version_info = version_info_,
                                    !.response_nonce = nonce_]

(* continueChat, whatever the type of the response and its resources.      *)
continueChat ==
    /\ Running /\ chat = "continue"
    /\ discoveryRequest_' = Answer
    /\ Write(Cluster, Answer)
    /\ isOk' = TRUE
    /\ chat' = "read"
    /\ ChatKeeps /\ UNCHANGED <<inbox, version_info_, nonce_>>

(* Fault: a Read that fails is tried again.                                *)
ChatReadsAgain ==
    /\ Running /\ chat = "read" /\ inbox = <<>> /\ stream = "ended"
    /\ UNCHANGED allVars

(* Read returns false, and the call returns isOk.                          *)
ChatEnds ==
    /\ Running /\ chat = "read" /\ inbox = <<>> /\ stream = "ended"
    /\ chat' = "no"
    /\ ChatKeeps
    /\ UNCHANGED <<process, inbox, wire, discoveryRequest_, version_info_, nonce_, isOk>>

ChatStep == ChatRead \/ continueChat \/ ChatEnds

(* What the multiplexer, its application and the server do beside a chat.  *)
Beside ==
    /\ \/ ClientStep \/ ShutdownStep \/ Server \/ Terminated
       \/ chat = "no" /\ Application
       \/ ShutdownThread /\ Shutdown
    /\ UNCHANGED chatVars

ChatNext == StartChat \/ ChatStep \/ Beside

ChatSpec == /\ ChatInit /\ [][ChatNext]_allVars
            /\ WF_allVars(ChatStep) /\ WF_allVars(ClientStep /\ UNCHANGED chatVars)
            /\ WF_allVars(ShutdownStep /\ UNCHANGED chatVars)

-----------------------------------------------------------------------------
(* Properties.                                                             *)

(* The server hears the chat only once a shutdown() has set its flag:      *)
(* before that onStreamEstablished keeps the application until the stream  *)
(* has ended, so no chat can interfere with the requests of the            *)
(* multiplexer.                                                            *)
ChatOnlyAfterShutdown ==
    [][chat' # "no" /\ wire' # wire => shutdown_]_allVars

(* The responses the chat has answered, and those it has yet to read.      *)
Answered == [i \in 1..Len(wire) - 1 |-> wire[i + 1].request.response_nonce]
Heard    == Answered \o inbox

(* On an open stream every response, however early it came and of whatever *)
(* type, is answered by the chat once and in order, with its own nonce and *)
(* version.                                                                *)
ChatAnswersAll ==
    chat = "read" /\ stream = "open" /\ ~writesDone =>
        /\ \A i, j \in DOMAIN Heard : i < j => Heard[i] < Heard[j]
        /\ Range(Heard) = {n \in DOMAIN issued : issued[n].stream = streams}
        /\ \A i \in DOMAIN Answered :
              wire[i + 1].request.version_info = issued[Answered[i]].version_info

(* When the stream ends the chat returns, or the process is gone.          *)
ChatReturns == (chat # "no" /\ stream = "ended") ~> (chat = "no" \/ ~Running)
=============================================================================
