------------------------------ MODULE AdsClient ------------------------------
(***************************************************************************)
(* The ADS multiplexer of src/ads_protocol_client: class AdsClient with    *)
(* the Watcher objects it hands out, one client thread that runs every     *)
(* member function, the application that calls them, and (external) the    *)
(* gRPC bidirectional stream with the management server at its other end.  *)
(*                                                                         *)
(* The member functions call each other while they block in                *)
(* stream_->Read(): a response handled inside sendDiscoveryRequest queues  *)
(* a request, and queueDiscoveryRequest drains the queue at once, which    *)
(* sends and reads again.  A nested activation of                          *)
(*    onDiscoveryResponse / queueDiscoveryRequest / drainRequests          *)
(* differs from another only by its nesting, and each of them returns into *)
(* the Read loop of the one below it, so the call stack is depth (the      *)
(* number of active drainRequests), pc (where the innermost one is) and    *)
(* caller (where the outermost one returns to).                            *)
(*                                                                         *)
(* A definition whose comment starts with "Fault:" is not part of the      *)
(* model: it is the definition after it with an error in it, and a         *)
(* property that is worth checking fails with that error.                  *)
(***************************************************************************)
EXTENDS Integers, Sequences, FiniteSets, Functions

CONSTANTS
    Types,           \* the resource type URLs
    Cluster,         \* the type URL the constructor subscribes to
    Names,           \* resource names a watch can ask for
    Watchers,        \* identities of Watcher objects
    WatchUrl,        \* type_url_ of each Watcher
    Versions,        \* values of DiscoveryResponse.version_info
    NoVersion,       \* the empty version_info
    MaxStreams,      \* bound: calls of onStreamEstablished
    MaxResponses,    \* bound: responses the server sends in a behaviour
    ShutdownThread   \* may shutdown() run on a thread of its own?

ASSUME TypesAssumption    == Cluster \in Types
ASSUME WatchUrlAssumption == WatchUrl \in [Watchers -> Types]
ASSUME VersionsAssumption == NoVersion \notin Versions
ASSUME BoundsAssumption   == MaxStreams \in Nat /\ MaxResponses \in Nat
ASSUME ShutdownAssumption == ShutdownThread \in BOOLEAN

VARIABLES
    process,         \* has the process left the states its code defines?
    pc,              \* where the client thread is
    caller,          \* where the outermost queueDiscoveryRequest returns to
    depth,           \* number of active drainRequests
    visit,           \* position of the loop of onStreamEstablished
    update,          \* the Watcher::update in progress
    subscriptions_, request_queue_, first_stream_request_, shutdown_,
    api_state_,      \* the types that have an ApiState
    subscribed_, request_, previously_fetched_data_,
    watches_,        \* the Watchers that are on the list of their ApiState
    resources_,      \* the resource names each Watcher asks for
    stream,          \* stream_: no stream, an open one, or one that ended
    streams,         \* number of streams opened so far
    writesDone,      \* has WritesDone been called on the stream?
    inbox,           \* responses the client has not read yet, by nonce
    issued,          \* every response the server has sent; its index is its nonce
    wire,            \* every request delivered on the current stream
    shutPc           \* where shutdown() is

threadVars   == <<pc, caller, depth, visit, update>>
apiVars      == <<api_state_, subscribed_, request_, previously_fetched_data_>>
watchVars    == <<watches_, resources_>>
streamVars   == <<stream, streams, writesDone, inbox, issued, wire>>
shutdownVars == <<shutdown_, shutPc>>
vars == <<process, threadVars, subscriptions_, request_queue_,
          first_stream_request_, apiVars, watchVars, streamVars, shutdownVars>>

(* What a DiscoveryRequest carries.  A nonce is the index of a response in *)
(* issued, 0 the empty string; node and type_url say whether the field is  *)
(* set.  error_detail is absent: the code that would set it is commented   *)
(* out.                                                                    *)
Requests == [version_info : Versions \cup {NoVersion}, response_nonce : Nat,
             resource_names : SUBSET Names, node : BOOLEAN, type_url : BOOLEAN]

EmptyRequest == [version_info |-> NoVersion, response_nonce |-> 0,
                 resource_names |-> {}, node |-> FALSE, type_url |-> FALSE]

(* A response is of a type, has a version and may hold no resources.       *)
Responses == [type_url : Types, version_info : Versions, empty : BOOLEAN,
              stream : Nat]

NoUpdate == <<>>

Running == process = "running"

(* The application's thread runs nothing of the client: it is the thread   *)
(* of shutdown() too, unless that has a thread of its own.                 *)
AppIdle == Running /\ pc = "idle" /\ (shutPc # "no" => ShutdownThread)

TypeWatches(url) == {w \in watches_ : WatchUrl[w] = url}

Init ==
    /\ process = "running"
    /\ pc = "idle" /\ caller = "idle" /\ depth = 0 /\ visit = 1
    /\ update = NoUpdate
    /\ subscriptions_ = <<Cluster>>
    /\ request_queue_ = <<>>
    /\ first_stream_request_ = TRUE
    /\ api_state_ = {}
    /\ subscribed_ = [t \in Types |-> FALSE]
    /\ request_ = [t \in Types |-> EmptyRequest]
    /\ previously_fetched_data_ = [t \in Types |-> FALSE]
    /\ watches_ = {}
    /\ resources_ = [w \in Watchers |-> {}]
    /\ stream = "none" /\ streams = 0 /\ writesDone = FALSE
    /\ inbox = <<>> /\ issued = <<>> /\ wire = <<>>
    /\ shutdown_ = FALSE /\ shutPc = "no"

-----------------------------------------------------------------------------
(* The request queue.                                                      *)

(* apiStateFor makes the ApiState of a type that has none.                 *)
apiStateFor(url) == api_state_ \cup {url}

(* Fault: the request is queued and nobody drains the queue.               *)
queueWithoutDrain(url, back) ==
    /\ pc' = back
    /\ UNCHANGED depth
    /\ request_queue_' = IF stream = "none" THEN request_queue_
                                            ELSE Append(request_queue_, url)
    /\ api_state_' = IF stream = "none" THEN api_state_ ELSE apiStateFor(url)

(* queueDiscoveryRequest(url), called from the point back.  Without a      *)
(* stream the request is dropped; paused() is never true (nothing changes  *)
(* pauses_), so otherwise it is queued and the queue drained.              *)
queueDiscoveryRequest(url, back) ==
    IF stream = "none"
      THEN /\ pc' = back
           /\ UNCHANGED <<depth, request_queue_, api_state_>>
      ELSE /\ pc' = "drain"
           /\ depth' = depth + 1
           /\ request_queue_' = Append(request_queue_, url)
           /\ api_state_' = apiStateFor(url)

(* Fault: sendDiscoveryRequest does not look at shutdown_.                 *)
SendAlways == "write"

(* sendDiscoveryRequest returns at once when shutdown_ is set.             *)
SendUnlessShutdown == IF shutdown_ THEN "pop" ELSE "write"

(* The loop test of drainRequests and the start of sendDiscoveryRequest.   *)
DrainRequests ==
    /\ Running /\ pc = "drain"
    /\ IF request_queue_ = <<>>
         THEN /\ depth' = depth - 1
              /\ pc' = IF depth = 1 THEN caller ELSE "read"
         ELSE /\ pc' = SendUnlessShutdown
              /\ UNCHANGED depth
    /\ UNCHANGED <<process, caller, visit, update, subscriptions_,
                   request_queue_, first_stream_request_, apiVars, watchVars,
                   streamVars, shutdownVars>>

(* Fault: the newest request is sent, not the oldest.                      *)
BackOfQueue == request_queue_[Len(request_queue_)]

(* The type drainRequests sends for.  It stays in the queue meanwhile.     *)
FrontOfQueue == Head(request_queue_)

(* Fault: the first request of a stream always subscribes.                 *)
SubscribesAgain(url) == first_stream_request_

(* sendDiscoveryRequest subscribes to the type of the first request of a   *)
(* stream, unless addWatch or an earlier stream has.                       *)
Subscribes(url) == first_stream_request_ /\ ~subscribed_[url]

WatchedNames(url) == UNION {resources_[w] : w \in TypeWatches(url)}

(* Fault: resource_names is not cleared first.                             *)
BuildOnOldNames(url) ==
    LET named == [request_[url] EXCEPT !.resource_names = @ \cup WatchedNames(url)]
    IN  CASE Subscribes(url) -> [named EXCEPT !.node = TRUE, !.type_url = TRUE]
          [] ~first_stream_request_ -> [named EXCEPT !.node = FALSE]
          [] OTHER -> named

(* Fault: the type URL is left out.                                        *)
BuildUntyped(url) ==
    [request_[url] EXCEPT !.resource_names = WatchedNames(url),
                          !.node = first_stream_request_]

(* The request sendDiscoveryRequest builds: the names of all the watches   *)
(* without duplicates; on the first request of a stream the node and the   *)
(* type URL, but only for a type not subscribed yet; on a later one no     *)
(* node.  must_send_node_ is never true.                                   *)
BuildRequest(url) ==
    LET named == [request_[url] EXCEPT !.resource_names = WatchedNames(url)]
    IN  CASE Subscribes(url) -> [named EXCEPT !.node = TRUE, !.type_url = TRUE]
          [] ~first_stream_request_ -> [named EXCEPT !.node = FALSE]
          [] OTHER -> named

(* A Write or another WritesDone after WritesDone is a misuse of the API,  *)
(* which the library answers with a failure or an abort.                   *)
AfterWritesDone == IF writesDone THEN {"running", "aborted"} ELSE {"running"}

(* stream_->Write(request): delivered on an open stream.  The code ignores *)
(* its result, so a failed Write goes on to Read.                          *)
Write(url, request) ==
    /\ wire' = IF stream = "open" /\ ~writesDone
                 THEN Append(wire, [url |-> url, request |-> request])
                 ELSE wire
    /\ process' \in AfterWritesDone

(* sendDiscoveryRequest up to its Read loop.                               *)
WriteRequest ==
    /\ Running /\ pc = "write"
    /\ LET url == FrontOfQueue
           request == BuildRequest(url)
       IN  /\ request_' = [request_ EXCEPT ![url] = request]
           /\ subscribed_' = [subscribed_ EXCEPT ![url] = @ \/ Subscribes(url)]
           /\ subscriptions_' = IF Subscribes(url)
                                THEN Append(subscriptions_, url)
                                ELSE subscriptions_
           /\ Write(url, request)
    /\ first_stream_request_' = FALSE
    /\ pc' = "read"
    /\ UNCHANGED <<caller, depth, visit, update, request_queue_, api_state_,
                   previously_fetched_data_, watchVars, stream, streams,
                   writesDone, inbox, issued, shutdownVars>>

(* Fault: a response with resources that nobody watches is accepted.       *)
AcceptsUnwatched(message) == TypeWatches(message.type_url) = {}

(* A response without resources for a type nobody watches is accepted.     *)
Accepts(message) == TypeWatches(message.type_url) = {} /\ message.empty

(* Fault: a response without resources erases the nonce.                   *)
RecordForgettingNonce(message, nonce) ==
    [request_[message.type_url] EXCEPT
        !.response_nonce = IF message.empty THEN 0 ELSE nonce,
        !.version_info = IF Accepts(message) THEN message.version_info ELSE @]

(* The next request of a type after a response: its nonce, and its version *)
(* if it is accepted.  No other response changes the version, not even one *)
(* that is watched.                                                        *)
RecordResponse(message, nonce) ==
    [request_[message.type_url] EXCEPT
        !.response_nonce = nonce,
        !.version_info = IF Accepts(message) THEN message.version_info ELSE @]

(* Read returns a response and onDiscoveryResponse handles it: a type      *)
(* without ApiState is ignored, an accepted response is recorded, and      *)
(* after any other one a request is queued.                                *)
OnDiscoveryResponse ==
    /\ Running /\ pc = "read" /\ inbox # <<>>
    /\ LET nonce == Head(inbox)
           message == issued[nonce]
           url == message.type_url
       IN  /\ inbox' = Tail(inbox)
           /\ IF url \notin api_state_
                THEN UNCHANGED <<pc, depth, request_queue_, apiVars>>
                ELSE /\ request_' = [request_ EXCEPT
                                       ![url] = RecordResponse(message, nonce)]
                     /\ previously_fetched_data_' = [previously_fetched_data_ EXCEPT
                                       ![url] = @ \/ TypeWatches(url) # {}]
                     /\ UNCHANGED subscribed_
                     /\ IF Accepts(message)
                          THEN UNCHANGED <<pc, depth, request_queue_, api_state_>>
                          ELSE queueDiscoveryRequest(url, "read")
    /\ UNCHANGED <<process, caller, visit, update, subscriptions_,
                   first_stream_request_, watchVars, stream, streams,
                   writesDone, issued, wire, shutdownVars>>

(* Fault: the end of the stream empties the queue, and the pop follows.    *)
ReadEndsClearing ==
    /\ Running /\ pc = "read" /\ inbox = <<>> /\ stream = "ended"
    /\ pc' = "pop" /\ request_queue_' = <<>>
    /\ UNCHANGED <<process, caller, depth, visit, update, subscriptions_,
                   first_stream_request_, apiVars, watchVars, streamVars,
                   shutdownVars>>

(* Fault: Read does not wait for the end of the stream.                    *)
ReadEndsEarly ==
    /\ Running /\ pc = "read" /\ inbox = <<>>
    /\ pc' = "pop"
    /\ UNCHANGED <<process, caller, depth, visit, update, subscriptions_,
                   request_queue_, first_stream_request_, apiVars, watchVars,
                   streamVars, shutdownVars>>

(* Read returns false: sendDiscoveryRequest is done.                       *)
ReadEnds ==
    /\ Running /\ pc = "read" /\ inbox = <<>> /\ stream = "ended"
    /\ pc' = "pop"
    /\ UNCHANGED <<process, caller, depth, visit, update, subscriptions_,
                   request_queue_, first_stream_request_, apiVars, watchVars,
                   streamVars, shutdownVars>>

(* Fault: the request that was sent stays in the queue.                    *)
NoPop ==
    /\ Running /\ pc = "pop"
    /\ pc' = "drain"
    /\ UNCHANGED <<process, caller, depth, visit, update, subscriptions_,
                   request_queue_, first_stream_request_, apiVars, watchVars,
                   streamVars, shutdownVars>>

(* request_queue_->pop().  On an empty std::queue its behaviour is         *)
(* undefined: the state of the process means nothing afterwards.           *)
PopRequest ==
    /\ Running /\ pc = "pop"
    /\ IF request_queue_ = <<>>
         THEN process' = "undefined" /\ UNCHANGED <<pc, request_queue_>>
         ELSE /\ request_queue_' = Tail(request_queue_)
              /\ pc' = "drain"
              /\ UNCHANGED process
    /\ UNCHANGED <<caller, depth, visit, update, subscriptions_,
                   first_stream_request_, apiVars, watchVars, streamVars,
                   shutdownVars>>

-----------------------------------------------------------------------------
(* Establishing a stream.                                                  *)

(* Fault: the nonces of the last stream are kept.                          *)
keepNonce == request_

(* Fault: the requests of the types without ApiState are thrown away.      *)
forgetUntracked == [t \in api_state_ |-> [request_[t] EXCEPT !.response_nonce = 0]]

(* clearNonce goes over the types that have an ApiState.                   *)
clearNonce == [t \in Types |->
                 IF t \in api_state_ THEN [request_[t] EXCEPT !.response_nonce = 0]
                                     ELSE request_[t]]

(* onStreamEstablished: the stub returns a stream, and the loop over the   *)
(* subscriptions starts, or it returns none and there is nothing to do.    *)
(* The assignment to stream_ destroys the last stream, also under a        *)
(* Finish() that another thread has called on it; if that thread has not   *)
(* come to Finish() yet, it will call it on the new stream.                *)
OnStreamEstablished ==
    /\ AppIdle /\ streams < MaxStreams
    /\ process' \in {"running"} \cup (IF shutPc = "finishing" THEN {"freed"} ELSE {})
    /\ streams' = streams + 1
    /\ writesDone' = FALSE /\ inbox' = <<>> /\ wire' = <<>>
    /\ \/ /\ stream' = "open"
          /\ first_stream_request_' = TRUE
          /\ request_' = clearNonce
          /\ request_queue_' = <<>>
          /\ pc' = "established" /\ visit' = 1
       \/ /\ stream' = "none"
          /\ UNCHANGED <<first_stream_request_, request_, request_queue_, pc, visit>>
    /\ UNCHANGED <<caller, depth, update, subscriptions_, api_state_,
                   subscribed_, previously_fetched_data_, watchVars, issued,
                   shutdownVars>>

(* One turn of "for (type_url : subscriptions_)"; the list may have grown  *)
(* while the loop ran.                                                     *)
EstablishedLoop ==
    /\ Running /\ pc = "established"
    /\ IF visit > Len(subscriptions_)
         THEN pc' = "idle" /\ UNCHANGED <<caller, depth, visit, request_queue_, api_state_>>
         ELSE /\ visit' = visit + 1 /\ caller' = "established"
              /\ queueDiscoveryRequest(subscriptions_[visit], "established")
    /\ UNCHANGED <<process, update, subscriptions_, first_stream_request_,
                   subscribed_, request_, previously_fetched_data_, watchVars,
                   streamVars, shutdownVars>>

-----------------------------------------------------------------------------
(* Watches.  updateResources puts the watch at the front of the list of    *)
(* its ApiState; the order of that list only orders resource_names, so     *)
(* the list is the set of its members.                                     *)

updateResources(w, names) ==
    /\ watches_' = watches_ \cup {w}
    /\ resources_' = [resources_ EXCEPT ![w] = names]

(* addWatch with the constructor of Watcher.                               *)
AddWatch(w, names) ==
    /\ AppIdle /\ w \notin watches_
    /\ updateResources(w, names)
    /\ LET url == WatchUrl[w]
       IN  /\ subscribed_' = [subscribed_ EXCEPT ![url] = TRUE]
           /\ request_' = IF subscribed_[url] THEN request_
                          ELSE [request_ EXCEPT ![url].type_url = TRUE]
           /\ subscriptions_' = IF subscribed_[url] THEN subscriptions_
                                ELSE Append(subscriptions_, url)
           /\ caller' = "idle"
           /\ IF stream = "none"
                THEN /\ api_state_' = apiStateFor(url)
                     /\ UNCHANGED <<pc, depth, request_queue_>>
                ELSE queueDiscoveryRequest(url, "idle")
    /\ UNCHANGED <<process, visit, update, first_stream_request_,
                   previously_fetched_data_, streamVars, shutdownVars>>

(* Watcher::update up to updateResources: while the first request is sent  *)
(* the watch is on no list.                                                *)
UpdateWatch(w, names) ==
    /\ AppIdle /\ w \in watches_
    /\ watches_' = watches_ \ {w}
    /\ update' = <<w, names>>
    /\ caller' = "update"
    /\ IF resources_[w] = {}
         THEN pc' = "update" /\ UNCHANGED <<depth, request_queue_, api_state_>>
         ELSE queueDiscoveryRequest(WatchUrl[w], "update")
    /\ UNCHANGED <<process, visit, subscriptions_, first_stream_request_,
                   subscribed_, request_, previously_fetched_data_, resources_,
                   streamVars, shutdownVars>>

(* The rest of Watcher::update.                                            *)
FinishUpdate ==
    /\ Running /\ pc = "update"
    /\ updateResources(update[1], update[2])
    /\ update' = NoUpdate
    /\ caller' = "idle"
    /\ queueDiscoveryRequest(WatchUrl[update[1]], "idle")
    /\ UNCHANGED <<process, visit, subscriptions_, first_stream_request_,
                   subscribed_, request_, previously_fetched_data_, streamVars,
                   shutdownVars>>

(* ~Watcher.                                                               *)
DestroyWatch(w) ==
    /\ AppIdle /\ w \in watches_
    /\ watches_' = watches_ \ {w}
    /\ resources_' = [resources_ EXCEPT ![w] = {}]
    /\ caller' = "idle"
    /\ IF resources_[w] = {}
         THEN UNCHANGED <<pc, depth, request_queue_, api_state_>>
         ELSE queueDiscoveryRequest(WatchUrl[w], "idle")
    /\ UNCHANGED <<process, visit, update, subscriptions_, first_stream_request_,
                   subscribed_, request_, previously_fetched_data_, streamVars,
                   shutdownVars>>

-----------------------------------------------------------------------------
(* Shutdown, after the client has returned or on a thread of its own, and  *)
(* any number of times, one after the other.                               *)

(* shutdown() -> endStream(): WritesDone, a null dereference if there is   *)
(* no stream and a misuse if it was called on this stream before.          *)
Shutdown ==
    /\ Running /\ shutPc = "no" /\ (pc = "idle" \/ ShutdownThread)
    /\ IF stream = "none"
         THEN process' = "aborted" /\ UNCHANGED <<shutPc, writesDone>>
         ELSE /\ process' \in AfterWritesDone
              /\ shutPc' = "finishing" /\ writesDone' = TRUE
    /\ UNCHANGED <<threadVars, subscriptions_, request_queue_,
                   first_stream_request_, apiVars, watchVars, stream, streams,
                   inbox, issued, wire, shutdown_>>

(* Finish() returns once the stream has ended.  The stream is the one that *)
(* stream_ holds now, and there may be none.                               *)
ShutdownFinish ==
    /\ Running /\ shutPc = "finishing"
    /\ \/ stream = "ended" /\ shutPc' = "finished" /\ UNCHANGED process
       \/ stream = "none" /\ process' = "aborted" /\ UNCHANGED shutPc
    /\ UNCHANGED <<threadVars, subscriptions_, request_queue_,
                   first_stream_request_, apiVars, watchVars, streamVars,
                   shutdown_>>

(* Only then is the flag set, and shutdown() returns.                      *)
ShutdownSet ==
    /\ Running /\ shutPc = "finished"
    /\ shutdown_' = TRUE /\ shutPc' = "no"
    /\ UNCHANGED <<process, threadVars, subscriptions_, request_queue_,
                   first_stream_request_, apiVars, watchVars, streamVars>>

-----------------------------------------------------------------------------
(* The server and the connection (external).                               *)

ServerPush(url, version, empty) ==
    /\ Running /\ stream = "open" /\ Len(issued) < MaxResponses
    /\ issued' = Append(issued, [type_url |-> url, version_info |-> version,
                                 empty |-> empty, stream |-> streams])
    /\ inbox' = Append(inbox, Len(issued) + 1)
    /\ UNCHANGED <<process, threadVars, subscriptions_, request_queue_,
                   first_stream_request_, apiVars, watchVars, stream, streams,
                   writesDone, wire, shutdownVars>>

(* The stream ends, by the server or by a broken connection, and the last  *)
(* responses may be lost.                                                  *)
ServerEnd ==
    /\ Running /\ stream = "open"
    /\ stream' = "ended"
    /\ \E k \in 0..Len(inbox) : inbox' = SubSeq(inbox, 1, k)
    /\ UNCHANGED <<process, threadVars, subscriptions_, request_queue_,
                   first_stream_request_, apiVars, watchVars, streams,
                   writesDone, issued, wire, shutdownVars>>

-----------------------------------------------------------------------------
ClientStep == \/ DrainRequests \/ WriteRequest \/ OnDiscoveryResponse
              \/ ReadEnds \/ PopRequest \/ EstablishedLoop \/ FinishUpdate

Application ==
    \/ OnStreamEstablished
    \/ \E w \in Watchers :
         \/ \E names \in SUBSET Names : AddWatch(w, names) \/ UpdateWatch(w, names)
         \/ DestroyWatch(w)
    \/ Shutdown

Server == \/ \E url \in Types, version \in Versions, empty \in BOOLEAN :
               ServerPush(url, version, empty)
          \/ ServerEnd

(* The process is gone, or main has returned.                              *)
Terminated ==
    /\ ~Running \/ (pc = "idle" /\ shutdown_ /\ shutPc = "no")
    /\ UNCHANGED vars

ShutdownStep == ShutdownFinish \/ ShutdownSet

Next == ClientStep \/ Application \/ ShutdownStep \/ Server \/ Terminated

(* The client thread and the thread of shutdown() run when they can; the   *)
(* application and the server owe nothing.                                 *)
Spec == Init /\ [][Next]_vars /\ WF_vars(ClientStep) /\ WF_vars(ShutdownStep)

-----------------------------------------------------------------------------
(* Properties.                                                             *)

ThreadTypeOK ==
    /\ process \in {"running", "aborted", "undefined", "freed"}
    /\ pc \in {"idle", "established", "update", "drain", "write", "read", "pop"}
    /\ caller \in {"idle", "established", "update"}
    /\ depth \in Nat /\ visit \in Nat \ {0}
    /\ update = NoUpdate \/ update \in Watchers \X SUBSET Names
    /\ shutdown_ \in BOOLEAN /\ shutPc \in {"no", "finishing", "finished"}

ApiTypeOK ==
    /\ subscriptions_ \in Seq(Types) /\ request_queue_ \in Seq(Types)
    /\ first_stream_request_ \in BOOLEAN
    /\ api_state_ \in SUBSET Types
    /\ subscribed_ \in [Types -> BOOLEAN]
    /\ request_ \in [Types -> Requests]
    /\ previously_fetched_data_ \in [Types -> BOOLEAN]

WatchTypeOK ==
    /\ watches_ \in SUBSET Watchers
    /\ resources_ \in [Watchers -> SUBSET Names]

StreamTypeOK ==
    /\ stream \in {"none", "open", "ended"}
    /\ streams \in Nat /\ writesDone \in BOOLEAN
    /\ inbox \in Seq(Nat) /\ issued \in Seq(Responses)
    /\ wire \in Seq([url : Types, request : Requests])

(* Type correctness of the client's thread, of its state, of the watches   *)
(* and of the stream.                                                      *)
TypeOK == ThreadTypeOK /\ ApiTypeOK /\ WatchTypeOK /\ StreamTypeOK

(* request_queue_ holds at most one request for each drainRequests that is *)
(* on the stack, so it never stores requests for later: between calls, and *)
(* while the stream is down, it is empty (AdsClient.h:199-202).            *)
QueueWithinCalls == Len(request_queue_) <= depth

(* A request acknowledges nothing, or a response of its own type that the  *)
(* server sent on the same stream: nonces do not survive a reconnect       *)
(* (clearNonce), nor cross from one type to another.                       *)
NoncesOfThisStream ==
    \A i \in DOMAIN wire :
        LET nonce == wire[i].request.response_nonce
        IN  nonce # 0 => /\ nonce \in DOMAIN issued
                         /\ issued[nonce].stream = streams
                         /\ issued[nonce].type_url = wire[i].url

(* On a stream the nonces of the requests never go back to an older        *)
(* response, however deep the handler that sends them is nested.           *)
NoncesNeverGoBack ==
    \A i, j \in DOMAIN wire :
        i < j => wire[i].request.response_nonce <= wire[j].request.response_nonce

(* All the requests of all the streams are for the type the constructor    *)
(* subscribes to: sendDiscoveryRequest does not return to the queue before *)
(* the stream ends, so no other front is ever sent on it.                  *)
OnlyClusterRequested == \A i \in DOMAIN wire : wire[i].url = Cluster

(* Every request that reaches the server names its type URL, which is set  *)
(* only by the first request of a stream or by addWatch                    *)
(* (discovery.proto: "required for ADS").                                  *)
TypedRequests == \A i \in DOMAIN wire : wire[i].request.type_url

(* A version that goes to the server was brought by a response without     *)
(* resources that came before: on an earlier stream, or no later than the  *)
(* response the request answers.  So a response with resources, watched or *)
(* not, is acknowledged only where an earlier response without resources   *)
(* had the same version (AdsClient.cpp:196-201, 255).                      *)
VersionsOfEmpty ==
    \A i \in DOMAIN wire :
        LET request == wire[i].request
        IN  request.version_info # NoVersion =>
              \E n \in DOMAIN issued :
                 /\ issued[n].empty
                 /\ issued[n].type_url = wire[i].url
                 /\ issued[n].version_info = request.version_info
                 /\ issued[n].stream < streams \/ n <= request.response_nonce

(* subscriptions_ is the entry of the constructor followed by each         *)
(* subscribed type once: subscribed_ and the list never disagree, although *)
(* two functions maintain them and one of them runs inside the loop over   *)
(* the list.                                                               *)
SubscriptionsMatch ==
    LET subscribed == Tail(subscriptions_)
    IN  /\ Head(subscriptions_) = Cluster
        /\ IsInjective(subscribed)
        /\ Range(subscribed) = {t \in Types : subscribed_[t]}

(* While a stream is open every request on it asked for exactly the names  *)
(* that the watches of its type hold now.                                  *)
WireNamesCurrent ==
    stream = "open" =>
        \A i \in DOMAIN wire :
            wire[i].request.resource_names = WatchedNames(wire[i].url)

(* The queue underflows only on a stream on which a response was handled:  *)
(* a stream that ends without one lets the client return.                  *)
UndefinedOnlyAfterResponse ==
    process = "undefined" => /\ stream = "ended"
                             /\ \E t \in Types : request_[t].response_nonce # 0

(* A client that shuts down on its own thread is never about to write once *)
(* shutdown() has begun, whatever it is asked for later: not after         *)
(* WritesDone, and not on a later stream (AdsClient.h:52-55, 206).         *)
NoWriteAfterShutdown ==
    ~ShutdownThread => ~(pc = "write" /\ (writesDone \/ shutdown_))

(* With shutdown() on another thread a reconnect can come before the flag  *)
(* is set.  Then one request that was past the test of shutdown_ still     *)
(* reaches the server, and after it none, on this stream or on a new one   *)
(* (AdsClient.h:206).                                                      *)
OneSendAfterShutdown ==
    [][shutdown_ /\ pc # "write" => wire' \in {wire, <<>>} /\ pc' # "write"]_vars

(* When the stream ends the call that reads from it ends too: it returns   *)
(* to the application, or the process is gone.                             *)
ReturnsAfterEnd == (stream = "ended") ~> (pc = "idle" \/ ~Running)

(* The client waits in Read with nothing left to read.                     *)
Waiting == /\ Running /\ pc = "read" /\ inbox = <<>> /\ stream = "open"
           /\ ~writesDone /\ ~shutdown_

(* The last response with resources of the requested type is answered:     *)
(* when the client waits, a request with its nonce is on the wire          *)
(* (AdsClient.cpp:196 "send a NACK").                                      *)
RepliesSent ==
    LET nonce == request_[Cluster].response_nonce
    IN  Waiting /\ nonce # 0 /\ ~issued[nonce].empty
          => \E i \in DOMAIN wire : wire[i].request.response_nonce = nonce

(* Every response with resources of the requested type is answered in the  *)
(* end, each with a request of its own, unless the stream ends or the      *)
(* client shuts down: none is skipped while the handlers nest.             *)
ResponsesAnswered ==
    \A n \in 1..MaxResponses :
        /\ stream = "open" /\ n \in DOMAIN issued
        /\ issued[n].stream = streams
        /\ issued[n].type_url = Cluster /\ ~issued[n].empty
        ~> \/ stream # "open" \/ writesDone \/ shutdown_ \/ ~Running
           \/ \E i \in DOMAIN wire : wire[i].request.response_nonce = n

(* Each request on an open stream is sent by an activation of its own that *)
(* has not returned: the call stack grows with every answered response and *)
(* unwinds only when the stream ends (AdsClient.cpp:154-156).              *)
NestedSends ==
    stream = "open" /\ ~writesDone /\ pc = "read" => depth = Len(wire)

(* What a server sees of the client: the responses of this stream, what is *)
(* recorded of them by type, and the requests that were delivered.         *)
Offered   == {[type |-> issued[n].type_url, nonce |-> n,
               version |-> issued[n].version_info] :
                 n \in {k \in DOMAIN issued : issued[k].stream = streams}}
Received  == [t \in Types |-> request_[t].response_nonce]
Applied   == [t \in Types |-> request_[t].version_info]
Delivered == [i \in DOMAIN wire |->
               [type |-> wire[i].url, nonce |-> wire[i].request.response_nonce,
                version |-> wire[i].request.version_info]]

Protocol == INSTANCE AckProtocol WITH
    open <- stream = "open", offers <- Offered, received <- Received,
    applied <- Applied, requests <- Delivered

(* The client keeps to the ACK protocol as a server sees it: its requests  *)
(* name the last response received on the stream and the last version      *)
(* accepted, across nesting, lost responses, reconnects and failures.      *)
ImplementsAckProtocol == Protocol!Spec

-----------------------------------------------------------------------------
(* What comments of the code and of the protocol say and the code does not *)
(* do: each of these fails.                                                *)

(* drainRequests pops only what "while (!request_queue_->empty())" found   *)
(* (AdsClient.cpp:101-104).                                                *)
NoUnderflow == process # "undefined"

(* The connection gets the requests that were dropped without one: when    *)
(* the client waits, every subscription is on the wire (AdsClient.cpp:86   *)
(* "the reconnect will enqueue a new one").                                *)
SubscriptionsRequested ==
    Waiting => \A t \in Types :
        subscribed_[t] => \E i \in DOMAIN wire : wire[i].url = t

(* A request that answers a response of a watched type has its version     *)
(* (discovery.proto: the version of the most recent successfully processed *)
(* response).                                                              *)
WatchedResponseAcked ==
    stream = "open" =>
        \A i \in DOMAIN wire :
            LET request == wire[i].request
            IN  TypeWatches(wire[i].url) # {} /\ request.response_nonce # 0
                  => request.version_info = issued[request.response_nonce].version_info
=============================================================================
