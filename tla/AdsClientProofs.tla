--------------------------- MODULE AdsClientProofs ---------------------------
(***************************************************************************)
(* Proofs about AdsClient, for every set of types, names and watches and   *)
(* every bound.                                                            *)
(***************************************************************************)
EXTENDS AdsClient, SequenceTheorems, TLAPS

(* The call stack: depth counts activations, the front of the queue exists *)
(* while it is sent, an update in progress is known where it is resumed.   *)
ControlInv ==
    /\ pc \in {"drain", "write", "read", "pop"} => depth > 0 /\ stream # "none"
    /\ pc \in {"idle", "established", "update"} => depth = 0
    /\ pc = "write" => request_queue_ # <<>>
    /\ pc = "update" \/ (depth > 0 /\ caller = "update") => update # NoUpdate

(* The responses to be read are responses of this stream, oldest first.    *)
InboxInv ==
    /\ stream = "none" => inbox = <<>>
    /\ \A i \in 1..Len(inbox) : /\ inbox[i] \in 1..Len(issued)
                                /\ issued[inbox[i]].stream = streams
    /\ \A i, j \in 1..Len(inbox) : i < j => inbox[i] < inbox[j]
    /\ \A i \in 1..Len(inbox), t \in Types : request_[t].response_nonce < inbox[i]

(* subscriptions_ starts with the entry of the constructor.                *)
FirstIsCluster == Len(subscriptions_) > 0 /\ subscriptions_[1] = Cluster

(* As long as a stream is open the client has not got past the first       *)
(* request of onStreamEstablished, or shutdown_ is set and no request will *)
(* be written but the one that is past its test.                           *)
OpenInv ==
    stream = "open" =>
        \/ shutdown_ /\ pc # "write" /\ (pc = "pop" => request_queue_ # <<>>)
        \/ /\ ~shutdown_ /\ pc = "established" /\ visit = 1
           /\ first_stream_request_
        \/ /\ ~shutdown_ \/ pc = "write"
           /\ pc \in {"drain", "write", "read"}
           /\ request_queue_ # <<>> /\ Head(request_queue_) = Cluster
           /\ first_stream_request_ \/ subscribed_[Cluster]

(* A subscribed type has its type URL set.                                 *)
TypedInv == \A t \in Types : subscribed_[t] => request_[t].type_url

(* A recorded nonce is that of a response of the type, on this stream.     *)
NonceInv ==
    \A t \in Types :
        LET nonce == request_[t].response_nonce
        IN  /\ t \notin api_state_ => nonce = 0
            /\ nonce # 0 => /\ nonce \in 1..Len(issued)
                            /\ issued[nonce].type_url = t
                            /\ stream # "none" => issued[nonce].stream = streams

(* No request on the wire is newer than the last recorded Cluster nonce.   *)
WireNonceInv ==
    \A i \in 1..Len(wire) :
        wire[i].request.response_nonce <= request_[Cluster].response_nonce

(* A recorded version is that of an empty response of the type, which came *)
(* no later than the last recorded response of this stream.                *)
VersionInv ==
    \A t \in Types :
        request_[t].version_info # NoVersion =>
            \E n \in 1..Len(issued) :
                /\ issued[n].empty /\ issued[n].type_url = t
                /\ issued[n].version_info = request_[t].version_info
                /\ issued[n].stream < streams \/ n <= request_[t].response_nonce

(* A nested drainRequests, or a queue that a nested one has emptied, is    *)
(* the work of a response.                                                 *)
NestInv ==
    depth > 1 \/ (pc \in {"read", "pop"} /\ request_queue_ = <<>>)
        => \E t \in Types : request_[t].response_nonce # 0

(* In the Read loop the last Cluster response with resources is answered.  *)
AnswerInv ==
    LET nonce == request_[Cluster].response_nonce
    IN  /\ stream = "open" /\ ~writesDone /\ ~shutdown_ /\ pc = "read"
        /\ nonce # 0 /\ ~issued[nonce].empty
        => \E i \in 1..Len(wire) : wire[i].request.response_nonce = nonce

(* One activation for each request on an open stream, and another one for  *)
(* the request that is on its way: none of them has returned.              *)
Activations(n) == depth >= n /\ (~writesDone => depth = n)

NestedInv ==
    stream = "open" =>
        /\ pc \in {"idle", "established", "update"} => wire = <<>>
        /\ pc = "read" => Activations(Len(wire))
        /\ pc \in {"drain", "write", "pop"} => Activations(Len(wire) + 1)

(* No response is of a stream to come.                                     *)
IssuedInv == \A n \in 1..Len(issued) : issued[n].stream <= streams

(* The parts that do not look at the requests on the wire: they keep each  *)
(* other, whoever else writes on the stream.                               *)
CoreInv == /\ TypeOK /\ ControlInv /\ InboxInv /\ FirstIsCluster /\ OpenInv
           /\ IssuedInv /\ NonceInv /\ QueueWithinCalls

IndInv == /\ CoreInv /\ NestedInv
          /\ TypedInv /\ WireNonceInv /\ VersionInv /\ NestInv
          /\ AnswerInv /\ OnlyClusterRequested
          /\ TypedRequests /\ NoncesOfThisStream /\ NoncesNeverGoBack
          /\ VersionsOfEmpty /\ WireNamesCurrent /\ SubscriptionsMatch
          /\ UndefinedOnlyAfterResponse

-----------------------------------------------------------------------------
(* Types.                                                                  *)

(* What queueDiscoveryRequest leaves in the queue and in api_state_.       *)
LEMMA QueueType ==
    ASSUME request_queue_ \in Seq(Types), api_state_ \in SUBSET Types,
           NEW url \in Types, NEW back, queueDiscoveryRequest(url, back)
    PROVE  request_queue_' \in Seq(Types) /\ api_state_' \in SUBSET Types
BY AppendProperties DEF queueDiscoveryRequest, apiStateFor

(* The request that sendDiscoveryRequest builds is a request.              *)
LEMMA BuildType ==
    ASSUME ApiTypeOK, WatchTypeOK, NEW url \in Types
    PROVE  BuildRequest(url) \in Requests
<1>1. WatchedNames(url) \in SUBSET Names
  BY DEF WatchedNames, TypeWatches, WatchTypeOK
<1>2. request_[url] \in Requests
  BY DEF ApiTypeOK
<1> QED
  BY <1>1, <1>2 DEF BuildRequest, Requests

(* The request that a response leaves for its type is a request.           *)
LEMMA RecordType ==
    ASSUME ApiTypeOK, NEW message \in Responses, NEW nonce \in Nat
    PROVE  RecordResponse(message, nonce) \in Requests
<1>1. request_[message.type_url] \in Requests /\ message.version_info \in Versions
  BY DEF ApiTypeOK, Responses
<1> QED
  BY <1>1 DEF RecordResponse, Requests

(* What sendDiscoveryRequest keeps of the request of a type, and what it   *)
(* sets.                                                                   *)
LEMMA BuildFields ==
    ASSUME ApiTypeOK, NEW url \in Types
    PROVE  /\ BuildRequest(url).response_nonce = request_[url].response_nonce
           /\ BuildRequest(url).version_info = request_[url].version_info
           /\ BuildRequest(url).resource_names = WatchedNames(url)
           /\ request_[url].type_url => BuildRequest(url).type_url
           /\ Subscribes(url) => BuildRequest(url).type_url
<1> DEFINE named == [request_[url] EXCEPT !.resource_names = WatchedNames(url)]
           built == BuildRequest(url)
<1>1. request_[url] \in Requests
  BY DEF ApiTypeOK
<1>2. CASE Subscribes(url)
  <2>1. built = [named EXCEPT !.node = TRUE, !.type_url = TRUE]
    BY <1>2 DEF BuildRequest, Subscribes
  <2> QED
    BY <1>1, <2>1 DEF Requests
<1>3. CASE ~Subscribes(url) /\ ~first_stream_request_
  <2>1. built = [named EXCEPT !.node = FALSE]
    BY <1>3 DEF BuildRequest
  <2> QED
    BY <1>1, <1>3, <2>1 DEF Requests
<1>4. CASE ~Subscribes(url) /\ first_stream_request_
  <2>1. built = named
    BY <1>4 DEF BuildRequest
  <2> QED
    BY <1>1, <1>4, <2>1 DEF Requests
<1> QED
  BY <1>2, <1>3, <1>4

(* What a response sets in the request of its type, and what it keeps.     *)
LEMMA RecordFields ==
    ASSUME ApiTypeOK, NEW message \in Responses, NEW nonce \in Nat
    PROVE  LET before == request_[message.type_url]
               after  == RecordResponse(message, nonce)
           IN  /\ after.response_nonce = nonce
               /\ after.type_url = before.type_url
               /\ after.version_info = IF Accepts(message) THEN message.version_info
                                                           ELSE before.version_info
BY DEF RecordResponse, ApiTypeOK, Requests, Responses

(* The front of the queue while it is sent.                                *)
LEMMA FrontType ==
    ASSUME ApiTypeOK, ControlInv, pc = "write"
    PROVE  FrontOfQueue \in Types
BY HeadTailProperties DEF ApiTypeOK, ControlInv, FrontOfQueue

(* The response that Read returns.                                         *)
LEMMA HeadOfInbox ==
    ASSUME StreamTypeOK, InboxInv, inbox # <<>>
    PROVE  /\ Head(inbox) = inbox[1] /\ 1 \in 1..Len(inbox)
           /\ Head(inbox) \in 1..Len(issued) /\ issued[Head(inbox)] \in Responses
           /\ Tail(inbox) \in Seq(Nat) /\ Len(Tail(inbox)) = Len(inbox) - 1
           /\ \A i \in 1..Len(Tail(inbox)) : Tail(inbox)[i] = inbox[i + 1]
<1>1. /\ Len(inbox) \in Nat \ {0} /\ Head(inbox) = inbox[1]
      /\ Tail(inbox) \in Seq(Nat) /\ Len(Tail(inbox)) = Len(inbox) - 1
      /\ \A i \in 1..Len(Tail(inbox)) : Tail(inbox)[i] = inbox[i + 1]
  BY EmptySeq, HeadTailProperties DEF StreamTypeOK
<1>2. Head(inbox) \in 1..Len(issued)
  BY <1>1 DEF InboxInv
<1>3. issued[Head(inbox)] \in Responses
  BY <1>2, ElementOfSeq DEF StreamTypeOK
<1> QED
  BY <1>1, <1>2, <1>3

(* What a response changes in the requests of the types.                   *)
LEMMA ResponseEffect ==
    ASSUME TypeOK, InboxInv, OnDiscoveryResponse
    PROVE  LET nonce   == Head(inbox)
               message == issued[nonce]
               url     == message.type_url
           IN  /\ nonce \in Nat \ {0} /\ message \in Responses /\ url \in Types
               /\ url \notin api_state_ => request_' = request_
               /\ url \in api_state_ =>
                    /\ request_'[url].response_nonce = nonce
                    /\ request_'[url].type_url = request_[url].type_url
                    /\ request_'[url].version_info =
                          IF Accepts(message) THEN message.version_info
                                              ELSE request_[url].version_info
               /\ \A t \in Types \ {url} : request_'[t] = request_[t]
<1> DEFINE nonce == Head(inbox)
           message == issued[nonce]
           url == message.type_url
<1>1. nonce \in Nat \ {0} /\ message \in Responses /\ url \in Types
  BY HeadOfInbox, LenProperties DEF OnDiscoveryResponse, Responses, TypeOK,
     StreamTypeOK
<1>2. url \notin api_state_ => request_' = request_
  BY DEF OnDiscoveryResponse, apiVars
<1>3. url \in api_state_ =>
        request_' = [request_ EXCEPT ![url] = RecordResponse(message, nonce)]
  BY DEF OnDiscoveryResponse
<1>4. url \in api_state_ => /\ request_'[url] = RecordResponse(message, nonce)
                            /\ \A t \in Types \ {url} : request_'[t] = request_[t]
  BY <1>1, <1>3 DEF TypeOK, ApiTypeOK
<1> QED
  BY <1>1, <1>2, <1>4, RecordFields DEF TypeOK

(* What sendDiscoveryRequest changes in the requests of the types.         *)
LEMMA WriteEffect ==
    ASSUME TypeOK, ControlInv, WriteRequest
    PROVE  LET url == FrontOfQueue
           IN  /\ url \in Types /\ request_'[url] = BuildRequest(url)
               /\ request_'[url].response_nonce = request_[url].response_nonce
               /\ request_'[url].version_info = request_[url].version_info
               /\ request_'[url].resource_names = WatchedNames(url)
               /\ request_[url].type_url \/ Subscribes(url)
                     => request_'[url].type_url
               /\ \A t \in Types \ {url} : request_'[t] = request_[t]
<1>1. FrontOfQueue \in Types
  BY FrontType DEF WriteRequest, TypeOK
<1>2. request_' = [request_ EXCEPT ![FrontOfQueue] = BuildRequest(FrontOfQueue)]
  BY DEF WriteRequest
<1>3. /\ request_'[FrontOfQueue] = BuildRequest(FrontOfQueue)
      /\ \A t \in Types \ {FrontOfQueue} : request_'[t] = request_[t]
  BY <1>1, <1>2 DEF TypeOK, ApiTypeOK
<1> QED
  BY <1>1, <1>3, BuildFields DEF TypeOK

(* The requests on the wire.                                               *)
LEMMA WireElement ==
    ASSUME StreamTypeOK, NEW i \in 1..Len(wire)
    PROVE  wire[i].url \in Types /\ wire[i].request.response_nonce \in Nat
<1>1. wire[i] \in [url : Types, request : Requests]
  BY ElementOfSeq DEF StreamTypeOK
<1> QED
  BY <1>1 DEF Requests

(* What Write adds to the wire: a Cluster request on an open stream.       *)
LEMMA WireEffect ==
    ASSUME TypeOK, ControlInv, OpenInv, WriteRequest
    PROVE  \/ wire' = wire /\ (stream # "open" \/ writesDone)
           \/ /\ stream = "open" /\ ~writesDone /\ FrontOfQueue = Cluster
              /\ Len(wire) \in Nat /\ Len(wire') = Len(wire) + 1
              /\ DOMAIN wire = 1..Len(wire) /\ DOMAIN wire' = 1..Len(wire')
              /\ \A i \in 1..Len(wire) : wire'[i] = wire[i]
              /\ wire'[Len(wire')].url = Cluster
              /\ wire'[Len(wire')].request = request_'[Cluster]
<1>1. CASE ~(stream = "open" /\ ~writesDone)
  BY <1>1 DEF WriteRequest, Write
<1>2. CASE stream = "open" /\ ~writesDone
  <2> DEFINE sent == [url |-> FrontOfQueue, request |-> BuildRequest(FrontOfQueue)]
  <2>1. FrontOfQueue = Cluster
    BY <1>2 DEF WriteRequest, OpenInv, FrontOfQueue
  <2>2. wire' = Append(wire, sent)
    BY <1>2 DEF WriteRequest, Write
  <2>3. sent \in [url : Types, request : Requests]
    BY WriteEffect, BuildType DEF TypeOK
  <2>4. /\ Len(wire) \in Nat /\ Len(wire') = Len(wire) + 1
        /\ DOMAIN wire = 1..Len(wire) /\ DOMAIN wire' = 1..Len(wire')
        /\ \A i \in 1..Len(wire) : wire'[i] = wire[i]
        /\ wire'[Len(wire) + 1] = sent
    BY <2>2, <2>3, AppendProperties, LenProperties DEF TypeOK, StreamTypeOK
  <2>5. request_'[Cluster] = BuildRequest(Cluster)
    BY <2>1, WriteEffect
  <2> QED
    BY <1>2, <2>1, <2>4, <2>5
<1> QED
  BY <1>1, <1>2

(* What a push adds to the responses of the server.                        *)
LEMMA PushEffect ==
    ASSUME TypeOK, NEW url \in Types, NEW version \in Versions,
           NEW empty \in BOOLEAN, ServerPush(url, version, empty)
    PROVE  /\ Len(issued) \in Nat /\ Len(issued') = Len(issued) + 1
           /\ DOMAIN issued = 1..Len(issued) /\ DOMAIN issued' = 1..Len(issued')
           /\ \A n \in 1..Len(issued) : issued'[n] = issued[n]
           /\ issued'[Len(issued) + 1].stream = streams
<1>1. [type_url |-> url, version_info |-> version, empty |-> empty,
       stream |-> streams] \in Responses
  BY DEF Responses, TypeOK, StreamTypeOK
<1> QED
  BY <1>1, AppendProperties, LenProperties DEF ServerPush, TypeOK, StreamTypeOK

(* Appending a new type to subscriptions_.                                 *)
LEMMA SubscribeEffect ==
    ASSUME NEW subs \in Seq(Types), Len(subs) > 0, NEW t \in Types,
           IsInjective(Tail(subs)), t \notin Range(Tail(subs))
    PROVE  LET new == Append(subs, t)
           IN  /\ Head(new) = Head(subs)
               /\ IsInjective(Tail(new))
               /\ Range(Tail(new)) = Range(Tail(subs)) \cup {t}
<1> DEFINE old == Tail(subs)
           new == Append(old, t)
<1>1. subs # <<>> /\ old \in Seq(Types)
  BY EmptySeq, HeadTailProperties
<1>2. Head(Append(subs, t)) = Head(subs) /\ Tail(Append(subs, t)) = new
  BY <1>1, HeadTailAppend
<1> HIDE DEF old
<1>3. /\ Len(old) \in Nat /\ DOMAIN old = 1..Len(old)
      /\ new \in Seq(Types) /\ Len(new) = Len(old) + 1 /\ DOMAIN new = 1..Len(new)
      /\ \A i \in 1..Len(old) : new[i] = old[i]
      /\ new[Len(old) + 1] = t
  BY <1>1, AppendProperties, LenProperties
<1> HIDE DEF new
<1>4. IsInjective(old) /\ t \notin Range(old)
  BY DEF old
<1>5. IsInjective(new)
  BY <1>3, <1>4 DEF IsInjective, Range
<1>6. Range(new) = Range(old) \cup {t}
  BY <1>3 DEF Range
<1> QED
  BY <1>2, <1>5, <1>6 DEF old

(* Every step keeps the types, given the parts of the invariant that say   *)
(* where an update, the front of the queue and a response exist.           *)
LEMMA TypeStep == TypeOK /\ ControlInv /\ InboxInv /\ [Next]_vars => TypeOK'
<1> SUFFICES ASSUME TypeOK, ControlInv, InboxInv, [Next]_vars PROVE TypeOK'
  OBVIOUS
<1> USE TypesAssumption, WatchUrlAssumption
    DEF TypeOK, threadVars, apiVars, watchVars, streamVars, shutdownVars
<1>1. CASE DrainRequests
  <2>thread. ThreadTypeOK'
    BY <1>1 DEF DrainRequests, SendUnlessShutdown, ThreadTypeOK, ControlInv
  <2>api. ApiTypeOK'
    BY <1>1 DEF DrainRequests, ApiTypeOK
  <2>watch. WatchTypeOK'
    BY <1>1 DEF DrainRequests, WatchTypeOK
  <2>stream. StreamTypeOK'
    BY <1>1 DEF DrainRequests, StreamTypeOK
  <2> QED BY <2>thread, <2>api, <2>watch, <2>stream
<1>2. CASE WriteRequest
  <2>thread. ThreadTypeOK'
    BY <1>2 DEF WriteRequest, Write, AfterWritesDone, ThreadTypeOK
  <2>facts. FrontOfQueue \in Types /\ BuildRequest(FrontOfQueue) \in Requests
    BY <1>2, FrontType, BuildType DEF WriteRequest
  <2>api. ApiTypeOK'
    BY <1>2, <2>facts, AppendProperties DEF WriteRequest, ApiTypeOK
  <2>watch. WatchTypeOK'
    BY <1>2 DEF WriteRequest, WatchTypeOK
  <2>stream. StreamTypeOK'
    BY <1>2, <2>facts, AppendProperties DEF WriteRequest, Write, StreamTypeOK
  <2> QED BY <2>thread, <2>api, <2>watch, <2>stream
<1>3. CASE OnDiscoveryResponse
  <2>thread. ThreadTypeOK'
    BY <1>3 DEF OnDiscoveryResponse, queueDiscoveryRequest, ThreadTypeOK
  <2> DEFINE message == issued[Head(inbox)]
  <2>facts. /\ Head(inbox) \in Nat /\ message \in Responses
        /\ message.type_url \in Types
        /\ RecordResponse(message, Head(inbox)) \in Requests
    BY <1>3, HeadOfInbox, RecordType DEF OnDiscoveryResponse, Responses
  <2>api. ApiTypeOK'
    BY <1>3, <2>facts, QueueType DEF OnDiscoveryResponse, ApiTypeOK
  <2>watch. WatchTypeOK'
    BY <1>3 DEF OnDiscoveryResponse, WatchTypeOK
  <2>stream. StreamTypeOK'
    BY <1>3 DEF OnDiscoveryResponse, queueDiscoveryRequest, StreamTypeOK
  <2> QED BY <2>thread, <2>api, <2>watch, <2>stream
<1>4. CASE ReadEnds
  <2>thread. ThreadTypeOK'
    BY <1>4 DEF ReadEnds, ThreadTypeOK
  <2>api. ApiTypeOK'
    BY <1>4 DEF ReadEnds, ApiTypeOK
  <2>watch. WatchTypeOK'
    BY <1>4 DEF ReadEnds, WatchTypeOK
  <2>stream. StreamTypeOK'
    BY <1>4 DEF ReadEnds, StreamTypeOK
  <2> QED BY <2>thread, <2>api, <2>watch, <2>stream
<1>5. CASE PopRequest
  <2>thread. ThreadTypeOK'
    BY <1>5 DEF PopRequest, ThreadTypeOK
  <2>facts. request_queue_ # <<>> => Tail(request_queue_) \in Seq(Types)
    BY HeadTailProperties DEF ApiTypeOK
  <2>api. ApiTypeOK'
    BY <1>5, <2>facts DEF PopRequest, ApiTypeOK
  <2>watch. WatchTypeOK'
    BY <1>5 DEF PopRequest, WatchTypeOK
  <2>stream. StreamTypeOK'
    BY <1>5 DEF PopRequest, StreamTypeOK
  <2> QED BY <2>thread, <2>api, <2>watch, <2>stream
<1>6. CASE EstablishedLoop
  <2>thread. ThreadTypeOK'
    BY <1>6 DEF EstablishedLoop, queueDiscoveryRequest, ThreadTypeOK
  <2>facts. visit <= Len(subscriptions_) => subscriptions_[visit] \in Types
    BY ElementOfSeq, LenProperties DEF ApiTypeOK, ThreadTypeOK
  <2>api. ApiTypeOK'
    BY <1>6, <2>facts, QueueType, LenProperties
       DEF EstablishedLoop, ApiTypeOK, ThreadTypeOK
  <2>watch. WatchTypeOK'
    BY <1>6 DEF EstablishedLoop, WatchTypeOK
  <2>stream. StreamTypeOK'
    BY <1>6 DEF EstablishedLoop, StreamTypeOK
  <2> QED BY <2>thread, <2>api, <2>watch, <2>stream
<1>7. CASE FinishUpdate
  <2>thread. ThreadTypeOK'
    BY <1>7 DEF FinishUpdate, queueDiscoveryRequest, updateResources,
       ThreadTypeOK
  <2>facts. update[1] \in Watchers /\ update[2] \in SUBSET Names
    BY <1>7 DEF FinishUpdate, ControlInv, ThreadTypeOK
  <2>api. ApiTypeOK'
    BY <1>7, <2>facts, QueueType DEF FinishUpdate, ApiTypeOK
  <2>watch. WatchTypeOK'
    BY <1>7, <2>facts DEF FinishUpdate, updateResources, WatchTypeOK
  <2>stream. StreamTypeOK'
    BY <1>7 DEF FinishUpdate, StreamTypeOK
  <2> QED BY <2>thread, <2>api, <2>watch, <2>stream
<1>8. CASE OnStreamEstablished
  <2>thread. ThreadTypeOK'
    BY <1>8 DEF OnStreamEstablished, clearNonce, ThreadTypeOK
  <2>facts. clearNonce \in [Types -> Requests]
    BY DEF clearNonce, ApiTypeOK, Requests
  <2>api. ApiTypeOK'
    <3>1. request_' \in [Types -> Requests] /\ first_stream_request_' \in BOOLEAN
      BY <1>8, <2>facts DEF OnStreamEstablished, ApiTypeOK
    <3>2. request_queue_' \in Seq(Types)
      BY <1>8, EmptySeq DEF OnStreamEstablished, ApiTypeOK
    <3> QED
      BY <1>8, <3>1, <3>2 DEF OnStreamEstablished, ApiTypeOK
  <2>watch. WatchTypeOK'
    BY <1>8 DEF OnStreamEstablished, WatchTypeOK
  <2>stream. StreamTypeOK'
    <3>1. inbox' \in Seq(Nat) /\ wire' \in Seq([url : Types, request : Requests])
      BY <1>8, EmptySeq DEF OnStreamEstablished
    <3>2. stream' \in {"none", "open", "ended"} /\ streams' \in Nat
      BY <1>8 DEF OnStreamEstablished, StreamTypeOK
    <3>3. writesDone' \in BOOLEAN /\ issued' = issued
      BY <1>8 DEF OnStreamEstablished
    <3> QED
      BY <3>1, <3>2, <3>3 DEF StreamTypeOK
  <2> QED BY <2>thread, <2>api, <2>watch, <2>stream
<1>9. ASSUME NEW w \in Watchers, NEW names \in SUBSET Names, AddWatch(w, names) PROVE TypeOK'
  <2>thread. ThreadTypeOK'
    BY <1>9 DEF AddWatch, queueDiscoveryRequest, updateResources, ThreadTypeOK
  <2> DEFINE url == WatchUrl[w]
  <2>facts. /\ url \in Types /\ Append(subscriptions_, url) \in Seq(Types)
        /\ [request_ EXCEPT ![url].type_url = TRUE] \in [Types -> Requests]
    <3>1. url \in Types /\ Append(subscriptions_, url) \in Seq(Types)
      BY AppendProperties DEF ApiTypeOK
    <3>2. [request_[url] EXCEPT !.type_url = TRUE] \in Requests
      BY <3>1 DEF ApiTypeOK, Requests
    <3> QED
      BY <3>1, <3>2 DEF ApiTypeOK
  <2>5. request_queue_' \in Seq(Types) /\ api_state_' \in SUBSET Types
    BY <1>9, <2>facts, QueueType DEF AddWatch, ApiTypeOK, apiStateFor
  <2>api. ApiTypeOK'
    BY <1>9, <2>facts, <2>5 DEF AddWatch, ApiTypeOK
  <2>watch. WatchTypeOK'
    BY <1>9 DEF AddWatch, queueDiscoveryRequest, updateResources, WatchTypeOK
  <2>stream. StreamTypeOK'
    BY <1>9 DEF AddWatch, StreamTypeOK
  <2> QED BY <2>thread, <2>api, <2>watch, <2>stream
<1>10. ASSUME NEW w \in Watchers, NEW names \in SUBSET Names, UpdateWatch(w, names) PROVE TypeOK'
  <2>thread. ThreadTypeOK'
    BY <1>10 DEF UpdateWatch, queueDiscoveryRequest, ThreadTypeOK
  <2>api. ApiTypeOK'
    BY <1>10, QueueType DEF UpdateWatch, ApiTypeOK
  <2>watch. WatchTypeOK'
    BY <1>10 DEF UpdateWatch, queueDiscoveryRequest, WatchTypeOK
  <2>stream. StreamTypeOK'
    BY <1>10 DEF UpdateWatch, StreamTypeOK
  <2> QED BY <2>thread, <2>api, <2>watch, <2>stream
<1>11. ASSUME NEW w \in Watchers, DestroyWatch(w) PROVE TypeOK'
  <2>thread. ThreadTypeOK'
    BY <1>11 DEF DestroyWatch, queueDiscoveryRequest, ThreadTypeOK
  <2>api. ApiTypeOK'
    BY <1>11, QueueType DEF DestroyWatch, ApiTypeOK
  <2>watch. WatchTypeOK'
    BY <1>11 DEF DestroyWatch, queueDiscoveryRequest, WatchTypeOK
  <2>stream. StreamTypeOK'
    BY <1>11 DEF DestroyWatch, StreamTypeOK
  <2> QED BY <2>thread, <2>api, <2>watch, <2>stream
<1>12. CASE Shutdown
  <2>thread. ThreadTypeOK'
    BY <1>12 DEF Shutdown, AfterWritesDone, ThreadTypeOK
  <2>api. ApiTypeOK'
    BY <1>12 DEF Shutdown, ApiTypeOK
  <2>watch. WatchTypeOK'
    BY <1>12 DEF Shutdown, WatchTypeOK
  <2>stream. StreamTypeOK'
    BY <1>12 DEF Shutdown, StreamTypeOK
  <2> QED BY <2>thread, <2>api, <2>watch, <2>stream
<1>13. CASE ShutdownStep
  <2>thread. ThreadTypeOK'
    BY <1>13 DEF ShutdownStep, ShutdownFinish, ShutdownSet, ThreadTypeOK
  <2>api. ApiTypeOK'
    BY <1>13 DEF ShutdownStep, ShutdownFinish, ShutdownSet, ApiTypeOK
  <2>watch. WatchTypeOK'
    BY <1>13 DEF ShutdownStep, ShutdownFinish, ShutdownSet, WatchTypeOK
  <2>stream. StreamTypeOK'
    BY <1>13 DEF ShutdownStep, ShutdownFinish, ShutdownSet, StreamTypeOK
  <2> QED BY <2>thread, <2>api, <2>watch, <2>stream
<1>14. ASSUME NEW url \in Types, NEW version \in Versions, NEW empty \in BOOLEAN,
             ServerPush(url, version, empty) PROVE TypeOK'
  <2>thread. ThreadTypeOK'
    BY <1>14 DEF ServerPush, ThreadTypeOK
  <2>api. ApiTypeOK'
    BY <1>14 DEF ServerPush, ApiTypeOK
  <2>watch. WatchTypeOK'
    BY <1>14 DEF ServerPush, WatchTypeOK
  <2>stream. StreamTypeOK'
    BY <1>14, AppendProperties, LenProperties
       DEF ServerPush, StreamTypeOK, Responses
  <2> QED BY <2>thread, <2>api, <2>watch, <2>stream
<1>15. CASE ServerEnd
  <2>thread. ThreadTypeOK'
    BY <1>15 DEF ServerEnd, ThreadTypeOK
  <2>api. ApiTypeOK'
    BY <1>15 DEF ServerEnd, ApiTypeOK
  <2>watch. WatchTypeOK'
    BY <1>15 DEF ServerEnd, WatchTypeOK
  <2>stream. StreamTypeOK'
    BY <1>15 DEF ServerEnd, StreamTypeOK
  <2> QED BY <2>thread, <2>api, <2>watch, <2>stream
<1>16. CASE UNCHANGED vars
  BY <1>16 DEF vars, ThreadTypeOK, ApiTypeOK, WatchTypeOK, StreamTypeOK
<1> QED
  BY <1>1, <1>2, <1>3, <1>4, <1>5, <1>6, <1>7, <1>8, <1>9, <1>10, <1>11,
     <1>12, <1>13, <1>14, <1>15, <1>16
     DEF Next, ClientStep, Application, Server, Terminated

-----------------------------------------------------------------------------
(* The parts of the inductive invariant, one lemma each.                   *)

(* Calls and returns keep the stack in order.                              *)
LEMMA ControlStep == CoreInv /\ [Next]_vars => ControlInv'
<1> SUFFICES ASSUME CoreInv, [Next]_vars PROVE ControlInv'
  OBVIOUS
<1> USE DEF CoreInv, TypeOK, ThreadTypeOK, ControlInv, threadVars, apiVars,
        watchVars, streamVars, shutdownVars
<1>1. CASE DrainRequests
  BY <1>1 DEF DrainRequests, SendUnlessShutdown
<1>2. CASE WriteRequest
  BY <1>2 DEF WriteRequest, Write
<1>3. CASE OnDiscoveryResponse
  BY <1>3 DEF OnDiscoveryResponse, queueDiscoveryRequest
<1>4. CASE ReadEnds
  BY <1>4 DEF ReadEnds
<1>5. CASE PopRequest
  BY <1>5 DEF PopRequest
<1>6. CASE EstablishedLoop
  BY <1>6 DEF EstablishedLoop, queueDiscoveryRequest
<1>7. CASE FinishUpdate
  BY <1>7 DEF FinishUpdate, queueDiscoveryRequest
<1>8. CASE OnStreamEstablished
  BY <1>8 DEF OnStreamEstablished, AppIdle
<1>9. ASSUME NEW w \in Watchers, NEW names \in SUBSET Names,
            AddWatch(w, names)
      PROVE  ControlInv'
  BY <1>9 DEF AddWatch, AppIdle, queueDiscoveryRequest
<1>10. ASSUME NEW w \in Watchers, NEW names \in SUBSET Names,
            UpdateWatch(w, names)
      PROVE  ControlInv'
  <2>1. <<w, names>> # NoUpdate
    BY DEF NoUpdate
  <2> QED
    BY <1>10, <2>1 DEF UpdateWatch, AppIdle, queueDiscoveryRequest
<1>11. ASSUME NEW w \in Watchers, DestroyWatch(w)
      PROVE  ControlInv'
  BY <1>11 DEF DestroyWatch, AppIdle, queueDiscoveryRequest
<1>12. CASE Shutdown
  BY <1>12 DEF Shutdown
<1>13. CASE ShutdownStep
  BY <1>13 DEF ShutdownStep, ShutdownFinish, ShutdownSet
<1>14. ASSUME NEW url \in Types, NEW version \in Versions, NEW empty \in BOOLEAN,
             ServerPush(url, version, empty)
      PROVE  ControlInv'
  BY <1>14 DEF ServerPush
<1>15. CASE ServerEnd
  BY <1>15 DEF ServerEnd
<1>16. CASE UNCHANGED vars
  BY <1>16 DEF vars
<1> QED
  BY <1>1, <1>2, <1>3, <1>4, <1>5, <1>6, <1>7, <1>8, <1>9,
     <1>10, <1>11, <1>12, <1>13, <1>14, <1>15, <1>16
     DEF Next, ClientStep, Application, Server, Terminated

(* An open stream only ever sees the first request of the loop.            *)
LEMMA OpenStep == CoreInv /\ [Next]_vars => OpenInv'
<1> SUFFICES ASSUME CoreInv, [Next]_vars PROVE OpenInv'
  OBVIOUS
<1> USE TypesAssumption DEF CoreInv, TypeOK, ThreadTypeOK, ControlInv, OpenInv,
        threadVars, apiVars, watchVars, streamVars, shutdownVars
<1>1. CASE DrainRequests
  BY <1>1 DEF DrainRequests, SendUnlessShutdown
<1>2. CASE WriteRequest
  <2>1. stream = "open" => FrontOfQueue = Cluster /\ request_queue_ # <<>>
    BY <1>2 DEF WriteRequest, FrontOfQueue
  <2>2. stream = "open" => subscribed_'[Cluster]
    BY <1>2, <2>1 DEF WriteRequest, Subscribes, ApiTypeOK
  <2> QED
    BY <1>2, <2>1, <2>2 DEF WriteRequest, FrontOfQueue
<1>3. CASE OnDiscoveryResponse
  <2>1. \A t \in Types : request_queue_ # <<>> =>
           /\ Append(request_queue_, t) # <<>>
           /\ Head(Append(request_queue_, t)) = Head(request_queue_)
    BY HeadTailAppend, AppendProperties DEF ApiTypeOK
  <2>2. issued[Head(inbox)].type_url \in Types
    BY <1>3, ResponseEffect
  <2> QED
    BY <1>3, <2>1, <2>2 DEF OnDiscoveryResponse, queueDiscoveryRequest
<1>4. CASE ReadEnds
  BY <1>4 DEF ReadEnds
<1>5. CASE PopRequest
  BY <1>5 DEF PopRequest
<1>6. CASE EstablishedLoop
  <2>1. /\ Append(request_queue_, Cluster) # <<>>
        /\ Head(Append(<<>>, Cluster)) = Cluster
    BY HeadTailAppend, AppendProperties DEF ApiTypeOK
  <2>2. request_queue_ = <<>>
    BY <1>6, EmptySeq, LenProperties
       DEF EstablishedLoop, QueueWithinCalls, ApiTypeOK
  <2>3. stream = "open" /\ ~shutdown_ => visit <= Len(subscriptions_) /\ subscriptions_[visit] = Cluster
    BY <1>6, LenProperties DEF EstablishedLoop, FirstIsCluster, ApiTypeOK
  <2>4. CASE stream = "open" /\ ~shutdown_
    <3>1. /\ pc' = "drain" /\ request_queue_' = Append(<<>>, Cluster)
          /\ shutdown_' = shutdown_
      BY <1>6, <2>2, <2>3, <2>4 DEF EstablishedLoop, queueDiscoveryRequest
    <3>2. /\ first_stream_request_' = first_stream_request_
          /\ first_stream_request_
      BY <1>6, <2>4 DEF EstablishedLoop
    <3> QED
      BY <2>1, <2>2, <2>4, <3>1, <3>2
  <2>5. CASE stream # "open" \/ shutdown_
    BY <1>6, <2>5 DEF EstablishedLoop, queueDiscoveryRequest
  <2> QED
    BY <2>4, <2>5
<1>7. CASE FinishUpdate
  BY <1>7 DEF FinishUpdate, queueDiscoveryRequest
<1>8. CASE OnStreamEstablished
  BY <1>8 DEF OnStreamEstablished, AppIdle
<1>9. ASSUME NEW w \in Watchers, NEW names \in SUBSET Names,
            AddWatch(w, names)
      PROVE  OpenInv'
  BY <1>9 DEF AddWatch, AppIdle, queueDiscoveryRequest
<1>10. ASSUME NEW w \in Watchers, NEW names \in SUBSET Names,
            UpdateWatch(w, names)
      PROVE  OpenInv'
  BY <1>10 DEF UpdateWatch, AppIdle, queueDiscoveryRequest
<1>11. ASSUME NEW w \in Watchers, DestroyWatch(w)
      PROVE  OpenInv'
  BY <1>11 DEF DestroyWatch, AppIdle, queueDiscoveryRequest
<1>12. CASE Shutdown
  BY <1>12 DEF Shutdown
<1>13. CASE ShutdownStep
  BY <1>13 DEF ShutdownStep, ShutdownFinish, ShutdownSet
<1>14. ASSUME NEW url \in Types, NEW version \in Versions, NEW empty \in BOOLEAN,
             ServerPush(url, version, empty)
      PROVE  OpenInv'
  BY <1>14 DEF ServerPush
<1>15. CASE ServerEnd
  BY <1>15 DEF ServerEnd
<1>16. CASE UNCHANGED vars
  BY <1>16 DEF vars
<1> QED
  BY <1>1, <1>2, <1>3, <1>4, <1>5, <1>6, <1>7, <1>8, <1>9,
     <1>10, <1>11, <1>12, <1>13, <1>14, <1>15, <1>16
     DEF Next, ClientStep, Application, Server, Terminated

(* Requests and activations are counted alike while the stream is open.    *)
LEMMA NestedStep == IndInv /\ [Next]_vars => NestedInv'
<1> SUFFICES ASSUME IndInv, [Next]_vars PROVE NestedInv'
  OBVIOUS
<1> USE DEF IndInv, CoreInv, TypeOK, ThreadTypeOK, ControlInv, NestedInv, Activations,
        threadVars, apiVars, watchVars, streamVars, shutdownVars
<1>0. Len(wire) \in Nat /\ (wire = <<>> <=> Len(wire) = 0)
  BY LenProperties, EmptySeq DEF StreamTypeOK
<1>1. CASE DrainRequests
  BY <1>0, <1>1 DEF DrainRequests, SendUnlessShutdown
<1>2. CASE WriteRequest
  <2>1. /\ UNCHANGED <<stream, writesDone, depth>>
        /\ pc = "write" /\ pc' = "read"
    BY <1>2 DEF WriteRequest
  <2>2. stream = "open" => depth >= Len(wire) + 1 /\ (~writesDone => depth = Len(wire) + 1)
    BY <2>1
  <2>3. stream = "open" => \/ wire' = wire /\ writesDone
                           \/ Len(wire') = Len(wire) + 1 /\ ~writesDone
    BY <1>2, WireEffect
  <2> QED
    BY <1>0, <2>1, <2>2, <2>3
<1>3. CASE OnDiscoveryResponse
  BY <1>0, <1>3 DEF OnDiscoveryResponse, queueDiscoveryRequest
<1>4. CASE ReadEnds
  BY <1>4 DEF ReadEnds
<1>5. CASE PopRequest
  BY <1>0, <1>5 DEF PopRequest
<1>6. CASE EstablishedLoop
  BY <1>0, <1>6 DEF EstablishedLoop, queueDiscoveryRequest
<1>7. CASE FinishUpdate
  BY <1>0, <1>7 DEF FinishUpdate, queueDiscoveryRequest
<1>8. CASE OnStreamEstablished
  BY <1>8 DEF OnStreamEstablished, AppIdle
<1>9. ASSUME NEW w \in Watchers, NEW names \in SUBSET Names, AddWatch(w, names)
      PROVE  NestedInv'
  BY <1>0, <1>9 DEF AddWatch, AppIdle, queueDiscoveryRequest
<1>10. ASSUME NEW w \in Watchers, NEW names \in SUBSET Names, UpdateWatch(w, names)
       PROVE  NestedInv'
  BY <1>0, <1>10 DEF UpdateWatch, AppIdle, queueDiscoveryRequest
<1>11. ASSUME NEW w \in Watchers, DestroyWatch(w)
       PROVE  NestedInv'
  BY <1>0, <1>11 DEF DestroyWatch, AppIdle, queueDiscoveryRequest
<1>12. CASE Shutdown
  BY <1>12 DEF Shutdown
<1>13. CASE ShutdownStep
  BY <1>13 DEF ShutdownStep, ShutdownFinish, ShutdownSet
<1>14. ASSUME NEW url \in Types, NEW version \in Versions, NEW empty \in BOOLEAN,
              ServerPush(url, version, empty)
       PROVE  NestedInv'
  BY <1>14 DEF ServerPush
<1>15. CASE ServerEnd
  BY <1>15 DEF ServerEnd
<1>16. CASE UNCHANGED vars
  BY <1>16 DEF vars
<1> QED
  BY <1>1, <1>2, <1>3, <1>4, <1>5, <1>6, <1>7, <1>8, <1>9,
     <1>10, <1>11, <1>12, <1>13, <1>14, <1>15, <1>16
     DEF Next, ClientStep, Application, Server, Terminated

(* Every response names a stream by its number.                            *)
LEMMA IssuedStreams ==
    TypeOK => \A n \in 1..Len(issued) : issued[n].stream \in Nat
<1> SUFFICES ASSUME TypeOK, NEW n \in 1..Len(issued)
             PROVE  issued[n].stream \in Nat
  OBVIOUS
<1>1. issued[n] \in Responses
  BY ElementOfSeq DEF TypeOK, StreamTypeOK
<1> QED
  BY <1>1 DEF Responses

(* The server sends on the stream there is.                                *)
LEMMA IssuedStep == CoreInv /\ [Next]_vars => IssuedInv'
<1> SUFFICES ASSUME CoreInv, [Next]_vars PROVE IssuedInv'
  OBVIOUS
<1> USE DEF CoreInv, IssuedInv
<1>0. /\ streams \in Nat /\ Len(issued) \in Nat
      /\ \A n \in 1..Len(issued) : issued[n].stream \in Nat
  BY LenProperties, IssuedStreams DEF TypeOK, StreamTypeOK
<1>1. CASE OnStreamEstablished
  BY <1>0, <1>1 DEF OnStreamEstablished
<1>2. ASSUME NEW url \in Types, NEW version \in Versions, NEW empty \in BOOLEAN,
             ServerPush(url, version, empty)
      PROVE  IssuedInv'
  <2>1. streams' = streams
    BY <1>2 DEF ServerPush
  <2> QED
    BY <1>0, <1>2, <2>1, PushEffect
<1>3. \/ UNCHANGED <<streams, issued>> \/ OnStreamEstablished
      \/ \E url \in Types, version \in Versions, empty \in BOOLEAN :
            ServerPush(url, version, empty)
  BY DEF Next, ClientStep, Application, Server, Terminated, DrainRequests,
         WriteRequest, OnDiscoveryResponse, ReadEnds, PopRequest, EstablishedLoop,
         FinishUpdate, AddWatch, UpdateWatch, DestroyWatch, Shutdown,
         ShutdownStep, ShutdownFinish, ShutdownSet, ServerEnd, threadVars,
         apiVars, watchVars, streamVars,
         shutdownVars, vars
<1> QED
  BY <1>1, <1>2, <1>3

(* Nesting, and an empty queue below it, come from a response.             *)
LEMMA NestStep == IndInv /\ [Next]_vars => NestInv'
<1> SUFFICES ASSUME IndInv, [Next]_vars PROVE NestInv'
  OBVIOUS
<1> USE DEF IndInv, CoreInv, TypeOK, ThreadTypeOK, ControlInv, OpenInv, NestInv,
        threadVars, apiVars, watchVars, streamVars, shutdownVars
<1>1. CASE DrainRequests
  BY <1>1 DEF DrainRequests, SendUnlessShutdown
<1>2. CASE WriteRequest
  <2>1. FrontOfQueue \in Types /\ request_queue_ # <<>>
    BY <1>2, FrontType DEF WriteRequest
  <2>2. \A t \in Types : request_'[t].response_nonce = request_[t].response_nonce
    BY <1>2, <2>1, BuildFields DEF WriteRequest, ApiTypeOK
  <2> QED
    BY <1>2, <2>1, <2>2 DEF WriteRequest
<1>3. CASE OnDiscoveryResponse
  <2> DEFINE message == issued[Head(inbox)]
  <2>1. /\ Head(inbox) \in 1..Len(issued) /\ Head(inbox) \in Nat
        /\ message \in Responses /\ message.type_url \in Types
    BY <1>3, HeadOfInbox DEF OnDiscoveryResponse, Responses
  <2>2. CASE message.type_url \notin api_state_
    BY <1>3, <2>2 DEF OnDiscoveryResponse
  <2>3. CASE message.type_url \in api_state_
    <3>1. request_'[message.type_url].response_nonce = Head(inbox)
      BY <1>3, <2>1, <2>3, RecordFields DEF OnDiscoveryResponse, ApiTypeOK
    <3>2. Head(inbox) # 0
      BY <2>1, LenProperties DEF StreamTypeOK
    <3> QED
      BY <2>1, <3>1, <3>2
  <2> QED
    BY <2>2, <2>3
<1>4. CASE ReadEnds
  BY <1>4 DEF ReadEnds
<1>5. CASE PopRequest
  BY <1>5 DEF PopRequest
<1>6. CASE EstablishedLoop
  BY <1>6 DEF EstablishedLoop, queueDiscoveryRequest
<1>7. CASE FinishUpdate
  BY <1>7 DEF FinishUpdate, queueDiscoveryRequest
<1>8. CASE OnStreamEstablished
  BY <1>8 DEF OnStreamEstablished, AppIdle
<1>9. ASSUME NEW w \in Watchers, NEW names \in SUBSET Names,
            AddWatch(w, names)
      PROVE  NestInv'
  BY <1>9 DEF AddWatch, AppIdle, queueDiscoveryRequest
<1>10. ASSUME NEW w \in Watchers, NEW names \in SUBSET Names,
            UpdateWatch(w, names)
      PROVE  NestInv'
  BY <1>10 DEF UpdateWatch, AppIdle, queueDiscoveryRequest
<1>11. ASSUME NEW w \in Watchers, DestroyWatch(w)
      PROVE  NestInv'
  BY <1>11 DEF DestroyWatch, AppIdle, queueDiscoveryRequest
<1>12. CASE Shutdown
  BY <1>12 DEF Shutdown
<1>13. CASE ShutdownStep
  BY <1>13 DEF ShutdownStep, ShutdownFinish, ShutdownSet
<1>14. ASSUME NEW url \in Types, NEW version \in Versions, NEW empty \in BOOLEAN,
             ServerPush(url, version, empty)
      PROVE  NestInv'
  BY <1>14 DEF ServerPush
<1>15. CASE ServerEnd
  BY <1>15 DEF ServerEnd
<1>16. CASE UNCHANGED vars
  BY <1>16 DEF vars
<1> QED
  BY <1>1, <1>2, <1>3, <1>4, <1>5, <1>6, <1>7, <1>8, <1>9,
     <1>10, <1>11, <1>12, <1>13, <1>14, <1>15, <1>16
     DEF Next, ClientStep, Application, Server, Terminated

(* subscribed_ and the type URL are set together.                          *)
LEMMA TypedStep == IndInv /\ [Next]_vars => TypedInv'
<1> SUFFICES ASSUME IndInv, [Next]_vars PROVE TypedInv'
  OBVIOUS
<1> USE WatchUrlAssumption DEF IndInv, CoreInv, TypeOK, ApiTypeOK, TypedInv,
        threadVars, apiVars, watchVars, streamVars, shutdownVars
<1>1. CASE DrainRequests
  BY <1>1 DEF DrainRequests, SendUnlessShutdown
<1>2. CASE WriteRequest
  <2>1. FrontOfQueue \in Types
    BY <1>2, FrontType DEF WriteRequest
  <2> QED
    BY <1>2, <2>1, BuildFields DEF WriteRequest
<1>3. CASE OnDiscoveryResponse
  <2> DEFINE message == issued[Head(inbox)]
  <2>1. subscribed_' = subscribed_
    BY <1>3 DEF OnDiscoveryResponse
  <2>2. \A t \in Types : request_'[t].type_url = request_[t].type_url
    BY <1>3, ResponseEffect
  <2> QED
    BY <2>1, <2>2
<1>4. CASE ReadEnds
  BY <1>4 DEF ReadEnds
<1>5. CASE PopRequest
  BY <1>5 DEF PopRequest
<1>6. CASE EstablishedLoop
  BY <1>6 DEF EstablishedLoop, queueDiscoveryRequest
<1>7. CASE FinishUpdate
  BY <1>7 DEF FinishUpdate, queueDiscoveryRequest
<1>8. CASE OnStreamEstablished
  <2>1. \A t \in Types : clearNonce[t].type_url = request_[t].type_url
    BY DEF clearNonce, Requests
  <2> QED
    BY <1>8, <2>1 DEF OnStreamEstablished
<1>9. ASSUME NEW w \in Watchers, NEW names \in SUBSET Names,
            AddWatch(w, names)
      PROVE  TypedInv'
  <2> DEFINE url == WatchUrl[w]
  <2>1. subscribed_[url] => request_'= request_ /\ \A t \in Types : subscribed_'[t] = subscribed_[t]
    BY <1>9 DEF AddWatch
  <2>2. ~subscribed_[url] => /\ request_'[url].type_url
                             /\ \A t \in Types \ {url} : /\ request_'[t] = request_[t]
                                                          /\ subscribed_'[t] = subscribed_[t]
    BY <1>9 DEF AddWatch, Requests
  <2> QED
    BY <2>1, <2>2
<1>10. ASSUME NEW w \in Watchers, NEW names \in SUBSET Names,
            UpdateWatch(w, names)
      PROVE  TypedInv'
  BY <1>10 DEF UpdateWatch, AppIdle, queueDiscoveryRequest
<1>11. ASSUME NEW w \in Watchers, DestroyWatch(w)
      PROVE  TypedInv'
  BY <1>11 DEF DestroyWatch, AppIdle, queueDiscoveryRequest
<1>12. CASE Shutdown
  BY <1>12 DEF Shutdown
<1>13. CASE ShutdownStep
  BY <1>13 DEF ShutdownStep, ShutdownFinish, ShutdownSet
<1>14. ASSUME NEW url \in Types, NEW version \in Versions, NEW empty \in BOOLEAN,
             ServerPush(url, version, empty)
      PROVE  TypedInv'
  BY <1>14 DEF ServerPush
<1>15. CASE ServerEnd
  BY <1>15 DEF ServerEnd
<1>16. CASE UNCHANGED vars
  BY <1>16 DEF vars
<1> QED
  BY <1>1, <1>2, <1>3, <1>4, <1>5, <1>6, <1>7, <1>8, <1>9,
     <1>10, <1>11, <1>12, <1>13, <1>14, <1>15, <1>16
     DEF Next, ClientStep, Application, Server, Terminated

(* Responses are read in the order the server sent them.                   *)
LEMMA InboxStep == CoreInv /\ [Next]_vars => InboxInv'
<1> SUFFICES ASSUME CoreInv, [Next]_vars PROVE InboxInv'
  OBVIOUS
<1> USE DEF CoreInv, TypeOK, StreamTypeOK, InboxInv, threadVars, apiVars,
        watchVars, streamVars, shutdownVars
<1>1. CASE DrainRequests
  BY <1>1 DEF DrainRequests, SendUnlessShutdown
<1>2. CASE WriteRequest
  <2>1. FrontOfQueue \in Types
    BY <1>2, FrontType DEF WriteRequest
  <2>2. \A t \in Types : request_'[t].response_nonce = request_[t].response_nonce
    BY <1>2, <2>1, BuildFields DEF WriteRequest, ApiTypeOK
  <2> QED
    BY <1>2, <2>2 DEF WriteRequest
<1>3. CASE OnDiscoveryResponse
  <2> DEFINE message == issued[Head(inbox)]
  <2>1. /\ message \in Responses /\ message.type_url \in Types
        /\ Head(inbox) \in Nat /\ Head(inbox) = inbox[1]
        /\ Len(inbox) \in Nat /\ Len(inbox) > 0 /\ Len(inbox') = Len(inbox) - 1
        /\ \A i \in 1..Len(inbox') : inbox'[i] = inbox[i + 1]
    BY <1>3, HeadOfInbox, LenProperties DEF OnDiscoveryResponse, Responses
  <2>2. \A t \in Types : \/ request_'[t].response_nonce = request_[t].response_nonce
                         \/ request_'[t].response_nonce = inbox[1]
    BY <1>3, <2>1, ResponseEffect
  <2>3. UNCHANGED <<issued, streams, stream>> /\ (stream = "none" => FALSE)
    BY <1>3, <2>1 DEF OnDiscoveryResponse
  <2>4. \A i \in 1..Len(inbox') : i + 1 \in 1..Len(inbox) /\ 1 < i + 1
    BY <2>1
  <2>5. \A i \in 1..Len(inbox') : inbox[1] < inbox'[i]
    <3> TAKE i \in 1..Len(inbox')
    <3>1. 1 \in 1..Len(inbox) /\ i + 1 \in 1..Len(inbox) /\ 1 < i + 1
      BY <2>1, <2>4
    <3>2. inbox[1] < inbox[i + 1]
      BY <3>1
    <3> QED
      BY <2>1, <3>2
  <2>6. \A i \in 1..Len(inbox'), t \in Types : request_'[t].response_nonce < inbox'[i]
    BY <2>1, <2>2, <2>4, <2>5
  <2>7. \A i, j \in 1..Len(inbox') : i < j => inbox'[i] < inbox'[j]
    <3> TAKE i, j \in 1..Len(inbox')
    <3>1. i < j => inbox[i + 1] < inbox[j + 1]
      BY <2>1, <2>4
    <3> QED
      BY <2>1, <3>1
  <2> QED
    BY <2>1, <2>3, <2>4, <2>6, <2>7
<1>4. CASE ReadEnds
  BY <1>4 DEF ReadEnds
<1>5. CASE PopRequest
  BY <1>5 DEF PopRequest
<1>6. CASE EstablishedLoop
  BY <1>6 DEF EstablishedLoop, queueDiscoveryRequest
<1>7. CASE FinishUpdate
  BY <1>7 DEF FinishUpdate, queueDiscoveryRequest
<1>8. CASE OnStreamEstablished
  <2>1. inbox' = <<>> /\ Len(inbox') = 0
    BY <1>8 DEF OnStreamEstablished
  <2> QED
    BY <2>1
<1>9. ASSUME NEW w \in Watchers, NEW names \in SUBSET Names,
            AddWatch(w, names)
      PROVE  InboxInv'
  <2>1. \A t \in Types : request_'[t].response_nonce = request_[t].response_nonce
    BY <1>9 DEF AddWatch, ApiTypeOK, Requests
  <2> QED
    BY <1>9, <2>1 DEF AddWatch
<1>10. ASSUME NEW w \in Watchers, NEW names \in SUBSET Names,
            UpdateWatch(w, names)
      PROVE  InboxInv'
  BY <1>10 DEF UpdateWatch, AppIdle, queueDiscoveryRequest
<1>11. ASSUME NEW w \in Watchers, DestroyWatch(w)
      PROVE  InboxInv'
  BY <1>11 DEF DestroyWatch, AppIdle, queueDiscoveryRequest
<1>12. CASE Shutdown
  BY <1>12 DEF Shutdown
<1>13. CASE ShutdownStep
  BY <1>13 DEF ShutdownStep, ShutdownFinish, ShutdownSet
<1>14. ASSUME NEW url \in Types, NEW version \in Versions, NEW empty \in BOOLEAN,
             ServerPush(url, version, empty)
      PROVE  InboxInv'
  <2>1. /\ Len(inbox) \in Nat /\ Len(inbox') = Len(inbox) + 1
        /\ \A i \in 1..Len(inbox) : inbox'[i] = inbox[i]
        /\ inbox'[Len(inbox) + 1] = Len(issued) + 1
    BY <1>14, AppendProperties, LenProperties DEF ServerPush
  <2>2. \A t \in Types : request_[t].response_nonce < Len(issued) + 1
    <3> TAKE t \in Types
    <3>1. request_[t].response_nonce = 0 \/ request_[t].response_nonce \in 1..Len(issued)
      BY DEF NonceInv
    <3> QED
      BY <3>1, <1>14, PushEffect
  <2> QED
    BY <1>14, <2>1, <2>2, PushEffect DEF ServerPush
<1>15. CASE ServerEnd
  <2>1. PICK k \in 0..Len(inbox) : inbox' = SubSeq(inbox, 1, k)
    BY <1>15 DEF ServerEnd
  <2>2. /\ Len(inbox) \in Nat /\ Len(inbox') = k
        /\ \A i \in 1..k : inbox'[i] = inbox[i] /\ i \in 1..Len(inbox)
    BY <2>1, SubSeqProperties, LenProperties
  <2> QED
    BY <1>15, <2>2 DEF ServerEnd
<1>16. CASE UNCHANGED vars
  BY <1>16 DEF vars
<1> QED
  BY <1>1, <1>2, <1>3, <1>4, <1>5, <1>6, <1>7, <1>8, <1>9,
     <1>10, <1>11, <1>12, <1>13, <1>14, <1>15, <1>16
     DEF Next, ClientStep, Application, Server, Terminated

(* Nonces are recorded for their own type and forgotten on a new stream.   *)
LEMMA NonceStep == CoreInv /\ [Next]_vars => NonceInv'
<1> SUFFICES ASSUME CoreInv, [Next]_vars PROVE NonceInv'
  OBVIOUS
<1> USE WatchUrlAssumption DEF CoreInv, TypeOK, NonceInv, threadVars, apiVars,
        watchVars, streamVars, shutdownVars
<1>1. CASE DrainRequests
  BY <1>1 DEF DrainRequests, SendUnlessShutdown
<1>2. CASE WriteRequest
  <2>1. \A t \in Types : request_'[t].response_nonce = request_[t].response_nonce
    BY <1>2, WriteEffect
  <2> QED
    BY <1>2, <2>1 DEF WriteRequest
<1>3. CASE OnDiscoveryResponse
  <2> DEFINE nonce == Head(inbox)
             url == issued[nonce].type_url
  <2>1. /\ UNCHANGED <<issued, streams, stream>>
        /\ url \in api_state_ => api_state_ \subseteq api_state_'
        /\ url \notin api_state_ => api_state_' = api_state_
    BY <1>3 DEF OnDiscoveryResponse, queueDiscoveryRequest, apiStateFor
  <2>2. nonce \in 1..Len(issued) /\ issued[nonce].stream = streams
    BY <1>3, HeadOfInbox DEF OnDiscoveryResponse, InboxInv
  <2> QED
    BY <1>3, <2>1, <2>2, ResponseEffect
<1>4. CASE ReadEnds
  BY <1>4 DEF ReadEnds
<1>5. CASE PopRequest
  BY <1>5 DEF PopRequest
<1>6. CASE EstablishedLoop
  BY <1>6 DEF EstablishedLoop, queueDiscoveryRequest, apiStateFor
<1>7. CASE FinishUpdate
  BY <1>7 DEF FinishUpdate, queueDiscoveryRequest, apiStateFor
<1>8. CASE OnStreamEstablished
  <2>1. \A t \in Types : clearNonce[t].response_nonce = 0
    BY DEF clearNonce, ApiTypeOK, Requests
  <2> QED
    BY <1>8, <2>1 DEF OnStreamEstablished
<1>9. ASSUME NEW w \in Watchers, NEW names \in SUBSET Names,
            AddWatch(w, names)
      PROVE  NonceInv'
  <2>1. \A t \in Types : /\ request_'[t].response_nonce = request_[t].response_nonce
                         /\ request_'[t].version_info = request_[t].version_info
    BY <1>9 DEF AddWatch, ApiTypeOK, Requests
  <2> QED
    BY <1>9, <2>1 DEF AddWatch, queueDiscoveryRequest, apiStateFor
<1>10. ASSUME NEW w \in Watchers, NEW names \in SUBSET Names,
            UpdateWatch(w, names)
      PROVE  NonceInv'
  BY <1>10 DEF UpdateWatch, AppIdle, queueDiscoveryRequest, apiStateFor
<1>11. ASSUME NEW w \in Watchers, DestroyWatch(w)
      PROVE  NonceInv'
  BY <1>11 DEF DestroyWatch, AppIdle, queueDiscoveryRequest, apiStateFor
<1>12. CASE Shutdown
  BY <1>12 DEF Shutdown
<1>13. CASE ShutdownStep
  BY <1>13 DEF ShutdownStep, ShutdownFinish, ShutdownSet
<1>14. ASSUME NEW url \in Types, NEW version \in Versions, NEW empty \in BOOLEAN,
             ServerPush(url, version, empty)
      PROVE  NonceInv'
  <2>1. UNCHANGED <<request_, api_state_, streams, stream>>
    BY <1>14 DEF ServerPush
  <2> QED
    BY <1>14, <2>1, PushEffect
<1>15. CASE ServerEnd
  BY <1>15 DEF ServerEnd
<1>16. CASE UNCHANGED vars
  BY <1>16 DEF vars
<1> QED
  BY <1>1, <1>2, <1>3, <1>4, <1>5, <1>6, <1>7, <1>8, <1>9,
     <1>10, <1>11, <1>12, <1>13, <1>14, <1>15, <1>16
     DEF Next, ClientStep, Application, Server, Terminated

(* The nonce of the Cluster requests only grows on a stream.               *)
LEMMA WireNonceStep == IndInv /\ [Next]_vars => WireNonceInv'
<1> SUFFICES ASSUME IndInv, [Next]_vars PROVE WireNonceInv'
  OBVIOUS
<1> USE TypesAssumption DEF IndInv, CoreInv, TypeOK, WireNonceInv, threadVars, apiVars,
        watchVars, streamVars, shutdownVars
<1>1. CASE DrainRequests
  BY <1>1 DEF DrainRequests, SendUnlessShutdown
<1>2. CASE WriteRequest
  <2>1. request_'[Cluster].response_nonce = request_[Cluster].response_nonce
    BY <1>2, WriteEffect
  <2>2. request_[Cluster].response_nonce \in Nat
    BY DEF ApiTypeOK, Requests
  <2> QED
    BY <1>2, <2>1, <2>2, WireEffect
<1>3. CASE OnDiscoveryResponse
  <2>1. wire' = wire
    BY <1>3 DEF OnDiscoveryResponse
  <2>2. request_[Cluster].response_nonce <= request_'[Cluster].response_nonce
    <3>1. request_[Cluster].response_nonce < Head(inbox) /\ Head(inbox) \in Nat
      BY <1>3, HeadOfInbox, LenProperties
         DEF OnDiscoveryResponse, InboxInv, StreamTypeOK
    <3>2. request_[Cluster].response_nonce \in Nat
      BY DEF ApiTypeOK, Requests
    <3> QED
      BY <1>3, <3>1, <3>2, ResponseEffect
  <2>3. \A i \in 1..Len(wire) : wire[i].request.response_nonce \in Nat
    BY WireElement
  <2>4. request_[Cluster].response_nonce \in Nat /\ request_'[Cluster].response_nonce \in Nat
    BY <1>3, ResponseEffect DEF ApiTypeOK, Requests
  <2> QED
    BY <2>4, <2>3, <2>1, <2>2
<1>4. CASE ReadEnds
  BY <1>4 DEF ReadEnds
<1>5. CASE PopRequest
  BY <1>5 DEF PopRequest
<1>6. CASE EstablishedLoop
  BY <1>6 DEF EstablishedLoop, queueDiscoveryRequest
<1>7. CASE FinishUpdate
  BY <1>7 DEF FinishUpdate, queueDiscoveryRequest
<1>8. CASE OnStreamEstablished
  <2>1. Len(wire') = 0
    BY <1>8 DEF OnStreamEstablished
  <2> QED
    BY <2>1
<1>9. ASSUME NEW w \in Watchers, NEW names \in SUBSET Names,
            AddWatch(w, names)
      PROVE  WireNonceInv'
  <2>1. \A t \in Types : /\ request_'[t].response_nonce = request_[t].response_nonce
                         /\ request_'[t].version_info = request_[t].version_info
    BY <1>9 DEF AddWatch, ApiTypeOK, Requests
  <2> QED
    BY <1>9, <2>1 DEF AddWatch
<1>10. ASSUME NEW w \in Watchers, NEW names \in SUBSET Names,
            UpdateWatch(w, names)
      PROVE  WireNonceInv'
  BY <1>10 DEF UpdateWatch, AppIdle, queueDiscoveryRequest
<1>11. ASSUME NEW w \in Watchers, DestroyWatch(w)
      PROVE  WireNonceInv'
  BY <1>11 DEF DestroyWatch, AppIdle, queueDiscoveryRequest
<1>12. CASE Shutdown
  BY <1>12 DEF Shutdown
<1>13. CASE ShutdownStep
  BY <1>13 DEF ShutdownStep, ShutdownFinish, ShutdownSet
<1>14. ASSUME NEW url \in Types, NEW version \in Versions, NEW empty \in BOOLEAN,
             ServerPush(url, version, empty)
      PROVE  WireNonceInv'
  BY <1>14 DEF ServerPush
<1>15. CASE ServerEnd
  BY <1>15 DEF ServerEnd
<1>16. CASE UNCHANGED vars
  BY <1>16 DEF vars
<1> QED
  BY <1>1, <1>2, <1>3, <1>4, <1>5, <1>6, <1>7, <1>8, <1>9,
     <1>10, <1>11, <1>12, <1>13, <1>14, <1>15, <1>16
     DEF Next, ClientStep, Application, Server, Terminated

(* Only empty responses leave a version.                                   *)
LEMMA VersionStep == IndInv /\ [Next]_vars => VersionInv'
<1> SUFFICES ASSUME IndInv, [Next]_vars PROVE VersionInv'
  OBVIOUS
<1> USE WatchUrlAssumption DEF IndInv, CoreInv, TypeOK, VersionInv, threadVars,
        apiVars, watchVars, streamVars, shutdownVars
<1>1. CASE DrainRequests
  BY <1>1 DEF DrainRequests, SendUnlessShutdown
<1>2. CASE WriteRequest
  <2>1. \A t \in Types : /\ request_'[t].version_info = request_[t].version_info
                         /\ request_'[t].response_nonce = request_[t].response_nonce
    BY <1>2, WriteEffect
  <2> QED
    BY <1>2, <2>1 DEF WriteRequest
<1>3. CASE OnDiscoveryResponse
  <2>1. UNCHANGED <<issued, streams>> /\ Head(inbox) \in 1..Len(issued)
    BY <1>3, HeadOfInbox DEF OnDiscoveryResponse
  <2>2. \A t \in Types : /\ request_[t].response_nonce \in Nat
                         /\ request_[t].response_nonce < Head(inbox)
    BY <1>3, HeadOfInbox DEF OnDiscoveryResponse, InboxInv, ApiTypeOK, Requests
  <2> DEFINE message == issued[Head(inbox)]
             url == message.type_url
  <2>3. ASSUME NEW t \in Types, request_'[t].version_info # NoVersion
        PROVE  \E n \in 1..Len(issued) :
                  /\ issued[n].empty /\ issued[n].type_url = t
                  /\ issued[n].version_info = request_'[t].version_info
                  /\ issued[n].stream < streams \/ n <= request_'[t].response_nonce
    <3>1. CASE t = url /\ url \in api_state_ /\ Accepts(message)
      BY <1>3, <2>1, <3>1, ResponseEffect DEF Accepts
    <3>2. CASE ~(t = url /\ url \in api_state_ /\ Accepts(message))
      <4>1. /\ request_'[t].version_info = request_[t].version_info
            /\ request_'[t].response_nonce \in {request_[t].response_nonce, Head(inbox)}
        BY <1>3, <3>2, ResponseEffect
      <4> QED
        BY <4>1, <2>3, <2>1, <2>2
    <3> QED
      BY <3>1, <3>2
  <2> QED
    BY <2>1, <2>3
<1>4. CASE ReadEnds
  BY <1>4 DEF ReadEnds
<1>5. CASE PopRequest
  BY <1>5 DEF PopRequest
<1>6. CASE EstablishedLoop
  BY <1>6 DEF EstablishedLoop, queueDiscoveryRequest
<1>7. CASE FinishUpdate
  BY <1>7 DEF FinishUpdate, queueDiscoveryRequest
<1>8. CASE OnStreamEstablished
  <2>0. \A t \in Types : clearNonce[t].version_info = request_[t].version_info
    BY DEF clearNonce, ApiTypeOK, Requests
  <2>1. \A t \in Types : request_'[t].version_info = request_[t].version_info
    BY <1>8, <2>0 DEF OnStreamEstablished
  <2>2. issued' = issued /\ streams' = streams + 1
    BY <1>8 DEF OnStreamEstablished
  <2>3. \A n \in 1..Len(issued) : issued[n].stream < streams + 1
    BY IssuedStreams DEF IssuedInv, StreamTypeOK
  <2> QED
    BY <2>3, <2>1, <2>2
<1>9. ASSUME NEW w \in Watchers, NEW names \in SUBSET Names,
            AddWatch(w, names)
      PROVE  VersionInv'
  <2>1. \A t \in Types : /\ request_'[t].response_nonce = request_[t].response_nonce
                         /\ request_'[t].version_info = request_[t].version_info
    BY <1>9 DEF AddWatch, ApiTypeOK, Requests
  <2> QED
    BY <1>9, <2>1 DEF AddWatch
<1>10. ASSUME NEW w \in Watchers, NEW names \in SUBSET Names,
            UpdateWatch(w, names)
      PROVE  VersionInv'
  BY <1>10 DEF UpdateWatch, AppIdle, queueDiscoveryRequest
<1>11. ASSUME NEW w \in Watchers, DestroyWatch(w)
      PROVE  VersionInv'
  BY <1>11 DEF DestroyWatch, AppIdle, queueDiscoveryRequest
<1>12. CASE Shutdown
  BY <1>12 DEF Shutdown
<1>13. CASE ShutdownStep
  BY <1>13 DEF ShutdownStep, ShutdownFinish, ShutdownSet
<1>14. ASSUME NEW url \in Types, NEW version \in Versions, NEW empty \in BOOLEAN,
             ServerPush(url, version, empty)
      PROVE  VersionInv'
  <2>1. UNCHANGED <<request_, streams>>
    BY <1>14 DEF ServerPush
  <2>2. \A n \in 1..Len(issued) : n \in 1..Len(issued') /\ issued'[n] = issued[n]
    BY <1>14, PushEffect
  <2> QED
    BY <2>1, <2>2
<1>15. CASE ServerEnd
  BY <1>15 DEF ServerEnd
<1>16. CASE UNCHANGED vars
  BY <1>16 DEF vars
<1> QED
  BY <1>1, <1>2, <1>3, <1>4, <1>5, <1>6, <1>7, <1>8, <1>9,
     <1>10, <1>11, <1>12, <1>13, <1>14, <1>15, <1>16
     DEF Next, ClientStep, Application, Server, Terminated

(* In the Read loop the last Cluster response with resources is answered.  *)
LEMMA AnswerStep == IndInv /\ [Next]_vars => AnswerInv'
<1> SUFFICES ASSUME IndInv, [Next]_vars PROVE AnswerInv'
  OBVIOUS
<1> USE TypesAssumption DEF IndInv, CoreInv, TypeOK, AnswerInv, threadVars, apiVars,
        watchVars, streamVars, shutdownVars
<1>1. CASE DrainRequests
  <2>1. stream = "open" /\ ~shutdown_ => pc' # "read"
    BY <1>1 DEF DrainRequests, SendUnlessShutdown, OpenInv, ThreadTypeOK,
       ControlInv
  <2>2. UNCHANGED <<stream, shutdown_>>
    BY <1>1 DEF DrainRequests
  <2> QED
    BY <2>1, <2>2
<1>2. CASE WriteRequest
  <2>1. UNCHANGED <<issued, stream, writesDone>>
    BY <1>2 DEF WriteRequest
  <2>2. stream = "open" /\ ~writesDone
          => \E i \in 1..Len(wire') : wire'[i].request = request_'[Cluster]
    BY <1>2, WireEffect
  <2> QED
    BY <2>1, <2>2
<1>3. CASE OnDiscoveryResponse
  <2> DEFINE message == issued[Head(inbox)]
  <2>1. UNCHANGED <<issued, stream, writesDone, shutdown_, wire>> /\ pc = "read"
    BY <1>3 DEF OnDiscoveryResponse
  <2>2. CASE request_'[Cluster] = request_[Cluster]
    BY <2>1, <2>2
  <2>3. CASE request_'[Cluster] # request_[Cluster]
    <3>1. message.type_url \in api_state_ /\ message.type_url = Cluster
      BY <1>3, <2>3, ResponseEffect
    <3>2. request_'[Cluster].response_nonce = Head(inbox)
      BY <1>3, <3>1, ResponseEffect
    <3>3. Accepts(message) \/ pc' # "read"
      BY <1>3, <3>1 DEF OnDiscoveryResponse, queueDiscoveryRequest, ControlInv
    <3> QED
      BY <2>1, <3>2, <3>3 DEF Accepts
  <2> QED
    BY <2>2, <2>3
<1>4. CASE ReadEnds
  BY <1>4 DEF ReadEnds
<1>5. CASE PopRequest
  BY <1>5 DEF PopRequest
<1>6. CASE EstablishedLoop
  BY <1>6 DEF EstablishedLoop, queueDiscoveryRequest, ControlInv
<1>7. CASE FinishUpdate
  BY <1>7 DEF FinishUpdate, queueDiscoveryRequest
<1>8. CASE OnStreamEstablished
  <2>1. pc' # "read"
    BY <1>8 DEF OnStreamEstablished, AppIdle
  <2> QED
    BY <2>1
<1>9. ASSUME NEW w \in Watchers, NEW names \in SUBSET Names,
            AddWatch(w, names)
      PROVE  AnswerInv'
  <2>1. pc' # "read"
    BY <1>9 DEF AddWatch, AppIdle, queueDiscoveryRequest
  <2> QED
    BY <2>1
<1>10. ASSUME NEW w \in Watchers, NEW names \in SUBSET Names,
            UpdateWatch(w, names)
      PROVE  AnswerInv'
  BY <1>10 DEF UpdateWatch, AppIdle, queueDiscoveryRequest
<1>11. ASSUME NEW w \in Watchers, DestroyWatch(w)
      PROVE  AnswerInv'
  BY <1>11 DEF DestroyWatch, AppIdle, queueDiscoveryRequest
<1>12. CASE Shutdown
  BY <1>12 DEF Shutdown
<1>13. CASE ShutdownStep
  BY <1>13 DEF ShutdownStep, ShutdownFinish, ShutdownSet
<1>14. ASSUME NEW url \in Types, NEW version \in Versions, NEW empty \in BOOLEAN,
             ServerPush(url, version, empty)
      PROVE  AnswerInv'
  <2>1. UNCHANGED <<request_, stream, writesDone, shutdown_, pc, wire>>
    BY <1>14 DEF ServerPush
  <2>2. LET nonce == request_[Cluster].response_nonce
        IN  nonce # 0 => issued'[nonce] = issued[nonce]
    BY <1>14, PushEffect DEF NonceInv
  <2> QED
    BY <2>1, <2>2
<1>15. CASE ServerEnd
  BY <1>15 DEF ServerEnd
<1>16. CASE UNCHANGED vars
  BY <1>16 DEF vars
<1> QED
  BY <1>1, <1>2, <1>3, <1>4, <1>5, <1>6, <1>7, <1>8, <1>9,
     <1>10, <1>11, <1>12, <1>13, <1>14, <1>15, <1>16
     DEF Next, ClientStep, Application, Server, Terminated

(* Only a stream with a response underflows the queue when it ends.        *)
LEMMA UndefinedStep == IndInv /\ [Next]_vars => UndefinedOnlyAfterResponse'
<1> SUFFICES ASSUME IndInv, [Next]_vars PROVE UndefinedOnlyAfterResponse'
  OBVIOUS
<1> USE DEF IndInv, CoreInv, UndefinedOnlyAfterResponse, Running, AppIdle, threadVars,
        apiVars, watchVars, streamVars, shutdownVars
<1>1. CASE DrainRequests
  BY <1>1 DEF DrainRequests, SendUnlessShutdown
<1>2. CASE WriteRequest
  BY <1>2 DEF WriteRequest, Write, AfterWritesDone
<1>3. CASE OnDiscoveryResponse
  BY <1>3 DEF OnDiscoveryResponse, queueDiscoveryRequest
<1>4. CASE ReadEnds
  BY <1>4 DEF ReadEnds
<1>5. CASE PopRequest
  <2>1. CASE request_queue_ = <<>>
    <3>1. \E t \in Types : request_[t].response_nonce # 0
      BY <1>5, <2>1 DEF PopRequest, NestInv
    <3>2. stream = "ended"
      BY <1>5, <2>1 DEF PopRequest, ControlInv, OpenInv, TypeOK, StreamTypeOK
    <3> QED
      BY <1>5, <3>1, <3>2 DEF PopRequest
  <2>2. CASE request_queue_ # <<>>
    BY <1>5, <2>2 DEF PopRequest
  <2> QED
    BY <2>1, <2>2
<1>6. CASE EstablishedLoop
  BY <1>6 DEF EstablishedLoop, queueDiscoveryRequest
<1>7. CASE FinishUpdate
  BY <1>7 DEF FinishUpdate, queueDiscoveryRequest
<1>8. CASE OnStreamEstablished
  BY <1>8 DEF OnStreamEstablished, AppIdle
<1>9. ASSUME NEW w \in Watchers, NEW names \in SUBSET Names,
            AddWatch(w, names)
      PROVE  UndefinedOnlyAfterResponse'
  BY <1>9 DEF AddWatch, AppIdle, queueDiscoveryRequest
<1>10. ASSUME NEW w \in Watchers, NEW names \in SUBSET Names,
            UpdateWatch(w, names)
      PROVE  UndefinedOnlyAfterResponse'
  BY <1>10 DEF UpdateWatch, AppIdle, queueDiscoveryRequest
<1>11. ASSUME NEW w \in Watchers, DestroyWatch(w)
      PROVE  UndefinedOnlyAfterResponse'
  BY <1>11 DEF DestroyWatch, AppIdle, queueDiscoveryRequest
<1>12. CASE Shutdown
  BY <1>12 DEF Shutdown, AfterWritesDone
<1>13. CASE ShutdownStep
  BY <1>13 DEF ShutdownStep, ShutdownFinish, ShutdownSet
<1>14. ASSUME NEW url \in Types, NEW version \in Versions, NEW empty \in BOOLEAN,
             ServerPush(url, version, empty)
      PROVE  UndefinedOnlyAfterResponse'
  BY <1>14 DEF ServerPush
<1>15. CASE ServerEnd
  BY <1>15 DEF ServerEnd
<1>16. CASE UNCHANGED vars
  BY <1>16 DEF vars
<1> QED
  BY <1>1, <1>2, <1>3, <1>4, <1>5, <1>6, <1>7, <1>8, <1>9,
     <1>10, <1>11, <1>12, <1>13, <1>14, <1>15, <1>16
     DEF Next, ClientStep, Application, Server, Terminated

(* No watch changes while requests are on an open stream.                  *)
LEMMA WireNamesStep == IndInv /\ [Next]_vars => WireNamesCurrent'
<1> SUFFICES ASSUME IndInv, [Next]_vars PROVE WireNamesCurrent'
  OBVIOUS
<1> USE DEF IndInv, CoreInv, WireNamesCurrent, WatchedNames, TypeWatches, threadVars,
        apiVars, watchVars, streamVars, shutdownVars
<1>1. CASE DrainRequests
  BY <1>1 DEF DrainRequests, SendUnlessShutdown
<1>2. CASE WriteRequest
  <2>1. UNCHANGED <<watches_, resources_, stream>>
    BY <1>2 DEF WriteRequest
  <2>2. request_'[FrontOfQueue].resource_names = WatchedNames(FrontOfQueue)
    BY <1>2, WriteEffect
  <2> QED
    BY <1>2, <2>1, <2>2, WireEffect
<1>3. CASE OnDiscoveryResponse
  BY <1>3 DEF OnDiscoveryResponse, queueDiscoveryRequest
<1>4. CASE ReadEnds
  BY <1>4 DEF ReadEnds
<1>5. CASE PopRequest
  BY <1>5 DEF PopRequest
<1>6. CASE EstablishedLoop
  BY <1>6 DEF EstablishedLoop, queueDiscoveryRequest
<1>7. CASE FinishUpdate
  <2>1. stream = "open" => wire = <<>>
    BY <1>7 DEF FinishUpdate, NestedInv
  <2> QED
    BY <1>7, <2>1 DEF FinishUpdate
<1>8. CASE OnStreamEstablished
  <2>1. wire' = <<>>
    BY <1>8 DEF OnStreamEstablished
  <2> QED
    BY <2>1
<1>9. ASSUME NEW w \in Watchers, NEW names \in SUBSET Names,
            AddWatch(w, names)
      PROVE  WireNamesCurrent'
  <2>1. stream = "open" => wire = <<>>
    BY <1>9 DEF AddWatch, AppIdle, NestedInv
  <2> QED
    BY <1>9, <2>1 DEF AddWatch
<1>10. ASSUME NEW w \in Watchers, NEW names \in SUBSET Names,
            UpdateWatch(w, names)
      PROVE  WireNamesCurrent'
  <2>1. stream = "open" => wire = <<>>
    BY <1>10 DEF UpdateWatch, AppIdle, NestedInv
  <2> QED
    BY <1>10, <2>1 DEF UpdateWatch
<1>11. ASSUME NEW w \in Watchers, DestroyWatch(w)
      PROVE  WireNamesCurrent'
  <2>1. stream = "open" => wire = <<>>
    BY <1>11 DEF DestroyWatch, AppIdle, NestedInv
  <2> QED
    BY <1>11, <2>1 DEF DestroyWatch
<1>12. CASE Shutdown
  BY <1>12 DEF Shutdown
<1>13. CASE ShutdownStep
  BY <1>13 DEF ShutdownStep, ShutdownFinish, ShutdownSet
<1>14. ASSUME NEW url \in Types, NEW version \in Versions, NEW empty \in BOOLEAN,
             ServerPush(url, version, empty)
      PROVE  WireNamesCurrent'
  BY <1>14 DEF ServerPush
<1>15. CASE ServerEnd
  BY <1>15 DEF ServerEnd
<1>16. CASE UNCHANGED vars
  BY <1>16 DEF vars
<1> QED
  BY <1>1, <1>2, <1>3, <1>4, <1>5, <1>6, <1>7, <1>8, <1>9,
     <1>10, <1>11, <1>12, <1>13, <1>14, <1>15, <1>16
     DEF Next, ClientStep, Application, Server, Terminated

(* subscribed_ and subscriptions_ change together.                         *)
LEMMA SubscriptionsStep == IndInv /\ [Next]_vars => SubscriptionsMatch'
<1> SUFFICES ASSUME IndInv, [Next]_vars PROVE SubscriptionsMatch'
  OBVIOUS
<1> USE WatchUrlAssumption DEF IndInv, CoreInv, TypeOK, ApiTypeOK, SubscriptionsMatch,
        threadVars, apiVars, watchVars, streamVars, shutdownVars
<1>1. CASE DrainRequests
  BY <1>1 DEF DrainRequests, SendUnlessShutdown
<1>2. CASE WriteRequest
  <2> DEFINE url == FrontOfQueue
  <2>1. url \in Types
    BY <1>2, WriteEffect
  <2>2. CASE Subscribes(url)
    <3>1. /\ subscriptions_' = Append(subscriptions_, url)
          /\ subscribed_' = [subscribed_ EXCEPT ![url] = TRUE]
      BY <1>2, <2>1, <2>2 DEF WriteRequest
    <3>2. ~subscribed_[url]
      BY <2>2 DEF Subscribes
    <3> QED
      BY <2>1, <3>1, <3>2, SubscribeEffect DEF FirstIsCluster
  <2>3. CASE ~Subscribes(url)
    <3>1. /\ subscriptions_' = subscriptions_
          /\ \A t \in Types : subscribed_'[t] = subscribed_[t]
      BY <1>2, <2>1, <2>3 DEF WriteRequest
    <3> QED
      BY <3>1
  <2> QED
    BY <2>2, <2>3
<1>3. CASE OnDiscoveryResponse
  BY <1>3 DEF OnDiscoveryResponse
<1>4. CASE ReadEnds
  BY <1>4 DEF ReadEnds
<1>5. CASE PopRequest
  BY <1>5 DEF PopRequest
<1>6. CASE EstablishedLoop
  BY <1>6 DEF EstablishedLoop, queueDiscoveryRequest
<1>7. CASE FinishUpdate
  BY <1>7 DEF FinishUpdate, queueDiscoveryRequest
<1>8. CASE OnStreamEstablished
  BY <1>8 DEF OnStreamEstablished, AppIdle
<1>9. ASSUME NEW w \in Watchers, NEW names \in SUBSET Names,
            AddWatch(w, names)
      PROVE  SubscriptionsMatch'
  <2> DEFINE url == WatchUrl[w]
  <2>1. url \in Types /\ subscribed_' = [subscribed_ EXCEPT ![url] = TRUE]
    BY <1>9 DEF AddWatch
  <2>2. CASE ~subscribed_[url]
    <3>1. subscriptions_' = Append(subscriptions_, url)
      BY <1>9, <2>2 DEF AddWatch
    <3> QED
      BY <2>1, <2>2, <3>1, SubscribeEffect DEF FirstIsCluster
  <2>3. CASE subscribed_[url]
    <3>1. subscriptions_' = subscriptions_
      BY <1>9, <2>3 DEF AddWatch
    <3>2. \A t \in Types : subscribed_'[t] = subscribed_[t]
      BY <2>1, <2>3
    <3> QED
      BY <3>1, <3>2
  <2> QED
    BY <2>2, <2>3
<1>10. ASSUME NEW w \in Watchers, NEW names \in SUBSET Names,
            UpdateWatch(w, names)
      PROVE  SubscriptionsMatch'
  BY <1>10 DEF UpdateWatch, AppIdle, queueDiscoveryRequest
<1>11. ASSUME NEW w \in Watchers, DestroyWatch(w)
      PROVE  SubscriptionsMatch'
  BY <1>11 DEF DestroyWatch, AppIdle, queueDiscoveryRequest
<1>12. CASE Shutdown
  BY <1>12 DEF Shutdown
<1>13. CASE ShutdownStep
  BY <1>13 DEF ShutdownStep, ShutdownFinish, ShutdownSet
<1>14. ASSUME NEW url \in Types, NEW version \in Versions, NEW empty \in BOOLEAN,
             ServerPush(url, version, empty)
      PROVE  SubscriptionsMatch'
  BY <1>14 DEF ServerPush
<1>15. CASE ServerEnd
  BY <1>15 DEF ServerEnd
<1>16. CASE UNCHANGED vars
  BY <1>16 DEF vars
<1> QED
  BY <1>1, <1>2, <1>3, <1>4, <1>5, <1>6, <1>7, <1>8, <1>9,
     <1>10, <1>11, <1>12, <1>13, <1>14, <1>15, <1>16
     DEF Next, ClientStep, Application, Server, Terminated

(* One request is queued for each activation.                              *)
LEMMA QueueStep == CoreInv /\ [Next]_vars => QueueWithinCalls'
<1> SUFFICES ASSUME CoreInv, [Next]_vars PROVE QueueWithinCalls'
  OBVIOUS
<1> USE DEF CoreInv, TypeOK, ThreadTypeOK, ApiTypeOK, ControlInv,
        QueueWithinCalls, threadVars, apiVars, watchVars, streamVars,
        shutdownVars
<1>1. CASE DrainRequests
  BY <1>1, LenProperties DEF DrainRequests, SendUnlessShutdown
<1>2. CASE WriteRequest
  BY <1>2 DEF WriteRequest, Write
<1>3. CASE OnDiscoveryResponse
  <2>1. \A t \in Types : Len(Append(request_queue_, t)) = Len(request_queue_) + 1
    BY AppendProperties
  <2> QED
    BY <1>3, <2>1, LenProperties, ResponseEffect
       DEF OnDiscoveryResponse, queueDiscoveryRequest
<1>4. CASE ReadEnds
  BY <1>4 DEF ReadEnds
<1>5. CASE PopRequest
  BY <1>5, HeadTailProperties, LenProperties DEF PopRequest
<1>6. CASE EstablishedLoop
  <2>1. \A t \in Types : Len(Append(request_queue_, t)) = Len(request_queue_) + 1
    BY AppendProperties
  <2> QED
    BY <1>6, <2>1, LenProperties, ElementOfSeq
       DEF EstablishedLoop, queueDiscoveryRequest
<1>7. CASE FinishUpdate
  <2>1. \A t \in Types : Len(Append(request_queue_, t)) = Len(request_queue_) + 1
    BY AppendProperties
  <2> QED
    BY <1>7, <2>1, LenProperties, WatchUrlAssumption
       DEF FinishUpdate, queueDiscoveryRequest
<1>8. CASE OnStreamEstablished
  BY <1>8 DEF OnStreamEstablished, AppIdle
<1>9. ASSUME NEW w \in Watchers, NEW names \in SUBSET Names,
            AddWatch(w, names)
      PROVE  QueueWithinCalls'
  <2>1. \A t \in Types : Len(Append(request_queue_, t)) = Len(request_queue_) + 1
    BY AppendProperties
  <2> QED
    BY <1>9, <2>1, LenProperties, WatchUrlAssumption
       DEF AddWatch, AppIdle, queueDiscoveryRequest
<1>10. ASSUME NEW w \in Watchers, NEW names \in SUBSET Names,
            UpdateWatch(w, names)
      PROVE  QueueWithinCalls'
  <2>1. \A t \in Types : Len(Append(request_queue_, t)) = Len(request_queue_) + 1
    BY AppendProperties
  <2> QED
    BY <1>10, <2>1, LenProperties, WatchUrlAssumption
       DEF UpdateWatch, AppIdle, queueDiscoveryRequest
<1>11. ASSUME NEW w \in Watchers, DestroyWatch(w)
      PROVE  QueueWithinCalls'
  <2>1. \A t \in Types : Len(Append(request_queue_, t)) = Len(request_queue_) + 1
    BY AppendProperties
  <2> QED
    BY <1>11, <2>1, LenProperties, WatchUrlAssumption
       DEF DestroyWatch, AppIdle, queueDiscoveryRequest
<1>12. CASE Shutdown
  BY <1>12 DEF Shutdown
<1>13. CASE ShutdownStep
  BY <1>13 DEF ShutdownStep, ShutdownFinish, ShutdownSet
<1>14. ASSUME NEW url \in Types, NEW version \in Versions, NEW empty \in BOOLEAN,
             ServerPush(url, version, empty)
      PROVE  QueueWithinCalls'
  BY <1>14 DEF ServerPush
<1>15. CASE ServerEnd
  BY <1>15 DEF ServerEnd
<1>16. CASE UNCHANGED vars
  BY <1>16 DEF vars
<1> QED
  BY <1>1, <1>2, <1>3, <1>4, <1>5, <1>6, <1>7, <1>8, <1>9,
     <1>10, <1>11, <1>12, <1>13, <1>14, <1>15, <1>16
     DEF Next, ClientStep, Application, Server, Terminated

(* What a step does to the wire: nothing, a new stream, or one Cluster     *)
(* request on an open stream before the shutdown; and the responses of the *)
(* server stay.                                                            *)
LEMMA WireStep ==
    ASSUME IndInv, [Next]_vars
    PROVE  /\ \A n \in 1..Len(issued) : n \in 1..Len(issued') /\ issued'[n] = issued[n]
           /\ \/ wire' = <<>>
              \/ wire' = wire /\ streams' = streams
              \/ WriteRequest /\ streams' = streams /\ wire' # wire
<1> USE DEF threadVars, apiVars, watchVars, streamVars, shutdownVars
<1>1. CASE OnStreamEstablished
  BY <1>1 DEF OnStreamEstablished
<1>2. CASE WriteRequest
  BY <1>2 DEF WriteRequest
<1>3. ASSUME NEW url \in Types, NEW version \in Versions, NEW empty \in BOOLEAN,
             ServerPush(url, version, empty)
      PROVE  /\ wire' = wire /\ streams' = streams
             /\ \A n \in 1..Len(issued) : n \in 1..Len(issued') /\ issued'[n] = issued[n]
  BY <1>3, PushEffect DEF ServerPush, IndInv, CoreInv
<1>4. \/ UNCHANGED <<wire, streams, issued>>
      \/ OnStreamEstablished \/ WriteRequest
      \/ \E url \in Types, version \in Versions, empty \in BOOLEAN :
            ServerPush(url, version, empty)
  BY DEF Next, ClientStep, Application, Server, Terminated, DrainRequests,
         OnDiscoveryResponse, ReadEnds, PopRequest, EstablishedLoop, FinishUpdate,
         AddWatch, UpdateWatch, DestroyWatch, Shutdown, ShutdownStep,
         ShutdownFinish, ShutdownSet, ServerEnd,
         vars
<1> QED
  BY <1>1, <1>2, <1>3, <1>4

(* subscriptions_ keeps its first entry.                                   *)
LEMMA FirstStep == CoreInv /\ [Next]_vars => FirstIsCluster'
<1> SUFFICES ASSUME CoreInv, [Next]_vars PROVE FirstIsCluster'
  OBVIOUS
<1> USE DEF threadVars, apiVars, watchVars, streamVars, shutdownVars
<1>1. \A t \in Types : /\ Len(Append(subscriptions_, t)) > 0
                       /\ Append(subscriptions_, t)[1] = Cluster
  BY AppendProperties, LenProperties
     DEF CoreInv, TypeOK, ApiTypeOK, FirstIsCluster
<1>2. CASE WriteRequest
  BY <1>1, <1>2, WriteEffect DEF WriteRequest, CoreInv, FirstIsCluster
<1>3. ASSUME NEW w \in Watchers, NEW names \in SUBSET Names, AddWatch(w, names)
      PROVE  FirstIsCluster'
  BY <1>1, <1>3, WatchUrlAssumption DEF AddWatch, CoreInv, FirstIsCluster
<1>4. \/ UNCHANGED subscriptions_ \/ WriteRequest
      \/ \E w \in Watchers, names \in SUBSET Names : AddWatch(w, names)
  BY DEF Next, ClientStep, Application, Server, Terminated, DrainRequests,
         OnDiscoveryResponse, ReadEnds, PopRequest, EstablishedLoop, FinishUpdate,
         OnStreamEstablished, UpdateWatch, DestroyWatch, Shutdown,
         ShutdownStep, ShutdownFinish, ShutdownSet, ServerPush, ServerEnd, vars
<1> QED
  BY <1>2, <1>3, <1>4 DEF CoreInv, FirstIsCluster

(* The properties of the requests on the wire: those that were there stay, *)
(* and the new one is a Cluster request built from what is recorded.       *)
LEMMA WirePropertiesStep ==
    IndInv /\ [Next]_vars => /\ OnlyClusterRequested' /\ TypedRequests'
                             /\ NoncesOfThisStream' /\ NoncesNeverGoBack'
                             /\ VersionsOfEmpty'
<1> SUFFICES ASSUME IndInv, [Next]_vars
             PROVE  /\ OnlyClusterRequested' /\ TypedRequests'
                    /\ NoncesOfThisStream' /\ NoncesNeverGoBack'
                    /\ VersionsOfEmpty'
  OBVIOUS
<1> USE TypesAssumption
    DEF OnlyClusterRequested, TypedRequests, NoncesOfThisStream,
        NoncesNeverGoBack, VersionsOfEmpty
<1>1. /\ \A n \in DOMAIN issued : n \in DOMAIN issued' /\ issued'[n] = issued[n]
      /\ DOMAIN issued' = 1..Len(issued') /\ DOMAIN wire = 1..Len(wire)
  BY WireStep, TypeStep, LenProperties DEF IndInv, CoreInv, TypeOK, StreamTypeOK
<1>2. CASE wire' = <<>>
  BY <1>2
<1>3. CASE wire' = wire /\ streams' = streams
  BY <1>1, <1>3 DEF IndInv, CoreInv
<1>4. CASE WriteRequest /\ streams' = streams /\ wire' # wire
  <2> DEFINE last == Len(wire) + 1
             sent == request_'[Cluster]
  <2>1. /\ stream = "open" /\ FrontOfQueue = Cluster
        /\ last \in Nat /\ DOMAIN wire' = 1..last
        /\ \A i \in 1..Len(wire) : wire'[i] = wire[i]
        /\ wire'[last].url = Cluster /\ wire'[last].request = sent
    BY <1>4, WireEffect DEF IndInv, CoreInv
  <2>2. \A i \in DOMAIN wire' : i = last \/ (i \in DOMAIN wire /\ wire'[i] = wire[i])
    BY <1>1, <2>1
  <2>3. stream' = stream
    BY <1>4 DEF WriteRequest
  <2>4. OnlyClusterRequested'
    BY <2>1, <2>2 DEF IndInv, CoreInv
  <2>5. sent.type_url
    BY <1>4, <2>1, WriteEffect DEF IndInv, CoreInv, OpenInv, TypedInv, Subscribes,
       WriteRequest
  <2>6. TypedRequests'
    BY <2>1, <2>2, <2>5 DEF IndInv, CoreInv
  <2>7. NoncesOfThisStream'
    <3>1. NonceInv'
      BY NonceStep DEF IndInv
    <3> QED
      BY <1>1, <1>4, <3>1, <2>1, <2>3, <2>2 DEF IndInv, CoreInv, NonceInv
  <2>8. NoncesNeverGoBack'
    <3>1. \A i \in DOMAIN wire : wire[i].request.response_nonce <= sent.response_nonce
      BY <1>1, <1>4, WriteEffect DEF IndInv, CoreInv, WireNonceInv
    <3>2. sent.response_nonce \in Nat
      BY TypeStep DEF IndInv, CoreInv, TypeOK, ApiTypeOK, Requests
    <3> QED
      BY <1>1, <2>1, <2>2, <3>1, <3>2 DEF IndInv, CoreInv
  <2>9. VersionsOfEmpty'
    <3>1. VersionInv'
      BY VersionStep
    <3>2. sent.version_info # NoVersion =>
            \E n \in DOMAIN issued' :
               /\ issued'[n].empty /\ issued'[n].type_url = Cluster
               /\ issued'[n].version_info = sent.version_info
               /\ issued'[n].stream < streams' \/ n <= sent.response_nonce
      BY <1>1, <3>1 DEF VersionInv
    <3>3. VersionsOfEmpty /\ issued' = issued
      BY <1>4 DEF IndInv, CoreInv, WriteRequest
    <3> QED
      BY <1>4, <2>1, <2>2, <3>2, <3>3
  <2> QED
    BY <2>4, <2>6, <2>7, <2>8, <2>9
<1> QED
  BY <1>2, <1>3, <1>4, WireStep

-----------------------------------------------------------------------------
(* The theorems.                                                           *)

(* The initial state satisfies the inductive invariant.                    *)
LEMMA InitInv == Init => IndInv
<1> SUFFICES ASSUME Init PROVE IndInv
  OBVIOUS
<1> USE TypesAssumption, VersionsAssumption DEF Init
<1>1. ThreadTypeOK
  <2>1. shutdown_ \in BOOLEAN
    OBVIOUS
  <2> QED
    BY <2>1 DEF ThreadTypeOK
<1>9. WatchTypeOK
  BY DEF WatchTypeOK
<1>2. ApiTypeOK
  BY DEF ApiTypeOK, EmptyRequest, Requests
<1>3. StreamTypeOK
  <2>1. /\ inbox \in Seq(Nat) /\ issued \in Seq(Responses)
        /\ wire \in Seq([url : Types, request : Requests])
    BY EmptySeq
  <2>2. stream \in {"none", "open", "ended"} /\ streams \in Nat
    OBVIOUS
  <2>3. writesDone \in BOOLEAN
    OBVIOUS
  <2> QED
    BY <2>2, <2>3, <2>1 DEF StreamTypeOK
<1>4. /\ ControlInv /\ FirstIsCluster /\ OpenInv /\ QueueWithinCalls
      /\ NestedInv /\ IssuedInv
  BY DEF ControlInv, FirstIsCluster, OpenInv, QueueWithinCalls, NestedInv,
     IssuedInv
<1>5. InboxInv /\ WireNonceInv /\ AnswerInv
  BY DEF InboxInv, WireNonceInv, AnswerInv
<1>6. TypedInv /\ NonceInv /\ VersionInv /\ NestInv
  BY DEF TypedInv, NonceInv, VersionInv, NestInv, EmptyRequest
<1>7. /\ OnlyClusterRequested /\ TypedRequests /\ NoncesOfThisStream
      /\ NoncesNeverGoBack /\ VersionsOfEmpty /\ WireNamesCurrent
      /\ UndefinedOnlyAfterResponse
  BY DEF OnlyClusterRequested, TypedRequests, NoncesOfThisStream,
         NoncesNeverGoBack, VersionsOfEmpty, WireNamesCurrent,
         UndefinedOnlyAfterResponse
<1>8. SubscriptionsMatch
  <2>1. Tail(subscriptions_) = <<>> /\ Head(subscriptions_) = Cluster
    OBVIOUS
  <2> QED
    BY <2>1 DEF SubscriptionsMatch, IsInjective, Range
<1> QED
  BY <1>1, <1>2, <1>3, <1>4, <1>5, <1>6, <1>7, <1>8, <1>9 DEF IndInv, CoreInv, TypeOK

(* IndInv is an inductive invariant of AdsClient.                          *)
THEOREM Invariance == Spec => []IndInv
<1>1. IndInv /\ [Next]_vars => IndInv'
  BY TypeStep, ControlStep, InboxStep, FirstStep, OpenStep, TypedStep,
     NonceStep, WireNonceStep, VersionStep, NestStep, AnswerStep, QueueStep,
     WirePropertiesStep, WireNamesStep, SubscriptionsStep, UndefinedStep,
     NestedStep, IssuedStep DEF IndInv, CoreInv
<1> QED
  BY InitInv, <1>1, PTL DEF Spec

(* The client, its watches and the stream keep their types.                *)
THEOREM TypeCorrect == Spec => []TypeOK
BY Invariance, PTL DEF IndInv, CoreInv

(* Every request, on every stream, is for the type of the constructor: a   *)
(* type that addWatch subscribes to is never requested from the server.    *)
THEOREM OnlyCluster == Spec => []OnlyClusterRequested
BY Invariance, PTL DEF IndInv, CoreInv

(* No request is without its type URL.                                     *)
THEOREM Typed == Spec => []TypedRequests
BY Invariance, PTL DEF IndInv, CoreInv

(* The nonce of a request is that of a response of its type on its stream. *)
THEOREM Nonces == Spec => []NoncesOfThisStream
BY Invariance, PTL DEF IndInv, CoreInv

(* On a stream the nonces of the requests never go back.                   *)
THEOREM NoncesForward == Spec => []NoncesNeverGoBack
BY Invariance, PTL DEF IndInv, CoreInv

(* A version on the wire was brought by an earlier response without        *)
(* resources.                                                              *)
THEOREM VersionsOnlyOfEmpty == Spec => []VersionsOfEmpty
BY Invariance, PTL DEF IndInv, CoreInv

(* The list of subscriptions and the flags of the types agree.             *)
THEOREM Subscriptions == Spec => []SubscriptionsMatch
BY Invariance, PTL DEF IndInv, CoreInv

(* An open stream carries the names the watches hold.                      *)
THEOREM CurrentNames == Spec => []WireNamesCurrent
BY Invariance, PTL DEF IndInv, CoreInv

(* The queue holds no more than one request for each activation.           *)
THEOREM BoundedQueue == Spec => []QueueWithinCalls
BY Invariance, PTL DEF IndInv, CoreInv

(* Only a stream on which a response was handled can underflow the queue.  *)
THEOREM UndefinedNeedsResponse == Spec => []UndefinedOnlyAfterResponse
BY Invariance, PTL DEF IndInv, CoreInv

(* When the client waits, the last Cluster response with resources has its *)
(* answer on the wire.                                                     *)
THEOREM ClusterAnswered == Spec => []RepliesSent
<1>1. IndInv => RepliesSent
  <2> SUFFICES ASSUME IndInv PROVE RepliesSent
    OBVIOUS
  <2>1. DOMAIN wire = 1..Len(wire)
    BY LenProperties DEF IndInv, CoreInv, TypeOK, StreamTypeOK
  <2> QED
    BY <2>1 DEF IndInv, CoreInv, AnswerInv, RepliesSent, Waiting
<1> QED
  BY Invariance, <1>1, PTL

(* Once shutdown_ is set the client writes at most the one request that is *)
(* past the test of the flag.                                              *)
THEOREM SilentAfterShutdown == Spec => OneSendAfterShutdown
<1>1. IndInv /\ [Next]_vars =>
        [shutdown_ /\ pc # "write" => wire' \in {wire, <<>>} /\ pc' # "write"]_vars
  <2> SUFFICES ASSUME IndInv, [Next]_vars, shutdown_, pc # "write"
               PROVE  wire' \in {wire, <<>>} /\ pc' # "write"
    OBVIOUS
  <2>1. ~WriteRequest
    BY DEF WriteRequest
  <2>2. pc' # "write"
    BY <2>1 DEF Next, ClientStep, Application, Server, Terminated, DrainRequests,
       SendUnlessShutdown, OnDiscoveryResponse, ReadEnds, PopRequest, EstablishedLoop,
       FinishUpdate, OnStreamEstablished, AddWatch, UpdateWatch, DestroyWatch,
       queueDiscoveryRequest, Shutdown, ShutdownStep, ShutdownFinish, ShutdownSet,
       ServerPush, ServerEnd, threadVars, vars, IndInv, CoreInv, TypeOK, ThreadTypeOK
  <2> QED
    BY <2>1, <2>2, WireStep
<1> QED
  BY Invariance, <1>1, PTL DEF Spec, OneSendAfterShutdown

(* The call stack grows with the requests on an open stream.               *)
THEOREM Nesting == Spec => []NestedSends
<1>1. IndInv => NestedSends
  BY DEF IndInv, NestedInv, Activations, NestedSends
<1> QED
  BY Invariance, <1>1, PTL

(* shutdown() on the client's own thread: while it runs the thread is      *)
(* nowhere else, and afterwards shutdown_ keeps it from writing.           *)
OneThreadInv ==
    ~ShutdownThread => /\ shutPc # "no" => pc = "idle"
                       /\ writesDone => shutdown_ \/ shutPc # "no"
                       /\ shutdown_ => pc # "write"

(* No step breaks it: to get to a Write the thread must leave "idle", which*)
(* it cannot do in Finish, and pass the test of shutdown_.                 *)
LEMMA OneThreadStep == TypeOK /\ OneThreadInv /\ [Next]_vars => OneThreadInv'
<1> SUFFICES ASSUME TypeOK, OneThreadInv, [Next]_vars PROVE OneThreadInv'
  OBVIOUS
<1> USE ShutdownAssumption
        DEF TypeOK, ThreadTypeOK, OneThreadInv, AppIdle,
            threadVars, apiVars, watchVars, streamVars, shutdownVars
<1>thread. CASE DrainRequests \/ ReadEnds \/ PopRequest
  BY <1>thread DEF DrainRequests, SendUnlessShutdown, ReadEnds, PopRequest
<1>write. CASE WriteRequest
  BY <1>write DEF WriteRequest, Write
<1>response. CASE OnDiscoveryResponse
  BY <1>response DEF OnDiscoveryResponse, queueDiscoveryRequest
<1>loop. CASE EstablishedLoop \/ FinishUpdate
  BY <1>loop DEF EstablishedLoop, FinishUpdate, queueDiscoveryRequest
<1>establish. CASE OnStreamEstablished
  BY <1>establish DEF OnStreamEstablished
<1>watch. ASSUME NEW w \in Watchers, NEW names \in SUBSET Names,
                 AddWatch(w, names) \/ UpdateWatch(w, names) \/ DestroyWatch(w)
          PROVE  OneThreadInv'
  BY <1>watch DEF AddWatch, UpdateWatch, DestroyWatch, queueDiscoveryRequest
<1>shutdown. CASE Shutdown \/ ShutdownStep
  BY <1>shutdown DEF Shutdown, ShutdownStep, ShutdownFinish, ShutdownSet
<1>server. CASE Server
  <2>1. UNCHANGED <<process, pc, shutdown_, shutPc, writesDone>> /\ stream # "none" /\ Running
    BY <1>server DEF Server, ServerPush, ServerEnd
  <2> QED
    BY <2>1
<1>stutter. CASE UNCHANGED vars
  BY <1>stutter DEF vars
<1> QED
  BY <1>thread, <1>write, <1>response, <1>loop, <1>establish, <1>watch,
     <1>shutdown, <1>server, <1>stutter DEF Next, ClientStep, Application, Terminated

(* With shutdown() on its own thread the client is never about to write    *)
(* once shutdown() has begun, on any stream.                               *)
THEOREM OneThread == Spec => []NoWriteAfterShutdown
<1>1. Init => OneThreadInv
  BY DEF Init, OneThreadInv
<1>2. OneThreadInv => NoWriteAfterShutdown
  BY DEF OneThreadInv, NoWriteAfterShutdown
<1> QED
  BY TypeCorrect, OneThreadStep, <1>1, <1>2, PTL DEF Spec

-----------------------------------------------------------------------------
(* The refinement of the ACK protocol.                                     *)

(* A step that sends and receives nothing leaves the server's view alone.  *)
LEMMA Unseen ==
    ASSUME UNCHANGED <<stream, streams, issued, wire>>,
           \A t \in Types : /\ request_'[t].response_nonce = request_[t].response_nonce
                            /\ request_'[t].version_info = request_[t].version_info
    PROVE  UNCHANGED Protocol!vars
<1>1. Received' = Received /\ Applied' = Applied
  BY DEF Received, Applied
<1>2. Offered' = Offered /\ Delivered' = Delivered
  BY DEF Offered, Delivered
<1> QED
  BY <1>1, <1>2 DEF Protocol!vars

(* The steps of the client thread and the application that neither send    *)
(* nor receive.                                                            *)
LEMMA SilentSteps ==
    ASSUME IndInv,
           \/ DrainRequests \/ ReadEnds \/ PopRequest \/ EstablishedLoop
           \/ FinishUpdate \/ Shutdown \/ ShutdownStep \/ UNCHANGED vars
           \/ \E w \in Watchers, names \in SUBSET Names :
                 AddWatch(w, names) \/ UpdateWatch(w, names) \/ DestroyWatch(w)
    PROVE  UNCHANGED Protocol!vars
<1> USE DEF threadVars, apiVars, watchVars, streamVars, shutdownVars
<1>1. UNCHANGED <<stream, streams, issued, wire>>
  BY DEF DrainRequests, ReadEnds, PopRequest, EstablishedLoop, FinishUpdate,
         Shutdown, ShutdownStep, ShutdownFinish, ShutdownSet, AddWatch, UpdateWatch,
         DestroyWatch, vars
<1>2. \/ request_' = request_
      \/ \E w \in Watchers : request_' = [request_ EXCEPT ![WatchUrl[w]].type_url = TRUE]
  BY DEF DrainRequests, ReadEnds, PopRequest, EstablishedLoop, FinishUpdate,
         Shutdown, ShutdownStep, ShutdownFinish, ShutdownSet, AddWatch, UpdateWatch,
         DestroyWatch, vars
<1>3. \A t \in Types : /\ request_'[t].response_nonce = request_[t].response_nonce
                        /\ request_'[t].version_info = request_[t].version_info
  <2>1. \A t \in Types : request_[t] \in Requests
    BY DEF IndInv, CoreInv, TypeOK, ApiTypeOK
  <2>2. CASE request_' = request_
    BY <2>2
  <2>3. ASSUME NEW w \in Watchers,
               request_' = [request_ EXCEPT ![WatchUrl[w]].type_url = TRUE],
               NEW t \in Types
        PROVE  /\ request_'[t].response_nonce = request_[t].response_nonce
               /\ request_'[t].version_info = request_[t].version_info
    <3>1. request_ \in [Types -> Requests]
      BY DEF IndInv, CoreInv, TypeOK, ApiTypeOK
    <3>2. CASE t = WatchUrl[w]
      BY <2>1, <2>3, <3>1, <3>2 DEF Requests
    <3>3. CASE t # WatchUrl[w]
      BY <2>3, <3>1, <3>3
    <3> QED
      BY <3>2, <3>3
  <2> QED
    BY <1>2, <2>2, <2>3
<1> QED
  BY <1>1, <1>3, Unseen

(* A function on an initial segment of the naturals is a sequence.         *)
LEMMA FunctionIsSeq ==
    ASSUME NEW S, NEW n \in Nat, NEW f \in [1..n -> S]
    PROVE  f \in Seq(S) /\ Len(f) = n
<1>1. f \in Seq(S)
  BY SeqDef
<1>2. Len(f) \in Nat /\ 1..Len(f) = 1..n
  BY <1>1, LenProperties
<1> QED
  BY <1>1, <1>2

(* A request that is delivered is a request of the protocol.               *)
LEMMA WriteRefines ==
    ASSUME IndInv, WriteRequest
    PROVE  Protocol!Request(Cluster) \/ UNCHANGED Protocol!vars
<1>1. \A t \in Types : /\ request_'[t].response_nonce = request_[t].response_nonce
                        /\ request_'[t].version_info = request_[t].version_info
  BY WriteEffect DEF IndInv, CoreInv
<1>2. UNCHANGED <<stream, streams, issued>>
  BY DEF WriteRequest
<1>3. CASE wire' = wire
  BY <1>1, <1>2, <1>3, Unseen
<1>4. CASE wire' # wire
  <2> DEFINE sent == [type |-> Cluster, nonce |-> Received[Cluster],
                      version |-> Applied[Cluster]]
             S == [type : Types, nonce : Nat, version : Versions \cup {NoVersion}]
  <2>1. /\ stream = "open" /\ Len(wire) \in Nat /\ Len(wire') = Len(wire) + 1
        /\ DOMAIN wire = 1..Len(wire) /\ DOMAIN wire' = 1..Len(wire')
        /\ \A i \in 1..Len(wire) : wire'[i] = wire[i]
        /\ wire'[Len(wire')].url = Cluster
        /\ wire'[Len(wire')].request = request_'[Cluster]
    BY <1>4, WireEffect DEF IndInv, CoreInv
  <2>2. sent \in S
    BY TypesAssumption DEF IndInv, CoreInv, TypeOK, ApiTypeOK, Requests, Received, Applied
  <2>3. \A i \in 1..Len(wire) : wire[i] \in [url : Types, request : Requests]
    BY ElementOfSeq DEF IndInv, CoreInv, TypeOK, StreamTypeOK
  <2>4. Delivered \in Seq(S) /\ Len(Delivered) = Len(wire)
    <3>1. Delivered \in [1..Len(wire) -> S]
      BY <2>1, <2>3 DEF Delivered, Requests
    <3> QED
      BY <2>1, <3>1, FunctionIsSeq
  <2>5. Delivered' = Append(Delivered, sent)
    <3>1. /\ Append(Delivered, sent) \in Seq(S)
          /\ Len(Append(Delivered, sent)) = Len(wire) + 1
          /\ \A i \in 1..Len(wire) : Append(Delivered, sent)[i] = Delivered[i]
          /\ Append(Delivered, sent)[Len(wire) + 1] = sent
      BY <2>1, <2>2, <2>4, AppendProperties
    <3>2. /\ \A i \in 1..Len(wire) : Delivered'[i] = Delivered[i]
          /\ Delivered'[Len(wire) + 1] = sent
      BY <1>1, <2>1, TypesAssumption DEF Delivered, Received, Applied
    <3>3. Delivered' \in [1..(Len(wire) + 1) -> S]
      <4>1. DOMAIN Delivered' = 1..(Len(wire) + 1)
        BY <2>1 DEF Delivered
      <4>2. \A i \in 1..(Len(wire) + 1) : Delivered'[i] \in S
        <5>1. \A i \in 1..Len(wire) : Delivered[i] \in S
          BY <2>4, ElementOfSeq
        <5> QED
          BY <2>1, <2>2, <3>2, <5>1
      <4> QED
        BY <4>1, <4>2 DEF Delivered
    <3>4. Delivered' \in Seq(S) /\ Len(Delivered') = Len(wire) + 1
      <4> DEFINE n == Len(wire) + 1
                 f == Delivered'
      <4>1. n \in Nat /\ f \in [1..n -> S]
        BY <2>1, <3>3
      <4> HIDE DEF n, f, S
      <4>2. f \in Seq(S) /\ Len(f) = n
        BY <4>1, FunctionIsSeq
      <4> QED
        BY <4>2 DEF n, f
    <3> QED
      BY <2>1, <3>1, <3>2, <3>4, SeqEqual
  <2>6. Received' = Received /\ Applied' = Applied /\ Offered' = Offered
    BY <1>1, <1>2 DEF Received, Applied, Offered
  <2> QED
    BY <1>2, <2>1, <2>5, <2>6 DEF Protocol!Request
<1> QED
  BY <1>3, <1>4

(* A response that is recorded is received, and applied if it is accepted. *)
LEMMA ResponseRefines ==
    ASSUME IndInv, OnDiscoveryResponse
    PROVE  \/ \E offer \in Offered : Protocol!Receive(offer)
           \/ UNCHANGED Protocol!vars
<1> DEFINE nonce == Head(inbox)
           message == issued[nonce]
           url == message.type_url
           offer == [type |-> url, nonce |-> nonce, version |-> message.version_info]
<1>1. UNCHANGED <<stream, streams, issued, wire>>
  BY DEF OnDiscoveryResponse
<1>2. CASE url \notin api_state_
  BY <1>1, <1>2, ResponseEffect, Unseen DEF IndInv, CoreInv
<1>3. CASE url \in api_state_
  <2>1. /\ url \in Types /\ request_'[url].response_nonce = nonce
        /\ request_'[url].version_info = IF Accepts(message) THEN message.version_info
                                         ELSE request_[url].version_info
        /\ \A t \in Types \ {url} : request_'[t] = request_[t]
    BY <1>3, ResponseEffect DEF IndInv, CoreInv
  <2>2. offer \in Offered
    <3>1. nonce \in 1..Len(issued) /\ message.stream = streams
      BY HeadOfInbox DEF IndInv, CoreInv, TypeOK, InboxInv, OnDiscoveryResponse
    <3>2. nonce \in DOMAIN issued
      BY <3>1, LenProperties DEF IndInv, CoreInv, TypeOK, StreamTypeOK
    <3> QED
      BY <3>1, <3>2 DEF Offered
  <2>3. Received[url] < nonce
    BY <2>1, HeadOfInbox DEF IndInv, CoreInv, TypeOK, InboxInv, OnDiscoveryResponse, Received
  <2>4. Received' = [Received EXCEPT ![url] = nonce]
    BY <2>1 DEF Received
  <2>5. \/ Applied' = [Applied EXCEPT ![url] = message.version_info]
        \/ Applied' = Applied
    BY <2>1 DEF Applied
  <2>6. Offered' = Offered /\ Delivered' = Delivered
    BY <1>1 DEF Offered, Delivered
  <2>7. Protocol!Receive(offer)
    BY <2>6, <2>4, <1>1, <2>3, <2>5 DEF Protocol!Receive
  <2> QED
    BY <2>2, <2>7
<1> QED
  BY <1>2, <1>3

(* A push is an offer with a nonce above all the others.                   *)
LEMMA PushRefines ==
    ASSUME IndInv, NEW url \in Types, NEW version \in Versions, NEW empty \in BOOLEAN,
           ServerPush(url, version, empty)
    PROVE  Protocol!Offer
<1> DEFINE offer == [type |-> url, nonce |-> Len(issued) + 1, version |-> version]
<1>1. /\ stream = "open" /\ UNCHANGED <<stream, streams, wire, request_>>
  BY DEF ServerPush, apiVars
<1>2. /\ Len(issued) \in Nat /\ DOMAIN issued = 1..Len(issued)
      /\ DOMAIN issued' = 1..(Len(issued) + 1)
      /\ \A n \in 1..Len(issued) : issued'[n] = issued[n]
      /\ issued'[Len(issued) + 1] = [type_url |-> url, version_info |-> version,
                                     empty |-> empty, stream |-> streams]
  <2>1. [type_url |-> url, version_info |-> version, empty |-> empty,
         stream |-> streams] \in Responses
    BY DEF Responses, IndInv, CoreInv, TypeOK, StreamTypeOK
  <2> QED
    BY <2>1, AppendProperties, LenProperties
       DEF ServerPush, IndInv, CoreInv, TypeOK, StreamTypeOK
<1>3. Offered' = Offered \cup {offer}
  <2> DEFINE made(n) == [type |-> issued[n].type_url, nonce |-> n,
                         version |-> issued[n].version_info]
  <2>1. Offered = {made(n) : n \in {k \in 1..Len(issued) : issued[k].stream = streams}}
    BY <1>2 DEF Offered
  <2>2. Offered' = {[type |-> issued'[n].type_url, nonce |-> n,
                     version |-> issued'[n].version_info] :
                       n \in {k \in 1..(Len(issued) + 1) : issued'[k].stream = streams}}
    BY <1>1, <1>2 DEF Offered
  <2> QED
    BY <1>2, <2>1, <2>2
<1>4. \A old \in Offered : old.nonce < offer.nonce
  BY <1>2 DEF Offered
<1>5. offer \in Protocol!Offers
  BY <1>2 DEF Protocol!Offers
<1>6. Received' = Received /\ Applied' = Applied /\ Delivered' = Delivered
  BY <1>1 DEF Received, Applied, Delivered
<1> QED
  BY <1>1, <1>3, <1>4, <1>5, <1>6 DEF Protocol!Offer

(* A new stream forgets the nonces of the last one, and keeps the versions.*)
LEMMA EstablishRefines ==
    ASSUME IndInv, OnStreamEstablished
    PROVE  Protocol!Connect \/ Protocol!Fail
<1>1. streams' = streams + 1 /\ issued' = issued /\ wire' = <<>>
  BY DEF OnStreamEstablished
<1>2. Offered' = {}
  <2>1. \A n \in DOMAIN issued : issued[n].stream # streams + 1
    <3>1. DOMAIN issued = 1..Len(issued) /\ streams \in Nat
      BY LenProperties DEF IndInv, CoreInv, TypeOK, StreamTypeOK
    <3>2. \A n \in 1..Len(issued) : issued[n].stream \in Nat
      BY IssuedStreams DEF IndInv, CoreInv
    <3> QED
      BY <3>1, <3>2 DEF IndInv, CoreInv, IssuedInv
  <2> QED
    BY <1>1, <2>1 DEF Offered
<1>3. Delivered' = <<>>
  BY <1>1 DEF Delivered
<1>4. CASE stream' = "open"
  <2>1. request_' = clearNonce
    BY <1>4 DEF OnStreamEstablished
  <2>2. \A t \in Types : /\ request_'[t].response_nonce = 0
                         /\ request_'[t].version_info = request_[t].version_info
    BY <2>1 DEF clearNonce, IndInv, CoreInv, TypeOK, ApiTypeOK, NonceInv, Requests
  <2>3. Received' = [t \in Types |-> 0] /\ Applied' = Applied
    BY <2>2 DEF Received, Applied
  <2> QED
    BY <1>2, <1>3, <1>4, <2>3 DEF Protocol!Connect
<1>5. CASE stream' = "none"
  <2>1. request_' = request_
    BY <1>5 DEF OnStreamEstablished
  <2>2. Received' = Received /\ Applied' = Applied
    BY <2>1 DEF Received, Applied
  <2> QED
    BY <1>2, <1>3, <1>5, <2>2 DEF Protocol!Fail
<1> QED
  BY <1>4, <1>5 DEF OnStreamEstablished

(* The end of a stream disconnects.                                        *)
LEMMA EndRefines ==
    ASSUME ServerEnd
    PROVE  Protocol!Disconnect
<1>1. stream = "open" /\ stream' = "ended" /\ UNCHANGED <<streams, issued, wire, request_>>
  BY DEF ServerEnd, apiVars
<1>2. /\ Offered' = Offered /\ Delivered' = Delivered
      /\ Received' = Received /\ Applied' = Applied
  BY <1>1 DEF Offered, Delivered, Received, Applied
<1> QED
  BY <1>1, <1>2 DEF Protocol!Disconnect

(* Every step of the client is a step of the protocol or unseen.           *)
LEMMA StepRefines ==
    IndInv /\ [Next]_vars => [Protocol!Next]_(Protocol!vars)
<1> SUFFICES ASSUME IndInv, [Next]_vars
             PROVE  Protocol!Next \/ UNCHANGED Protocol!vars
  OBVIOUS
<1>1. CASE \/ DrainRequests \/ ReadEnds \/ PopRequest \/ EstablishedLoop
           \/ FinishUpdate \/ Shutdown \/ ShutdownStep \/ UNCHANGED vars
           \/ \E w \in Watchers, names \in SUBSET Names :
                 AddWatch(w, names) \/ UpdateWatch(w, names) \/ DestroyWatch(w)
  BY <1>1, SilentSteps
<1>2. CASE WriteRequest
  BY <1>2, WriteRefines, TypesAssumption DEF Protocol!Next
<1>3. CASE OnDiscoveryResponse
  BY <1>3, ResponseRefines DEF Protocol!Next
<1>4. CASE OnStreamEstablished
  BY <1>4, EstablishRefines DEF Protocol!Next
<1>5. ASSUME NEW url \in Types, NEW version \in Versions, NEW empty \in BOOLEAN,
             ServerPush(url, version, empty)
      PROVE  Protocol!Next
  BY <1>5, PushRefines DEF Protocol!Next
<1>6. CASE ServerEnd
  BY <1>6, EndRefines DEF Protocol!Next
<1>7. CASE \E w \in Watchers : DestroyWatch(w)
  <2>1. \E w \in Watchers, names \in SUBSET Names : DestroyWatch(w)
    BY <1>7
  <2> QED
    BY <1>1, <2>1
<1> QED
  BY <1>1, <1>2, <1>3, <1>4, <1>5, <1>6, <1>7
     DEF Next, ClientStep, Application, Server, Terminated

(* The multiplexer keeps to the ACK protocol, for all types, versions and  *)
(* watches: every request names the last response of its type received on  *)
(* the stream and the last version accepted.                               *)
THEOREM AckRefinement == Spec => ImplementsAckProtocol
<1>1. Init => Protocol!Init
  <2> SUFFICES ASSUME Init PROVE Protocol!Init
    OBVIOUS
  <2>1. Offered = {} /\ Delivered = <<>>
    BY DEF Init, Offered, Delivered
  <2>2. Received = [t \in Types |-> 0] /\ Applied = [t \in Types |-> NoVersion]
    BY DEF Init, Received, Applied, EmptyRequest
  <2> QED
    BY <2>1, <2>2 DEF Init, Protocol!Init
<1> QED
  BY <1>1, StepRefines, Invariance, PTL DEF Spec, ImplementsAckProtocol, Protocol!Spec
=============================================================================
