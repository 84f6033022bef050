---------------------------- MODULE AdsChatProofs ----------------------------
(***************************************************************************)
(* Proofs about AdsChat, for every set of types, names and watches and     *)
(* every bound: when a chat can be heard at all, and what it answers.      *)
(***************************************************************************)
EXTENDS AdsChat, AdsClientProofs

(* The variables of the chat.  The application is in one call at a time.   *)
ChatTypeInv ==
    /\ chat \in {"no", "read", "continue"}
    /\ discoveryRequest_ \in Requests
    /\ version_info_ \in Versions \cup {NoVersion} /\ nonce_ \in Nat
    /\ chat # "no" => pc = "idle"

(* The nonce of the request at position i of the wire.                     *)
Nonce(i) == wire[i].request.response_nonce

(* A response that the chat has read and not answered yet.                 *)
Pending(n) == chat = "continue" /\ n = nonce_

(* A stream that is the chat's, or may become it: the multiplexer has not  *)
(* come to its Read loop, which it does not leave while the stream is open.*)
Chatting == /\ stream = "open" /\ ~writesDone
            /\ depth = 0 \/ (depth = 1 /\ pc # "read")

(* On such a stream only a chat writes, and starts with one request.       *)
StartInv ==
    Chatting =>
        IF chat = "no" THEN wire = <<>> ELSE Len(wire) >= 1

(* The requests after the first, the response that is being answered and   *)
(* the responses to be read are responses of this stream in their order.   *)
OrderInv ==
    Chatting =>
        /\ \A i \in 2..Len(wire) :
              /\ Nonce(i) \in 1..Len(issued) /\ issued[Nonce(i)].stream = streams
              /\ wire[i].request.version_info = issued[Nonce(i)].version_info
              /\ \A j \in 2..Len(wire) : i < j => Nonce(i) < Nonce(j)
              /\ \A k \in 1..Len(inbox) : Nonce(i) < inbox[k]
              /\ chat = "continue" => Nonce(i) < nonce_
        /\ chat = "continue" =>
              /\ nonce_ \in 1..Len(issued) /\ issued[nonce_].stream = streams
              /\ version_info_ = issued[nonce_].version_info
              /\ \A k \in 1..Len(inbox) : nonce_ < inbox[k]

(* No response of this stream is missing among them.                       *)
CoveredInv ==
    Chatting =>
        \A n \in 1..Len(issued) : issued[n].stream = streams =>
            \/ \E i \in 2..Len(wire) : Nonce(i) = n
            \/ Pending(n)
            \/ \E k \in 1..Len(inbox) : inbox[k] = n

ChatInv == CoreInv /\ ChatTypeInv /\ StartInv /\ OrderInv /\ CoveredInv

-----------------------------------------------------------------------------
(* The multiplexer beside a chat.                                          *)

(* The parts of AdsClientProofs that do not look at the wire need no more  *)
(* than each other.                                                        *)
LEMMA CoreStep == CoreInv /\ [Next]_vars => CoreInv'
<1> SUFFICES ASSUME CoreInv, [Next]_vars PROVE CoreInv'
  OBVIOUS
<1>1. TypeOK' /\ ControlInv' /\ InboxInv' /\ FirstIsCluster' /\ OpenInv'
  BY TypeStep, ControlStep, InboxStep, FirstStep, OpenStep DEF CoreInv
<1>2. IssuedInv' /\ NonceInv' /\ QueueWithinCalls'
  BY IssuedStep, NonceStep, QueueStep
<1> QED
  BY <1>1, <1>2 DEF CoreInv

(* Beside a chat nothing happens that the multiplexer alone would not do.  *)
LEMMA BesideIsNext == Beside => Next /\ UNCHANGED chatVars
BY DEF Beside, Next, Application

(* A step of the chat disturbs them only through the inbox and the wire.   *)
LEMMA CoreKept ==
    ASSUME CoreInv, ChatKeeps, process' \in {"running", "aborted"},
           inbox' \in Seq(Nat), InboxInv',
           wire' \in Seq([url : Types, request : Requests])
    PROVE  CoreInv'
<1> USE DEF CoreInv, ChatKeeps, threadVars, apiVars, watchVars, shutdownVars
<1>1. ThreadTypeOK' /\ ApiTypeOK' /\ WatchTypeOK'
  <2>1. ThreadTypeOK'
    BY DEF TypeOK, ThreadTypeOK
  <2>2. ApiTypeOK' /\ WatchTypeOK'
    BY DEF TypeOK, ApiTypeOK, WatchTypeOK
  <2> QED
    BY <2>1, <2>2
<1>2. StreamTypeOK'
  BY DEF TypeOK, StreamTypeOK
<1>3. ControlInv' /\ FirstIsCluster' /\ OpenInv' /\ QueueWithinCalls'
  BY DEF ControlInv, FirstIsCluster, OpenInv, QueueWithinCalls
<1>4. IssuedInv' /\ NonceInv'
  BY DEF IssuedInv, NonceInv
<1> QED
  BY <1>1, <1>2, <1>3, <1>4 DEF TypeOK

(* The wire after a Write of the chat.                                     *)
LEMMA ChatWrite ==
    ASSUME CoreInv, NEW request \in Requests, Write(Cluster, request)
    PROVE  /\ process' \in {"running", "aborted"}
           /\ wire' \in Seq([url : Types, request : Requests])
           /\ Len(wire) \in Nat
           /\ stream = "open" /\ ~writesDone =>
                /\ Len(wire') = Len(wire) + 1
                /\ \A i \in 1..Len(wire) : wire'[i] = wire[i]
                /\ wire'[Len(wire) + 1].request = request
           /\ ~(stream = "open" /\ ~writesDone) => wire' = wire
<1> DEFINE sent == [url |-> Cluster, request |-> request]
<1>1. sent \in [url : Types, request : Requests]
  BY TypesAssumption
<1>2. wire \in Seq([url : Types, request : Requests]) /\ Len(wire) \in Nat
  BY LenProperties DEF CoreInv, TypeOK, StreamTypeOK
<1>3. process' \in {"running", "aborted"}
  BY DEF Write, AfterWritesDone
<1>4. CASE stream = "open" /\ ~writesDone
  <2>1. wire' = Append(wire, sent)
    BY <1>4 DEF Write
  <2> HIDE DEF sent
  <2>2. /\ wire' \in Seq([url : Types, request : Requests])
        /\ Len(wire') = Len(wire) + 1 /\ wire'[Len(wire) + 1] = sent
        /\ \A i \in 1..Len(wire) : wire'[i] = wire[i]
    BY <2>1, <1>1, <1>2, AppendProperties
  <2> QED
    BY <1>2, <1>3, <1>4, <2>2 DEF sent
<1>5. CASE ~(stream = "open" /\ ~writesDone)
  BY <1>2, <1>3, <1>5 DEF Write
<1> QED
  BY <1>4, <1>5

(* The requests that a chat writes.                                        *)
FirstRequest == [discoveryRequest_ EXCEPT !.version_info = NoVersion,
                                          !.node = TRUE, !.type_url = TRUE]

LEMMA ChatRequests ==
    ASSUME ChatTypeInv
    PROVE  /\ FirstRequest \in Requests /\ Answer \in Requests
           /\ Answer.response_nonce = nonce_ /\ Answer.version_info = version_info_
BY DEF ChatTypeInv, FirstRequest, Answer, Requests

(* Each step of a chat keeps the core and the types of the chat.           *)
LEMMA ChatStepCore ==
    ASSUME CoreInv, ChatTypeInv, StartChat \/ ChatStep
    PROVE  CoreInv' /\ ChatTypeInv'
<1>0. /\ inbox \in Seq(Nat) /\ wire \in Seq([url : Types, request : Requests])
      /\ process \in {"running", "aborted", "undefined", "freed"}
  BY DEF CoreInv, TypeOK, StreamTypeOK, ThreadTypeOK
<1>1. CASE StartChat
  <2>1. ChatKeeps /\ inbox' = inbox /\ pc = "idle" /\ pc' = pc
    BY <1>1 DEF StartChat, ChatKeeps, AppIdle, threadVars
  <2>2. InboxInv'
    BY <2>1 DEF CoreInv, InboxInv, ChatKeeps, apiVars
  <2>3. discoveryRequest_' = FirstRequest /\ discoveryRequest_' \in Requests
    BY <1>1, ChatRequests DEF StartChat, FirstRequest
  <2>4. /\ process' \in {"running", "aborted"}
        /\ wire' \in Seq([url : Types, request : Requests])
    BY <1>0, <1>1, <2>3, ChatWrite DEF StartChat
  <2>5. CoreInv'
    BY <1>0, <2>1, <2>2, <2>4, CoreKept
  <2>6. ChatTypeInv'
    BY <1>1, <2>1, <2>3 DEF StartChat, ChatTypeInv
  <2> QED
    BY <2>5, <2>6
<1>2. CASE ChatRead
  <2>1. ChatKeeps /\ wire' = wire /\ inbox # <<>> /\ inbox' = Tail(inbox)
    BY <1>2 DEF ChatRead
  <2>2. process' \in {"running", "aborted"}
    BY <1>2 DEF ChatRead, Running
  <2>3. /\ Head(inbox) \in 1..Len(issued) /\ issued[Head(inbox)] \in Responses
        /\ inbox' \in Seq(Nat) /\ Len(inbox') = Len(inbox) - 1
        /\ \A i \in 1..Len(inbox') : inbox'[i] = inbox[i + 1]
        /\ Len(inbox) \in Nat /\ Len(issued) \in Nat
    BY <2>1, HeadOfInbox, LenProperties DEF CoreInv, TypeOK, StreamTypeOK
  <2>4. InboxInv'
    <3>1. UNCHANGED <<stream, streams, issued, request_>>
      BY <2>1 DEF ChatKeeps, apiVars
    <3>2. stream # "none"
      BY <2>1 DEF CoreInv, InboxInv
    <3>3. \A i \in 1..Len(inbox') : i + 1 \in 1..Len(inbox)
      BY <2>3
    <3>4. \A i \in 1..Len(inbox') : /\ inbox'[i] \in 1..Len(issued)
                                    /\ issued[inbox'[i]].stream = streams
      BY <2>3, <3>3 DEF CoreInv, InboxInv
    <3>5. \A i, j \in 1..Len(inbox') : i < j => inbox'[i] < inbox'[j]
      <4> TAKE i, j \in 1..Len(inbox')
      <4>1. i < j => i + 1 < j + 1
        BY <2>3
      <4> QED
        BY <2>3, <3>3, <4>1 DEF CoreInv, InboxInv
    <3>6. \A i \in 1..Len(inbox'), t \in Types : request_[t].response_nonce < inbox'[i]
      BY <2>3, <3>3 DEF CoreInv, InboxInv
    <3> QED
      BY <3>1, <3>2, <3>4, <3>5, <3>6 DEF InboxInv
  <2>5. CoreInv'
    BY <1>0, <2>3, <2>1, <2>2, <2>4, CoreKept
  <2>6. /\ nonce_' \in Nat /\ version_info_' \in Versions
        /\ chat' = "continue" /\ chat # "no"
        /\ UNCHANGED <<discoveryRequest_, pc>>
    BY <1>2, <2>3 DEF ChatRead, Responses, ChatKeeps, threadVars
  <2>7. ChatTypeInv'
    BY <2>6 DEF ChatTypeInv
  <2> QED
    BY <2>5, <2>7
<1>3. CASE continueChat
  <2>1. ChatKeeps /\ inbox' = inbox /\ chat # "no" /\ pc' = pc
    BY <1>3 DEF continueChat, ChatKeeps, threadVars
  <2>2. InboxInv'
    BY <2>1 DEF CoreInv, InboxInv, ChatKeeps, apiVars
  <2>3. /\ process' \in {"running", "aborted"}
        /\ wire' \in Seq([url : Types, request : Requests])
    BY <1>3, ChatRequests, ChatWrite DEF continueChat
  <2>4. CoreInv'
    BY <1>0, <2>3, <2>1, <2>2, CoreKept
  <2>5. ChatTypeInv'
    BY <1>3, <2>1, ChatRequests DEF continueChat, ChatTypeInv
  <2> QED
    BY <2>4, <2>5
<1>4. CASE ChatEnds
  <2>1. ChatKeeps /\ inbox' = inbox /\ wire' = wire
    BY <1>4 DEF ChatEnds
  <2>2. InboxInv' /\ process' \in {"running", "aborted"}
    BY <1>4, <2>1 DEF ChatEnds, Running, CoreInv, InboxInv, ChatKeeps, apiVars
  <2>3. CoreInv'
    BY <1>0, <2>1, <2>2, CoreKept
  <2>4. ChatTypeInv'
    BY <1>4 DEF ChatEnds, ChatTypeInv
  <2> QED
    BY <2>3, <2>4
<1> QED
  BY <1>1, <1>2, <1>3, <1>4 DEF ChatStep

-----------------------------------------------------------------------------
(* What the chat's stream sees.                                            *)

(* The multiplexer and the server come to such a state by a new stream, or *)
(* are in one, where the server may send one more response.                *)
LEMMA BesideEffect ==
    ASSUME CoreInv, Beside, Chatting'
    PROVE  /\ UNCHANGED chatVars
           /\ \/ /\ chat = "no" /\ wire' = <<>> /\ inbox' = <<>>
                 /\ streams' = streams + 1 /\ issued' = issued
              \/ /\ Chatting /\ wire' = wire /\ streams' = streams
                 /\ inbox' = Append(inbox, Len(issued) + 1)
                 /\ \E response \in Responses : issued' = Append(issued, response)
              \/ Chatting /\ UNCHANGED <<wire, inbox, issued, streams>>
<1> USE DEF Chatting, threadVars, apiVars, watchVars, streamVars, shutdownVars
<1>0. UNCHANGED chatVars
  BY DEF Beside
<1>type. /\ depth \in Nat /\ (pc = "read" => depth > 0)
         /\ (pc \in {"idle", "established", "update"} => depth = 0)
  BY DEF CoreInv, TypeOK, ThreadTypeOK, ControlInv
<1>1. CASE WriteRequest \/ OnDiscoveryResponse
  <2>1. CASE WriteRequest
    BY <2>1 DEF WriteRequest, CoreInv, ControlInv
  <2>2. CASE OnDiscoveryResponse
    BY <1>type, <2>2 DEF OnDiscoveryResponse, queueDiscoveryRequest
  <2> QED
    BY <1>1, <2>1, <2>2
<1>2. CASE DrainRequests \/ ReadEnds \/ PopRequest \/ EstablishedLoop \/ FinishUpdate
  <2>1. UNCHANGED streamVars
    BY <1>2, Zenon DEF DrainRequests, ReadEnds, PopRequest, EstablishedLoop, FinishUpdate
  <2>2. depth = 0 \/ (depth = 1 /\ pc # "read")
    <3>1. CASE DrainRequests
      BY <1>type, <3>1 DEF DrainRequests
    <3>2. CASE ReadEnds
      BY <2>1, <3>2 DEF ReadEnds
    <3>3. CASE PopRequest
      BY <3>3 DEF PopRequest
    <3>4. CASE EstablishedLoop \/ FinishUpdate
      BY <1>type, <3>4 DEF EstablishedLoop, FinishUpdate
    <3> QED
      BY <1>2, <3>1, <3>2, <3>3, <3>4
  <2> QED
    BY <1>0, <2>1, <2>2
<1>3. CASE chat = "no" /\ OnStreamEstablished
  BY <1>0, <1>3 DEF OnStreamEstablished
<1>4. ASSUME NEW w \in Watchers, NEW names \in SUBSET Names,
             AddWatch(w, names) \/ UpdateWatch(w, names) \/ DestroyWatch(w)
      PROVE  Chatting /\ UNCHANGED <<wire, inbox, issued, streams>>
  <2>1. UNCHANGED streamVars
    BY <1>4, Zenon DEF AddWatch, UpdateWatch, DestroyWatch
  <2>2. depth = 0
    BY <1>type, <1>4 DEF AddWatch, UpdateWatch, DestroyWatch, AppIdle
  <2> QED
    BY <2>1, <2>2
<1>5. CASE Shutdown \/ ServerEnd
  BY <1>5 DEF Shutdown, ServerEnd
<1>8. CASE ShutdownStep
  BY <1>0, <1>8 DEF ShutdownStep, ShutdownFinish, ShutdownSet
<1>6. ASSUME NEW url \in Types, NEW version \in Versions, NEW empty \in BOOLEAN,
             ServerPush(url, version, empty)
      PROVE  /\ Chatting /\ wire' = wire /\ streams' = streams
             /\ inbox' = Append(inbox, Len(issued) + 1)
             /\ \E response \in Responses : issued' = Append(issued, response)
  <2>1. [type_url |-> url, version_info |-> version, empty |-> empty,
         stream |-> streams] \in Responses
    BY DEF Responses, CoreInv, TypeOK, StreamTypeOK
  <2> QED
    BY <1>6, <2>1 DEF ServerPush
<1>7. CASE UNCHANGED vars
  BY <1>0, <1>7 DEF vars
<1> QED
  BY <1>0, <1>1, <1>2, <1>3, <1>4, <1>5, <1>6, <1>7, <1>8
     DEF Beside, ClientStep, Application, Server, Terminated

(* The lengths are numbers, and so are the nonces.                         *)
LEMMA Numbers ==
    ASSUME CoreInv
    PROVE  /\ Len(wire) \in Nat /\ Len(inbox) \in Nat /\ Len(issued) \in Nat
           /\ \A i \in 1..Len(inbox) : inbox[i] \in 1..Len(issued)
           /\ \A n \in 1..Len(issued) : issued[n].stream \in Nat
           /\ streams \in Nat
<1>1. TypeOK /\ InboxInv
  BY DEF CoreInv
<1> QED
  BY <1>1, LenProperties, IssuedStreams DEF TypeOK, StreamTypeOK, InboxInv

(* A stream starts without requests and without responses.                 *)
LEMMA NewStream ==
    ASSUME CoreInv, chat' = "no", wire' = <<>>, inbox' = <<>>,
           streams' = streams + 1, issued' = issued
    PROVE  StartInv' /\ OrderInv' /\ CoveredInv'
<1>1. Len(wire') = 0
  BY EmptySeq
<1>2. \A n \in 1..Len(issued) : issued[n].stream # streams'
  BY Numbers DEF CoreInv, IssuedInv
<1> QED
  BY <1>1, <1>2 DEF StartInv, OrderInv, CoveredInv

(* One more response comes to the end of the inbox.                        *)
LEMMA OneMore ==
    ASSUME ChatInv, UNCHANGED chatVars, Chatting, wire' = wire, streams' = streams,
           inbox' = Append(inbox, Len(issued) + 1),
           NEW response \in Responses, issued' = Append(issued, response)
    PROVE  StartInv' /\ OrderInv' /\ CoveredInv'
<1>1. /\ Len(wire) \in Nat /\ Len(inbox) \in Nat /\ Len(issued) \in Nat
      /\ \A i \in 1..Len(inbox) : inbox[i] \in 1..Len(issued)
  BY Numbers DEF ChatInv
<1>2. /\ Len(inbox') = Len(inbox) + 1 /\ inbox'[Len(inbox) + 1] = Len(issued) + 1
      /\ \A k \in 1..Len(inbox) : inbox'[k] = inbox[k]
      /\ Len(issued') = Len(issued) + 1
      /\ \A n \in 1..Len(issued) : issued'[n] = issued[n]
  BY <1>1, AppendProperties DEF ChatInv, CoreInv, TypeOK, StreamTypeOK
<1>3. UNCHANGED <<chat, nonce_, version_info_>>
  BY DEF chatVars
<1>4. StartInv'
  BY <1>3 DEF ChatInv, StartInv, Chatting
<1>5. \A k \in 1..Len(inbox') : \/ k \in 1..Len(inbox) /\ inbox'[k] = inbox[k]
                                \/ inbox'[k] = Len(issued) + 1
  BY <1>1, <1>2
<1>6. \A i \in 2..Len(wire) :
        /\ Nonce(i)' = Nonce(i) /\ Nonce(i) \in 1..Len(issued')
        /\ issued'[Nonce(i)].stream = streams
        /\ wire[i].request.version_info = issued'[Nonce(i)].version_info
        /\ \A j \in 2..Len(wire) : i < j => Nonce(i) < Nonce(j)
        /\ \A k \in 1..Len(inbox') : Nonce(i) < inbox'[k]
        /\ chat = "continue" => Nonce(i) < nonce_
  BY <1>1, <1>2, <1>5 DEF ChatInv, OrderInv, Chatting, Nonce
<1>7. chat = "continue" =>
        /\ nonce_ \in 1..Len(issued') /\ issued'[nonce_].stream = streams
        /\ version_info_ = issued'[nonce_].version_info
        /\ \A k \in 1..Len(inbox') : nonce_ < inbox'[k]
  BY <1>1, <1>2, <1>5 DEF ChatInv, OrderInv, Chatting
<1>8. OrderInv'
  BY <1>3, <1>6, <1>7 DEF OrderInv
<1>9. CoveredInv'
  <2> SUFFICES ASSUME NEW n \in 1..Len(issued'), issued'[n].stream = streams
               PROVE  \/ \E i \in 2..Len(wire) : Nonce(i) = n
                      \/ Pending(n)
                      \/ \E k \in 1..Len(inbox') : inbox'[k] = n
    BY <1>3, <1>6 DEF CoveredInv, Pending
  <2>1. CASE n = Len(issued) + 1
    <3>1. Len(inbox) + 1 \in 1..Len(inbox')
      BY <1>1, <1>2
    <3> QED
      BY <2>1, <1>2, <3>1
  <2>2. CASE n \in 1..Len(issued)
    <3>1. \A k \in 1..Len(inbox) : k \in 1..Len(inbox')
      BY <1>1, <1>2
    <3> QED
      BY <1>2, <2>2, <3>1 DEF ChatInv, CoveredInv, Chatting
  <2> QED
    BY <1>1, <1>2, <2>1, <2>2
<1> QED
  BY <1>4, <1>8, <1>9

(* The first request of a chat.                                            *)
LEMMA Started ==
    ASSUME ChatInv, Chatting, StartChat
    PROVE  StartInv' /\ OrderInv' /\ CoveredInv'
<1>1. chat = "no" /\ wire = <<>> /\ Len(wire) = 0
  BY EmptySeq DEF ChatInv, StartInv, Chatting, StartChat
<1>2. discoveryRequest_' \in Requests
  BY ChatRequests DEF ChatInv, StartChat, FirstRequest
<1>3. chat' = "read" /\ Write(Cluster, discoveryRequest_')
  BY DEF StartChat, Chatting
<1>4. Len(wire') = 1
  BY <1>1, <1>2, <1>3, ChatWrite DEF ChatInv, Chatting
<1>5. UNCHANGED <<inbox, issued, streams>>
  BY DEF StartChat, ChatKeeps
<1>6. \A n \in 1..Len(issued) : issued[n].stream = streams
                                 => \E k \in 1..Len(inbox) : inbox[k] = n
  BY <1>1 DEF ChatInv, CoveredInv, Chatting, Pending
<1> QED
  BY <1>3, <1>4, <1>5, <1>6 DEF StartInv, OrderInv, CoveredInv

(* The chat reads the oldest response.                                     *)
LEMMA ResponseRead ==
    ASSUME ChatInv, Chatting, ChatRead
    PROVE  StartInv' /\ OrderInv' /\ CoveredInv'
<1>1. /\ Len(wire) \in Nat /\ Len(inbox) \in Nat /\ Len(issued) \in Nat
      /\ \A i \in 1..Len(inbox) : inbox[i] \in 1..Len(issued)
  BY Numbers DEF ChatInv
<1>2. /\ Head(inbox) = inbox[1] /\ 1 \in 1..Len(inbox)
      /\ Len(inbox') = Len(inbox) - 1
      /\ \A k \in 1..Len(inbox') : inbox'[k] = inbox[k + 1]
  BY HeadOfInbox DEF ChatRead, ChatInv, CoreInv, TypeOK
<1>3. /\ chat = "read" /\ chat' = "continue" /\ nonce_' = inbox[1]
      /\ version_info_' = issued[inbox[1]].version_info
      /\ UNCHANGED <<wire, issued, streams>>
  BY <1>2 DEF ChatRead, ChatKeeps
<1>4. \A k \in 1..Len(inbox') : k + 1 \in 1..Len(inbox) /\ 1 < k + 1
  BY <1>1, <1>2
<1>5. \A k \in 1..Len(inbox') : inbox[1] < inbox'[k]
  BY <1>2, <1>4 DEF ChatInv, CoreInv, InboxInv
<1>6. StartInv'
  BY <1>3 DEF ChatInv, StartInv, Chatting
<1>7. \A i \in 2..Len(wire) :
        /\ Nonce(i)' = Nonce(i) /\ Nonce(i) \in 1..Len(issued)
        /\ issued[Nonce(i)].stream = streams
        /\ wire[i].request.version_info = issued[Nonce(i)].version_info
        /\ \A j \in 2..Len(wire) : i < j => Nonce(i) < Nonce(j)
        /\ \A k \in 1..Len(inbox') : Nonce(i) < inbox'[k]
        /\ Nonce(i) < inbox[1]
  BY <1>2, <1>3, <1>4 DEF ChatInv, OrderInv, Chatting, Nonce
<1>8. issued[inbox[1]].stream = streams
  BY <1>2 DEF ChatInv, CoreInv, InboxInv
<1>9. OrderInv'
  BY <1>1, <1>2, <1>3, <1>5, <1>7, <1>8 DEF OrderInv
<1>10. CoveredInv'
  <2> SUFFICES ASSUME NEW n \in 1..Len(issued), issued[n].stream = streams
               PROVE  \/ \E i \in 2..Len(wire) : Nonce(i) = n
                      \/ n = inbox[1]
                      \/ \E k \in 1..Len(inbox') : inbox'[k] = n
    BY <1>3, <1>7 DEF CoveredInv, Pending
  <2>1. CASE \E i \in 2..Len(wire) : Nonce(i) = n
    BY <2>1
  <2>2. ASSUME NEW k \in 1..Len(inbox), inbox[k] = n
        PROVE  n = inbox[1] \/ \E l \in 1..Len(inbox') : inbox'[l] = n
    <3>1. CASE k = 1
      BY <2>2, <3>1
    <3>2. CASE k # 1
      <4>1. k - 1 \in 1..Len(inbox') /\ inbox'[k - 1] = inbox[k]
        BY <1>1, <1>2, <3>2
      <4> QED
        BY <2>2, <4>1
    <3> QED
      BY <3>1, <3>2
  <2> QED
    BY <1>3, <2>1, <2>2 DEF ChatInv, CoveredInv, Chatting, Pending
<1> QED
  BY <1>6, <1>9, <1>10

(* continueChat answers the response that was read.                        *)
LEMMA ResponseAnswered ==
    ASSUME ChatInv, Chatting, continueChat
    PROVE  StartInv' /\ OrderInv' /\ CoveredInv'
<1>1. /\ Len(wire) \in Nat /\ Len(inbox) \in Nat /\ Len(issued) \in Nat
      /\ Len(wire) >= 1
  BY Numbers DEF ChatInv, StartInv, Chatting, continueChat
<1>2. /\ Answer \in Requests /\ Answer.response_nonce = nonce_
      /\ Answer.version_info = version_info_
  BY ChatRequests DEF ChatInv
<1>3. /\ chat = "continue" /\ chat' = "read"
      /\ UNCHANGED <<inbox, issued, streams, nonce_>>
  BY DEF continueChat, ChatKeeps
<1>4. /\ Len(wire') = Len(wire) + 1 /\ wire'[Len(wire) + 1].request = Answer
      /\ \A i \in 1..Len(wire) : wire'[i] = wire[i]
  BY <1>2, ChatWrite DEF ChatInv, Chatting, continueChat
<1>5. \A i \in 2..Len(wire') :
        \/ /\ i \in 2..Len(wire) /\ wire'[i] = wire[i] /\ Nonce(i)' = Nonce(i)
        \/ /\ i = Len(wire) + 1 /\ Nonce(i)' = nonce_
           /\ wire'[i].request.version_info = version_info_
  BY <1>1, <1>2, <1>4 DEF Nonce
<1>6. /\ nonce_ \in 1..Len(issued) /\ issued[nonce_].stream = streams
      /\ version_info_ = issued[nonce_].version_info
      /\ \A k \in 1..Len(inbox) : nonce_ < inbox[k]
  BY <1>3 DEF ChatInv, OrderInv, Chatting
<1>7. \A i \in 2..Len(wire) :
        /\ Nonce(i) \in 1..Len(issued) /\ issued[Nonce(i)].stream = streams
        /\ wire[i].request.version_info = issued[Nonce(i)].version_info
        /\ \A j \in 2..Len(wire) : i < j => Nonce(i) < Nonce(j)
        /\ \A k \in 1..Len(inbox) : Nonce(i) < inbox[k]
        /\ Nonce(i) < nonce_
  BY <1>3 DEF ChatInv, OrderInv, Chatting
<1>8. StartInv'
  BY <1>1, <1>3, <1>4 DEF StartInv
<1>9. \A i, j \in 2..Len(wire') : i < j => Nonce(i)' < Nonce(j)'
  <2> SUFFICES ASSUME NEW i \in 2..Len(wire'), NEW j \in 2..Len(wire'), i < j
               PROVE  Nonce(i)' < Nonce(j)'
    OBVIOUS
  <2>1. i \in 2..Len(wire) /\ Nonce(i)' = Nonce(i)
    BY <1>1, <1>4, <1>5
  <2> QED
    BY <1>5, <1>7, <2>1
<1>10. OrderInv'
  BY <1>3, <1>5, <1>6, <1>7, <1>9 DEF OrderInv
<1>11. CoveredInv'
  <2> SUFFICES ASSUME NEW n \in 1..Len(issued), issued[n].stream = streams
               PROVE  \/ \E i \in 2..Len(wire') : Nonce(i)' = n
                      \/ \E k \in 1..Len(inbox) : inbox[k] = n
    BY <1>3 DEF CoveredInv
  <2>1. \A i \in 2..Len(wire) : i \in 2..Len(wire') /\ Nonce(i)' = Nonce(i)
    BY <1>1, <1>4 DEF Nonce
  <2>2. \E i \in 2..Len(wire') : Nonce(i)' = nonce_
    BY <1>1, <1>2, <1>4 DEF Nonce
  <2> QED
    BY <2>1, <2>2 DEF ChatInv, CoveredInv, Chatting, Pending
<1> QED
  BY <1>8, <1>10, <1>11

-----------------------------------------------------------------------------
(* The chat as a whole.                                                    *)

LEMMA ChatInitInv == ChatInit => ChatInv
<1> SUFFICES ASSUME ChatInit PROVE ChatInv
  OBVIOUS
<1>1. CoreInv /\ stream # "open"
  BY InitInv DEF ChatInit, Init, IndInv
<1>2. ChatTypeInv
  BY DEF ChatInit, ChatTypeInv, EmptyRequest, Requests
<1> QED
  BY <1>1, <1>2 DEF ChatInv, StartInv, OrderInv, CoveredInv, Chatting

(* One step per action of the chat, and one for all that is beside it.     *)
LEMMA ChatStepInv == ChatInv /\ [ChatNext]_allVars => ChatInv'
<1> SUFFICES ASSUME ChatInv, [ChatNext]_allVars PROVE ChatInv'
  OBVIOUS
<1>1. CASE StartChat \/ ChatStep
  <2>1. CoreInv' /\ ChatTypeInv'
    BY <1>1, ChatStepCore DEF ChatInv
  <2>2. ~Chatting' => StartInv' /\ OrderInv' /\ CoveredInv'
    BY DEF Chatting, StartInv, OrderInv, CoveredInv
  <2>3. UNCHANGED <<stream, writesDone>> /\ UNCHANGED <<depth, pc>>
    BY <1>1, Zenon DEF ChatStep, StartChat, ChatRead, continueChat, ChatEnds, ChatKeeps,
       threadVars
  <2>4. Chatting' => Chatting /\ ~ChatEnds
    BY <2>3 DEF Chatting, ChatEnds
  <2>5. Chatting' => StartInv' /\ OrderInv' /\ CoveredInv'
    BY <1>1, <2>4, Started, ResponseRead, ResponseAnswered DEF ChatStep
  <2> QED
    BY <2>1, <2>2, <2>5 DEF ChatInv
<1>2. CASE Beside
  <2>1. CoreInv'
    BY <1>2, BesideIsNext, CoreStep DEF ChatInv
  <2>2. ChatTypeInv'
    <3>1. UNCHANGED chatVars
      BY <1>2, BesideIsNext
    <3>2. chat # "no" => pc' = "idle"
      BY <1>2 DEF ChatInv, ChatTypeInv, Beside, ClientStep, DrainRequests, WriteRequest,
         OnDiscoveryResponse, ReadEnds, PopRequest, EstablishedLoop, FinishUpdate,
         Shutdown, ShutdownStep, ShutdownFinish, ShutdownSet, Server, ServerPush, ServerEnd, Terminated, vars,
         threadVars
    <3> QED
      BY <3>1, <3>2 DEF ChatInv, ChatTypeInv, chatVars
  <2>3. CASE ~Chatting'
    <3>1. StartInv' /\ OrderInv' /\ CoveredInv'
      BY <2>3 DEF Chatting, StartInv, OrderInv, CoveredInv
    <3> QED
      BY <2>1, <2>2, <3>1 DEF ChatInv
  <2>4. CASE Chatting'
    <3>1. CASE /\ chat = "no" /\ wire' = <<>> /\ inbox' = <<>>
               /\ streams' = streams + 1 /\ issued' = issued
      <4>1. chat' = "no"
        BY <1>2, <3>1, BesideIsNext DEF chatVars
      <4> QED
        BY <2>1, <2>2, <3>1, <4>1, NewStream DEF ChatInv
    <3>2. CASE /\ Chatting /\ wire' = wire /\ streams' = streams
               /\ inbox' = Append(inbox, Len(issued) + 1)
               /\ \E response \in Responses : issued' = Append(issued, response)
      <4>1. UNCHANGED chatVars
        BY <1>2, BesideIsNext
      <4> QED
        BY <2>1, <2>2, <3>2, <4>1, OneMore DEF ChatInv
    <3>3. CASE Chatting /\ UNCHANGED <<wire, inbox, issued, streams>>
      <4>1. UNCHANGED <<chat, nonce_, version_info_>>
        BY <1>2, BesideIsNext DEF chatVars
      <4>2. StartInv' /\ OrderInv' /\ CoveredInv'
        BY <3>3, <4>1 DEF ChatInv, StartInv, OrderInv, CoveredInv, Chatting, Nonce, Pending
      <4> QED
        BY <2>1, <2>2, <4>2 DEF ChatInv
    <3> QED
      BY <1>2, <2>4, <3>1, <3>2, <3>3, BesideEffect DEF ChatInv
  <2> QED
    BY <2>3, <2>4
<1>3. CASE UNCHANGED allVars
  <2>1. CoreInv'
    BY <1>3, CoreStep DEF ChatInv, allVars
  <2>2. ChatTypeInv' /\ StartInv' /\ OrderInv' /\ CoveredInv'
    BY <1>3 DEF ChatInv, ChatTypeInv, StartInv, OrderInv, CoveredInv, Chatting, Nonce,
       Pending, allVars, chatVars, vars, threadVars, streamVars, shutdownVars
  <2> QED
    BY <2>1, <2>2 DEF ChatInv
<1> QED
  BY <1>1, <1>2, <1>3 DEF ChatNext

(* ChatInv is an inductive invariant of AdsChat.                           *)
THEOREM ChatInvariance == ChatSpec => []ChatInv
BY ChatInitInv, ChatStepInv, PTL DEF ChatSpec

(* A chat that reaches the server does so after shutdown() only: as long   *)
(* as the stream is open onStreamEstablished has not returned without it.  *)
THEOREM HeardOnlyAfterShutdown == ChatSpec => ChatOnlyAfterShutdown
<1>1. ChatInv /\ [ChatNext]_allVars
        => [chat' # "no" /\ wire' # wire => shutdown_]_allVars
  <2> SUFFICES ASSUME ChatInv, [ChatNext]_allVars, chat' # "no", wire' # wire
               PROVE  shutdown_
    OBVIOUS
  <2>1. CASE StartChat \/ continueChat
    <3>1. pc = "idle" /\ stream = "open"
      BY <2>1 DEF StartChat, continueChat, AppIdle, Write, ChatInv, ChatTypeInv
    <3> QED
      BY <3>1 DEF ChatInv, CoreInv, OpenInv
  <2>2. CASE ChatRead \/ ChatEnds
    BY <2>2 DEF ChatRead, ChatEnds
  <2>3. CASE Beside
    <3>1. chat # "no" /\ pc = "idle"
      BY <2>3 DEF Beside, chatVars, ChatInv, ChatTypeInv
    <3> QED
      BY <2>3, <3>1 DEF Beside, ClientStep, DrainRequests, WriteRequest,
         OnDiscoveryResponse, ReadEnds, PopRequest, EstablishedLoop, FinishUpdate,
         Shutdown, ShutdownStep, ShutdownFinish, ShutdownSet, Server, ServerPush, ServerEnd, Terminated, vars,
         streamVars
  <2> QED
    BY <2>2, <2>1, <2>3 DEF ChatNext, ChatStep, allVars, vars, streamVars
<1> QED
  BY ChatInvariance, <1>1, PTL DEF ChatSpec, ChatOnlyAfterShutdown

(* The positions of Heard: first the requests after the first, then the    *)
(* responses in the inbox.                                                 *)
LEMMA HeardPositions ==
    ASSUME ChatInv, Chatting, chat = "read"
    PROVE  /\ Len(wire) \in Nat \ {0} /\ Len(inbox) \in Nat
           /\ DOMAIN Answered = 1..Len(wire) - 1
           /\ \A i \in 1..Len(wire) - 1 : i + 1 \in 2..Len(wire)
                                          /\ Answered[i] = Nonce(i + 1)
           /\ DOMAIN Heard = 1..(Len(wire) - 1 + Len(inbox))
           /\ \A i \in 1..Len(wire) - 1 : Heard[i] = Nonce(i + 1)
           /\ \A k \in 1..Len(inbox) : Heard[Len(wire) - 1 + k] = inbox[k]
<1>1. Len(wire) \in Nat \ {0} /\ Len(inbox) \in Nat /\ inbox \in Seq(Nat)
  BY Numbers DEF ChatInv, StartInv, Chatting, CoreInv, TypeOK, StreamTypeOK
<1>2. \A i \in 1..Len(wire) - 1 : i + 1 \in 1..Len(wire) /\ i + 1 \in 2..Len(wire)
  BY <1>1
<1>3. Answered \in [1..Len(wire) - 1 -> Nat]
  BY <1>2, WireElement DEF Answered, ChatInv, CoreInv, TypeOK
<1>4. Len(wire) - 1 \in Nat
  BY <1>1
<1>5. Answered \in Seq(Nat) /\ Len(Answered) = Len(wire) - 1
  BY <1>3, <1>4, FunctionIsSeq
<1>6. \A i \in 1..Len(wire) - 1 : Answered[i] = Nonce(i + 1)
  BY DEF Answered, Nonce
<1>7. /\ DOMAIN Answered = 1..Len(wire) - 1
      /\ Heard \in Seq(Nat) /\ Len(Heard) = Len(wire) - 1 + Len(inbox)
      /\ \A i \in 1..(Len(Answered) + Len(inbox)) :
            Heard[i] = IF i <= Len(Answered) THEN Answered[i] ELSE inbox[i - Len(Answered)]
  BY <1>1, <1>3, <1>5, ConcatProperties DEF Heard
<1>8. DOMAIN Heard = 1..(Len(wire) - 1 + Len(inbox))
  BY <1>7, LenProperties
<1>9. \A i \in 1..Len(wire) - 1 : Heard[i] = Nonce(i + 1)
  <2> TAKE i \in 1..Len(wire) - 1
  <2>1. i \in 1..(Len(Answered) + Len(inbox)) /\ i <= Len(Answered)
    BY <1>1, <1>5
  <2>2. Heard[i] = Answered[i]
    BY <1>7, <2>1
  <2> QED
    BY <1>6, <2>2
<1>10. \A k \in 1..Len(inbox) : Heard[Len(wire) - 1 + k] = inbox[k]
  <2> TAKE k \in 1..Len(inbox)
  <2> DEFINE i == Len(wire) - 1 + k
  <2>1. /\ i \in 1..(Len(Answered) + Len(inbox)) /\ ~(i <= Len(Answered))
        /\ i - Len(Answered) = k
    BY <1>1, <1>5
  <2> HIDE DEF i
  <2>2. Heard[i] = inbox[i - Len(Answered)]
    BY <1>7, <2>1
  <2>3. Heard[i] = inbox[k]
    BY <2>1, <2>2
  <2> QED
    BY <2>3 DEF i
<1> QED
  BY <1>1, <1>2, <1>6, <1>7, <1>8, <1>9, <1>10

(* Every response of the stream is answered once and in order, or waits.   *)
THEOREM ChatAnswers == ChatSpec => []ChatAnswersAll
<1>1. ChatInv => ChatAnswersAll
  <2> SUFFICES ASSUME ChatInv, chat = "read", stream = "open", ~writesDone
               PROVE  /\ \A i, j \in DOMAIN Heard : i < j => Heard[i] < Heard[j]
                      /\ Range(Heard) = {n \in DOMAIN issued : issued[n].stream = streams}
                      /\ \A i \in DOMAIN Answered : wire[i + 1].request.version_info
                                                    = issued[Answered[i]].version_info
    BY DEF ChatAnswersAll
  <2>1. Chatting
    BY DEF Chatting, ChatInv, ChatTypeInv, CoreInv, ControlInv
  <2> DEFINE last == Len(wire) - 1
  <2>2. /\ last \in Nat /\ Len(inbox) \in Nat /\ DOMAIN Answered = 1..last
        /\ \A i \in 1..last : /\ i + 1 \in 2..Len(wire) /\ Answered[i] = Nonce(i + 1)
                              /\ Heard[i] = Nonce(i + 1)
        /\ DOMAIN Heard = 1..(last + Len(inbox))
        /\ \A k \in 1..Len(inbox) : Heard[last + k] = inbox[k]
    BY <2>1, HeardPositions
  <2>3. \A i \in 2..Len(wire) : i - 1 \in 1..last /\ Nonce(i) = Heard[i - 1]
    <3> TAKE i \in 2..Len(wire)
    <3>1. i - 1 \in 1..last /\ (i - 1) + 1 = i
      BY <2>1, HeardPositions
    <3> QED
      BY <2>2, <3>1
  <2> HIDE DEF last
  <2>4. \A i \in DOMAIN Heard : \/ i \in 1..last
                                \/ /\ i - last \in 1..Len(inbox) /\ i > last
                                   /\ Heard[i] = inbox[i - last]
    <3> TAKE i \in DOMAIN Heard
    <3>1. CASE i > last
      <4>1. i - last \in 1..Len(inbox) /\ last + (i - last) = i
        BY <2>2, <3>1
      <4> QED
        BY <2>2, <3>1, <4>1
    <3> QED
      BY <2>2, <3>1
  <2>5. \A i \in 2..Len(wire) :
          /\ Nonce(i) \in 1..Len(issued) /\ issued[Nonce(i)].stream = streams
          /\ wire[i].request.version_info = issued[Nonce(i)].version_info
          /\ \A j \in 2..Len(wire) : i < j => Nonce(i) < Nonce(j)
          /\ \A k \in 1..Len(inbox) : Nonce(i) < inbox[k]
    BY <2>1 DEF ChatInv, OrderInv, Chatting
  <2>6. \A k \in 1..Len(inbox) :
          /\ inbox[k] \in 1..Len(issued) /\ issued[inbox[k]].stream = streams
          /\ \A l \in 1..Len(inbox) : k < l => inbox[k] < inbox[l]
    BY DEF ChatInv, CoreInv, InboxInv
  <2>7. \A i, j \in DOMAIN Heard : i < j => Heard[i] < Heard[j]
    <3> SUFFICES ASSUME NEW i \in DOMAIN Heard, NEW j \in DOMAIN Heard, i < j
                 PROVE  Heard[i] < Heard[j]
      OBVIOUS
    <3>1. CASE i \in 1..last /\ j \in 1..last
      <4>1. i + 1 < j + 1
        BY <2>2, <3>1
      <4> QED
        BY <2>2, <2>5, <3>1, <4>1
    <3>2. CASE i \in 1..last /\ j > last
      <4>1. /\ Heard[i] = Nonce(i + 1) /\ i + 1 \in 2..Len(wire)
            /\ Heard[j] = inbox[j - last] /\ j - last \in 1..Len(inbox)
        BY <2>2, <2>4, <3>2
      <4> QED
        BY <2>5, <4>1
    <3>3. CASE i > last /\ j > last
      <4>1. /\ Heard[i] = inbox[i - last] /\ i - last \in 1..Len(inbox)
            /\ Heard[j] = inbox[j - last] /\ j - last \in 1..Len(inbox)
        BY <2>2, <2>4, <3>3
      <4>2. i - last < j - last
        BY <2>2, <3>3
      <4> QED
        BY <2>6, <4>1, <4>2
    <3> QED
      BY <2>2, <3>1, <3>2, <3>3
  <2>8. DOMAIN issued = 1..Len(issued)
    BY LenProperties DEF ChatInv, CoreInv, TypeOK, StreamTypeOK
  <2>9. \A i \in DOMAIN Heard : Heard[i] \in 1..Len(issued) /\ issued[Heard[i]].stream = streams
    <3> TAKE i \in DOMAIN Heard
    <3>1. CASE i \in 1..last
      BY <2>2, <2>5, <3>1
    <3>2. CASE i - last \in 1..Len(inbox) /\ Heard[i] = inbox[i - last]
      BY <2>6, <3>2
    <3> QED
      BY <2>4, <3>1, <3>2
  <2>10. ASSUME NEW n \in 1..Len(issued), issued[n].stream = streams
         PROVE  \E i \in DOMAIN Heard : Heard[i] = n
    <3>1. CASE \E i \in 2..Len(wire) : Nonce(i) = n
      <4>1. PICK i \in 2..Len(wire) : Nonce(i) = n
        BY <3>1
      <4>2. i - 1 \in DOMAIN Heard /\ Heard[i - 1] = n
        BY <2>2, <2>3, <4>1
      <4> QED
        BY <4>2
    <3>2. CASE \E k \in 1..Len(inbox) : inbox[k] = n
      <4>1. \A k \in 1..Len(inbox) : last + k \in DOMAIN Heard
        BY <2>2
      <4> QED
        BY <2>2, <3>2, <4>1
    <3> QED
      BY <2>1, <2>10, <3>1, <3>2 DEF ChatInv, CoveredInv, Chatting, Pending
  <2>11. Range(Heard) = {n \in DOMAIN issued : issued[n].stream = streams}
    BY <2>8, <2>9, <2>10 DEF Range
  <2>12. \A i \in DOMAIN Answered :
            wire[i + 1].request.version_info = issued[Answered[i]].version_info
    BY <2>2, <2>5
  <2> QED
    BY <2>7, <2>11, <2>12
<1> QED
  BY ChatInvariance, <1>1, PTL
=============================================================================
