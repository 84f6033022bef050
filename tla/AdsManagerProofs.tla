-------------------------- MODULE AdsManagerProofs --------------------------
(***************************************************************************)
(* For any number of responses of any types, of calls of init and of       *)
(* loggers: the properties of AdsManager.                                  *)
(*                                                                         *)
(* The argument is that a turn of startClient reads one response at most,  *)
(* so that while the stream is open turn k reads and acknowledges the k-th *)
(* response, whatever its type.                                            *)
(***************************************************************************)
EXTENDS AdsManager, SequenceTheorems, TLAPS

(* What init leaves behind, however often it was called.                   *)
LinkInv ==
    /\ asked \in [address : Addresses \cup {EnvAddress, Null},
                  id : NodeIds \cup {NoId, Null}, logger : Loggers \cup {Noop}]
    /\ IF instance = Null
         THEN /\ asked.address = Null /\ asked.id = Null
              /\ managerLogger = Null /\ asked.logger = Noop /\ subscribe_map = {}
         ELSE /\ asked.address # Null /\ asked.id # Null
              /\ instance = IstioLinkManager(asked.address, asked.id)
              /\ managerLogger = asked.logger /\ subscribe_map = Range(urlList)

(* Where startClient is.                                                   *)
ControlInv ==
    /\ pc = "idle" <=> stream = "none"
    /\ pc = "idle" => /\ index = 1 /\ response = 0
                      /\ inbox = <<>> /\ issued = <<>> /\ wire = <<>>
    /\ pc # "idle" => instance # Null

(* The request of the turn, and the logger its response will go to.        *)
RequestInv ==
    /\ pc \in {"receive", "ack"} => /\ request \in Requests
                                    /\ request.url = urlList[index]
                                    /\ request.id = LocalInfo(asked.id)
                                    /\ subscriptionLogger = asked.logger
    /\ response # 0 => subscriptionLogger = asked.logger

(* How many responses have been read, if none was lost.                    *)
Reads == IF pc \in {"idle", "subscribe", "receive"} THEN index - 1 ELSE index

(* The inbox goes on where the turns are; while the stream is open it has  *)
(* all the rest.  The response of a turn is the one of its number, or the  *)
(* empty one of a failed Read, and then the stream has ended.              *)
TurnInv ==
    /\ \A j \in 1..Len(inbox) : inbox[j] = Reads + j /\ inbox[j] <= Len(issued)
    /\ stream = "open" => Reads + Len(inbox) = Len(issued)
    /\ response <= Len(issued)
    /\ pc \in {"ack", "crashed"} => response \in {0, index}
    /\ pc = "ack" /\ stream = "open" => response = index
    /\ pc = "crashed" => response = index /\ issued[response] \in OtherTypes

(* Request i on the wire is the request of a turn or its acknowledgement,  *)
(* and the acknowledgement of turn k is that of response k.                *)
Placed(i) ==
    \E k \in 1..4 : /\ wire[i].url = urlList[k]
                    /\ \/ i = 2 * k - 1 /\ wire[i].nonce = 0
                       \/ i = 2 * k /\ wire[i].nonce = k /\ k <= Len(issued)

(* The wire has a request and an acknowledgement of each turn.             *)
WireInv ==
    /\ stream = "open" /\ pc = "subscribe" => Len(wire) = 2 * index - 2
    /\ stream = "open" /\ pc \in {"receive", "ack", "crashed"} => Len(wire) = 2 * index - 1
    /\ stream = "open" /\ pc = "done" => Len(wire) = 2 * index
    /\ \A i \in 1..Len(wire) : wire[i].id = LocalInfo(asked.id) /\ Placed(i)

(* What a subscription has handled was read, in that order, and is of its  *)
(* type.                                                                   *)
HandledInv ==
    \A t \in Range(urlList) :
        /\ \A i \in 1..Len(handled[t]) : /\ handled[t][i] \in 1..Len(issued)
                                         /\ handled[t][i] <= Reads
                                         /\ issued[handled[t][i]] = t
        /\ \A i, j \in 1..Len(handled[t]) : i < j => handled[t][i] < handled[t][j]

(* The subscription of its type has got response n.                        *)
HasHandled(n) ==
    /\ n \in 1..Len(issued) /\ issued[n] \in Range(urlList)
    /\ \E i \in 1..Len(handled[issued[n]]) : handled[issued[n]][i] = n

(* What was acknowledged was handled before, and so was what is next.      *)
AckInv ==
    /\ pc = "ack" /\ response # 0 => HasHandled(response)
    /\ \A i \in 1..Len(wire) : wire[i].nonce # 0 => HasHandled(wire[i].nonce)

IndInv == /\ TypeOK /\ LinkInv /\ ControlInv /\ RequestInv /\ TurnInv /\ WireInv
          /\ HandledInv /\ AckInv

-----------------------------------------------------------------------------
(* The operators the steps are made of.                                    *)

(* The four types, in the order of the turns.                              *)
LEMMA UrlFacts ==
    /\ DOMAIN urlList = 1..4 /\ Len(urlList) = 4
    /\ Range(urlList) = NewSubscriptions
    /\ \A k \in 1..4 : urlList[k] \in Range(urlList)
<1>1. DOMAIN urlList = 1..4 /\ Len(urlList) = 4
  BY DEF urlList
<1>2. /\ urlList[1] = Cluster /\ urlList[2] = Listener
      /\ urlList[3] = ClusterLoadAssignment /\ urlList[4] = RouteConfiguration
  BY DEF urlList
<1>3. Range(urlList) = {urlList[k] : k \in 1..4}
  BY <1>1 DEF Range
<1>4. 1..4 = {1, 2, 3, 4}
  OBVIOUS
<1> HIDE DEF urlList
<1> QED
  BY <1>1, <1>2, <1>3, <1>4 DEF NewSubscriptions

(* The subscription of a type makes a request of that type, without nonce. *)
LEMMA MakeFacts ==
    ASSUME NEW k \in 1..4, NEW id \in Ids
    PROVE  LET made == makeRequestDiscoveryService(urlList[k], id)
           IN  /\ made \in Requests /\ made.url = urlList[k] /\ made.id = id
               /\ made.nonce = 0
<1> DEFINE made == makeRequestDiscoveryService(urlList[k], id)
<1>1. urlList[k] \in Range(urlList)
  BY UrlFacts
<1>2. urlList[k] \in {Cluster, Listener, ClusterLoadAssignment, RouteConfiguration}
  BY <1>1, UrlFacts DEF NewSubscriptions
<1>3. \E names \in SUBSET {"outbound", "80"} : made = Request(urlList[k], names, id)
  BY <1>2 DEF makeRequestDiscoveryService, ClusterSubscription, ListenerSubscription,
              EndpointSubscription, RouteSubscription
<1> QED
  BY <1>1, <1>3 DEF Request, Requests

(* What Write leaves on the wire.                                          *)
LEMMA WriteFacts ==
    ASSUME wire \in Seq(Requests), NEW message \in Requests, Write(message)
    PROVE  /\ wire' \in Seq(Requests) /\ Len(wire) \in Nat
           /\ stream # "open" => wire' = wire
           /\ stream = "open" => /\ Len(wire') = Len(wire) + 1
                                 /\ \A i \in 1..Len(wire) : wire'[i] = wire[i]
                                 /\ wire'[Len(wire) + 1] = message
BY AppendProperties, LenProperties DEF Write

(* What a Read takes from the inbox.                                       *)
LEMMA InboxFacts ==
    ASSUME inbox \in Seq(Nat), inbox # <<>>
    PROVE  /\ Len(inbox) \in Nat /\ Len(inbox) >= 1 /\ Head(inbox) = inbox[1]
           /\ Tail(inbox) \in Seq(Nat) /\ Len(Tail(inbox)) = Len(inbox) - 1
           /\ \A j \in 1..Len(Tail(inbox)) : Tail(inbox)[j] = inbox[j + 1]
BY EmptySeq, HeadTailProperties, LenProperties

(* What the server adds to the responses.                                  *)
LEMMA PushFacts ==
    ASSUME TypeOK, NEW type \in Types, ServerPush(type)
    PROVE  /\ issued' \in Seq(Types) /\ inbox' \in Seq(Nat)
           /\ Len(issued) \in Nat /\ Len(issued') = Len(issued) + 1
           /\ \A n \in 1..Len(issued) : issued'[n] = issued[n]
           /\ Len(inbox) \in Nat /\ Len(inbox') = Len(inbox) + 1
           /\ \A j \in 1..Len(inbox) : inbox'[j] = inbox[j]
           /\ inbox'[Len(inbox) + 1] = Len(issued) + 1
<1>1. issued \in Seq(Types) /\ inbox \in Seq(Nat) /\ Len(issued) \in Nat
  BY LenProperties DEF TypeOK
<1>2. issued' = Append(issued, type) /\ inbox' = Append(inbox, Len(issued) + 1)
  BY DEF ServerPush
<1>3. Len(issued) + 1 \in Nat
  BY <1>1
<1> QED
  BY <1>1, <1>2, <1>3, AppendProperties, LenProperties

(* What the end of the stream leaves of the inbox.                         *)
LEMMA EndFacts ==
    ASSUME TypeOK, ServerEnd
    PROVE  /\ inbox' \in Seq(Nat) /\ Len(inbox) \in Nat /\ Len(inbox') \in Nat
           /\ Len(inbox') <= Len(inbox)
           /\ \A j \in 1..Len(inbox') : inbox'[j] = inbox[j]
<1>1. inbox \in Seq(Nat) /\ Len(inbox) \in Nat /\ inbox \in [1..Len(inbox) -> Nat]
  BY LenProperties DEF TypeOK
<1>2. PICK k \in 0..Len(inbox) : inbox' = SubSeq(inbox, 1, k)
  BY DEF ServerEnd
<1>3. \A i \in 1..k : inbox[i] \in Nat
  BY <1>1, <1>2
<1>4. /\ inbox' \in Seq(Nat) /\ Len(inbox') = k
      /\ \A j \in 1..k : inbox'[j] = inbox[1 + j - 1]
  BY <1>1, <1>2, <1>3, SubSeqProperties
<1> QED
  BY <1>1, <1>2, <1>4

(* The acknowledgement is the request of the turn but for the nonce.       *)
LEMMA AckFacts ==
    ASSUME request \in Requests, response \in Nat
    PROVE  Ack \in Requests /\ Ack.url = request.url /\ Ack.id = request.id
           /\ Ack.nonce = response
BY DEF Ack, Requests

-----------------------------------------------------------------------------
(* The steps.                                                              *)

(* Every step preserves type correctness.                                  *)
LEMMA TypeStep == IndInv /\ [Next]_vars => TypeOK'
<1> SUFFICES ASSUME IndInv, [Next]_vars PROVE TypeOK'
  OBVIOUS
<1> USE DEF IndInv, linkVars, clientVars, streamVars
<1>1. ASSUME NEW address \in Addresses \cup {EnvAddress}, NEW nodeId \in NodeIds \cup {NoId},
             NEW logger_ \in Loggers \cup {Null}, InitLink(address, nodeId, logger_)
      PROVE  TypeOK'
  <2>1. instance' \in Instances \cup {Null}
    BY <1>1 DEF InitLink, KeepInstance, IstioLinkManager, Instances, Ids, TypeOK
  <2>2. managerLogger' \in Loggers \cup {Noop, Null}
    BY <1>1 DEF InitLink, NewLogger, TypeOK
  <2>3. subscribe_map' \subseteq Range(urlList)
    BY <1>1, UrlFacts DEF InitLink, addSubscription, TypeOK
  <2> QED
    BY <1>1, <2>3, <2>1, <2>2 DEF InitLink, TypeOK
<1>2. CASE StartClient
  BY <1>2 DEF StartClient, startcall, TypeOK
<1>3. CASE InitSubscribe
  <2>1. CASE urlList[index] \notin subscribe_map
    BY <1>3, <2>1 DEF InitSubscribe, TypeOK
  <2>2. CASE urlList[index] \in subscribe_map
    <3>1. index \in 1..4 /\ instance.id \in Ids
      <4>1. instance # Null /\ instance \in Instances \cup {Null}
        BY <1>3 DEF InitSubscribe, ControlInv, TypeOK
      <4>2. instance.id \in Ids
        BY <4>1 DEF Instances
      <4> QED
        BY <4>2, UrlFacts DEF TypeOK
    <3>2. request' \in Requests
      BY <1>3, <2>2, <3>1, MakeFacts DEF InitSubscribe
    <3>3. wire' \in Seq(Requests)
      <4>1. wire \in Seq(Requests) /\ Write(request')
        BY <1>3, <2>2 DEF InitSubscribe, TypeOK
      <4> QED
        BY <3>2, <4>1, WriteFacts
    <3>4. subscriptionLogger' \in Loggers \cup {Noop, Null}
      BY <1>3, <2>2 DEF InitSubscribe, setLogger, TypeOK
    <3> QED
      BY <1>3, <2>2, <3>2, <3>3, <3>4 DEF InitSubscribe, TypeOK
  <2> QED
    BY <2>1, <2>2
<1>4. CASE ReceiveADS
  <2>1. CASE inbox = <<>>
    BY <1>4, <2>1 DEF ReceiveADS, ReadFails, TypeOK
  <2>2. CASE inbox # <<>>
    <3>1. response' \in Nat /\ inbox' \in Seq(Nat)
      BY <1>4, <2>2, HeadTailProperties DEF ReceiveADS, TypeOK
    <3>2. /\ handled' \in [Range(urlList) -> Seq(Nat)]
          /\ pc' \in {"ack", "crashed"}
      <4>1. CASE issued[Head(inbox)] \notin subscribe_map
        BY <1>4, <2>2, <4>1 DEF ReceiveADS, Dispatch, TypeOK
      <4>2. CASE issued[Head(inbox)] \in subscribe_map
        <5> DEFINE type == issued[Head(inbox)]
        <5>1. type \in Range(urlList) /\ handled[type] \in Seq(Nat)
          BY <4>2 DEF TypeOK
        <5>2. Append(handled[type], Head(inbox)) \in Seq(Nat)
          BY <2>2, <5>1, AppendProperties, HeadTailProperties DEF TypeOK
        <5>3. /\ pc' = "ack"
              /\ handled' = [handled EXCEPT ![type] = Append(handled[type], Head(inbox))]
          BY <1>4, <2>2, <4>2 DEF ReceiveADS, Dispatch
        <5> QED
          BY <5>2, <5>3 DEF TypeOK
      <4> QED
        BY <4>1, <4>2
    <3> QED
      BY <1>4, <3>1, <3>2 DEF ReceiveADS, TypeOK
  <2> QED
    BY <2>1, <2>2
<1>5. CASE SendACK
  <2>1. Ack \in Requests
    BY <1>5, AckFacts DEF SendACK, RequestInv, TypeOK
  <2>2. wire' \in Seq(Requests)
    BY <1>5, <2>1, WriteFacts DEF SendACK, TypeOK
  <2>3. index' \in DOMAIN urlList /\ pc' \in {"subscribe", "done"}
    BY <1>5, UrlFacts DEF SendACK, MoreTypes, TypeOK
  <2> QED
    BY <1>5, <2>3, <2>1, <2>2 DEF SendACK, TypeOK
<1>6. ASSUME NEW type \in Types, ServerPush(type) PROVE TypeOK'
  <2>1. issued' \in Seq(Types) /\ inbox' \in Seq(Nat)
    BY <1>6, PushFacts
  <2> QED
    BY <1>6, <2>1 DEF ServerPush, TypeOK
<1>7. CASE ServerEnd
  <2>1. inbox' \in Seq(Nat)
    BY <1>7, EndFacts
  <2> QED
    BY <1>7, <2>1 DEF ServerEnd, TypeOK
<1>8. CASE Terminated \/ UNCHANGED vars
  BY <1>8 DEF Terminated, vars, TypeOK
<1> QED
  BY <1>1, <1>2, <1>3, <1>4, <1>5, <1>6, <1>7, <1>8 DEF Next, ClientStep

(* init may be called again, and leaves what the first call has made.      *)
LEMMA LinkStep == IndInv /\ [Next]_vars => LinkInv'
<1> SUFFICES ASSUME IndInv, [Next]_vars PROVE LinkInv'
  OBVIOUS
<1>1. ASSUME NEW address \in Addresses \cup {EnvAddress}, NEW nodeId \in NodeIds \cup {NoId},
             NEW logger_ \in Loggers \cup {Null}, InitLink(address, nodeId, logger_)
      PROVE  LinkInv'
  <2>1. address # Null /\ nodeId # Null
    BY <1>1, AskedAssumption
  <2>2. subscribe_map' = Range(urlList)
    BY <1>1, UrlFacts DEF InitLink, addSubscription, IndInv, TypeOK
  <2>3. /\ asked'.address = IF asked.address = Null THEN address ELSE asked.address
        /\ asked'.id = IF asked.id = Null THEN nodeId ELSE asked.id
        /\ asked'.logger = IF logger_ = Null THEN asked.logger ELSE logger_
    BY <1>1 DEF InitLink
  <2>4. asked' \in [address : Addresses \cup {EnvAddress, Null},
                    id : NodeIds \cup {NoId, Null}, logger : Loggers \cup {Noop}]
    BY <1>1 DEF InitLink, IndInv, LinkInv
  <2>5. IstioLinkManager(address, nodeId) # Null
    BY <1>1, InstanceAssumption DEF IstioLinkManager, Instances, Ids
  <2>6. /\ instance' # Null
        /\ instance' = IstioLinkManager(asked'.address, asked'.id)
    BY <1>1, <2>3, <2>5 DEF InitLink, KeepInstance, IndInv, LinkInv
  <2>7. managerLogger' = asked'.logger
    BY <1>1, <2>3, LoggerAssumption DEF InitLink, NewLogger, IndInv, LinkInv
  <2> QED
    BY <2>4, <2>3, <2>2, <2>1, <2>6, <2>7 DEF LinkInv
<1>2. CASE UNCHANGED linkVars
  BY <1>2 DEF IndInv, LinkInv, linkVars
<1> QED
  BY <1>1, <1>2 DEF Next, ClientStep, StartClient, InitSubscribe, ReceiveADS, SendACK,
                    ServerPush, ServerEnd, Terminated, vars

(* The stream is opened by startClient, and init comes before it.          *)
LEMMA ControlStep == IndInv /\ [Next]_vars => ControlInv'
<1> SUFFICES ASSUME IndInv, [Next]_vars PROVE ControlInv'
  OBVIOUS
<1> USE DEF IndInv, ControlInv, linkVars, clientVars, streamVars
<1>1. ASSUME NEW address \in Addresses \cup {EnvAddress}, NEW nodeId \in NodeIds \cup {NoId},
             NEW logger_ \in Loggers \cup {Null}, InitLink(address, nodeId, logger_)
      PROVE  ControlInv'
  BY <1>1 DEF InitLink
<1>2. CASE StartClient
  BY <1>2 DEF StartClient, startcall
<1>3. CASE InitSubscribe
  BY <1>3 DEF InitSubscribe
<1>4. CASE ReceiveADS
  BY <1>4 DEF ReceiveADS, Dispatch, ReadFails
<1>5. CASE SendACK
  BY <1>5 DEF SendACK
<1>6. ASSUME NEW type \in Types, ServerPush(type) PROVE ControlInv'
  BY <1>6 DEF ServerPush
<1>7. CASE ServerEnd
  BY <1>7 DEF ServerEnd
<1>8. CASE Terminated \/ UNCHANGED vars
  BY <1>8 DEF Terminated, vars
<1> QED
  BY <1>1, <1>2, <1>3, <1>4, <1>5, <1>6, <1>7, <1>8 DEF Next, ClientStep

(* The request of a turn is of its type and of the node of the first init, *)
(* and its subscription has the logger of the manager.                     *)
LEMMA RequestStep == IndInv /\ [Next]_vars => RequestInv'
<1> SUFFICES ASSUME IndInv, [Next]_vars PROVE RequestInv'
  OBVIOUS
<1> USE DEF IndInv, RequestInv, linkVars, clientVars, streamVars
<1>1. ASSUME NEW address \in Addresses \cup {EnvAddress}, NEW nodeId \in NodeIds \cup {NoId},
             NEW logger_ \in Loggers \cup {Null}, InitLink(address, nodeId, logger_)
      PROVE  RequestInv'
  BY <1>1 DEF InitLink, ControlInv
<1>2. CASE StartClient
  BY <1>2 DEF StartClient
<1>3. CASE InitSubscribe
  <2>1. /\ instance # Null /\ instance = IstioLinkManager(asked.address, asked.id)
        /\ managerLogger = asked.logger /\ managerLogger # Null
        /\ subscribe_map = Range(urlList)
    BY <1>3, LoggerAssumption DEF InitSubscribe, ControlInv, LinkInv
  <2>2. index \in 1..4 /\ urlList[index] \in subscribe_map
    BY <2>1, UrlFacts DEF TypeOK
  <2>3. instance.id = LocalInfo(asked.id) /\ instance.id \in Ids
    BY <2>1 DEF IstioLinkManager, TypeOK, Instances
  <2>4. subscriptionLogger' = asked.logger
    BY <1>3, <2>1, <2>2 DEF InitSubscribe, setLogger
  <2>5. /\ request' \in Requests /\ request'.url = urlList[index]
        /\ request'.id = LocalInfo(asked.id)
    BY <1>3, <2>2, <2>3, MakeFacts DEF InitSubscribe
  <2> QED
    BY <1>3, <2>4, <2>5 DEF InitSubscribe
<1>4. CASE ReceiveADS
  BY <1>4 DEF ReceiveADS, Dispatch, ReadFails
<1>5. CASE SendACK
  BY <1>5 DEF SendACK
<1>6. ASSUME NEW type \in Types, ServerPush(type) PROVE RequestInv'
  BY <1>6 DEF ServerPush
<1>7. CASE ServerEnd
  BY <1>7 DEF ServerEnd
<1>8. CASE Terminated \/ UNCHANGED vars
  BY <1>8 DEF Terminated, vars
<1> QED
  BY <1>1, <1>2, <1>3, <1>4, <1>5, <1>6, <1>7, <1>8 DEF Next, ClientStep

(* A turn reads the next response, if there is one; only a response of a   *)
(* type without subscription ends the process.                             *)
LEMMA TurnStep == IndInv /\ [Next]_vars => TurnInv'
<1> SUFFICES ASSUME IndInv, [Next]_vars PROVE TurnInv'
  OBVIOUS
<1> USE DEF linkVars, clientVars, streamVars
<1>1. /\ TypeOK /\ LinkInv /\ ControlInv /\ TurnInv
      /\ index \in 1..4 /\ response \in Nat
      /\ Len(inbox) \in Nat /\ Len(issued) \in Nat
  BY UrlFacts, LenProperties DEF IndInv, TypeOK
<1>2. ASSUME NEW address \in Addresses \cup {EnvAddress}, NEW nodeId \in NodeIds \cup {NoId},
             NEW logger_ \in Loggers \cup {Null}, InitLink(address, nodeId, logger_)
      PROVE  TurnInv'
  BY <1>1, <1>2 DEF InitLink, TurnInv, Reads
<1>3. CASE StartClient
  BY <1>1, <1>3 DEF StartClient, startcall, ControlInv, TurnInv, Reads
<1>4. CASE InitSubscribe
  <2>1. urlList[index] \in subscribe_map
    BY <1>1, <1>4, UrlFacts DEF InitSubscribe, ControlInv, LinkInv
  <2> QED
    BY <1>1, <1>4, <2>1 DEF InitSubscribe, TurnInv, Reads
<1>5. CASE ReceiveADS
  <2>1. CASE inbox = <<>>
    <3>1. /\ stream = "ended" /\ response' = 0 /\ pc' = "ack" /\ pc = "receive"
          /\ UNCHANGED <<inbox, issued, index, stream>>
      BY <1>5, <2>1 DEF ReceiveADS, ReadFails
    <3>2. Len(inbox') = 0
      BY <2>1, <3>1, EmptySeq
    <3> QED
      BY <1>1, <3>1, <3>2 DEF TurnInv
  <2>2. CASE inbox # <<>>
    <3>1. /\ Len(inbox) >= 1 /\ Head(inbox) = inbox[1] /\ Len(inbox') = Len(inbox) - 1
          /\ \A j \in 1..Len(inbox') : inbox'[j] = inbox[j + 1]
      BY <1>1, <1>5, <2>2, InboxFacts DEF ReceiveADS, TypeOK
    <3>2. pc = "receive" /\ UNCHANGED <<index, issued, stream>> /\ response' = inbox[1]
      BY <1>5, <2>2, <3>1 DEF ReceiveADS
    <3>3. response' = index /\ response' <= Len(issued)
      BY <1>1, <3>1, <3>2 DEF TurnInv, Reads
    <3>4. pc' \in {"ack", "crashed"} /\ Reads' = index /\ Reads = index - 1
      BY <1>5, <2>2, <3>2 DEF ReceiveADS, Dispatch, Reads
    <3>5. \A j \in 1..Len(inbox') : inbox'[j] = Reads' + j /\ inbox'[j] <= Len(issued')
      <4> SUFFICES ASSUME NEW j \in 1..Len(inbox')
                   PROVE  inbox'[j] = Reads' + j /\ inbox'[j] <= Len(issued')
        OBVIOUS
      <4>1. j + 1 \in 1..Len(inbox) /\ inbox'[j] = inbox[j + 1]
        BY <1>1, <3>1
      <4>2. inbox[j + 1] = Reads + (j + 1) /\ inbox[j + 1] <= Len(issued)
        BY <1>1, <4>1 DEF TurnInv
      <4> QED
        BY <1>1, <3>2, <3>4, <4>1, <4>2
    <3>6. stream' = "open" => Reads' + Len(inbox') = Len(issued')
      BY <1>1, <3>1, <3>2, <3>4 DEF TurnInv
    <3>7. pc' = "crashed" => issued'[response'] \in OtherTypes
      <4> SUFFICES ASSUME pc' = "crashed" PROVE issued[Head(inbox)] \in OtherTypes
        BY <3>1, <3>2
      <4>1. issued[Head(inbox)] \notin subscribe_map
        BY <1>5, <2>2 DEF ReceiveADS, Dispatch
      <4>2. issued[Head(inbox)] \in Types
        BY <1>1, <3>1, <3>2, <3>3, ElementOfSeq DEF TypeOK
      <4>3. subscribe_map = Range(urlList)
        BY <1>1, <3>2 DEF ControlInv, LinkInv
      <4> QED
        BY <4>1, <4>2, <4>3 DEF Types
    <3> QED
      BY <1>1, <3>2, <3>3, <3>4, <3>5, <3>6, <3>7 DEF TurnInv
  <2> QED
    BY <2>1, <2>2
<1>6. CASE SendACK
  <2>1. /\ pc = "ack" /\ pc' \in {"subscribe", "done"} /\ Reads' = Reads
        /\ UNCHANGED <<response, stream, inbox, issued>>
    BY <1>1, <1>6 DEF SendACK, MoreTypes, Reads
  <2> QED
    BY <1>1, <2>1 DEF TurnInv
<1>7. ASSUME NEW type \in Types, ServerPush(type) PROVE TurnInv'
  <2>1. /\ Len(issued') = Len(issued) + 1
        /\ \A n \in 1..Len(issued) : issued'[n] = issued[n]
        /\ Len(inbox') = Len(inbox) + 1
        /\ \A j \in 1..Len(inbox) : inbox'[j] = inbox[j]
        /\ inbox'[Len(inbox) + 1] = Len(issued) + 1
    BY <1>1, <1>7, PushFacts
  <2>2. stream = "open" /\ UNCHANGED <<stream, pc, index, response>> /\ Reads' = Reads
    BY <1>7 DEF ServerPush, Reads
  <2>3. Reads \in Nat /\ Reads + Len(inbox) = Len(issued)
    BY <1>1, <2>2 DEF TurnInv, Reads
  <2>4. \A j \in 1..Len(inbox') : inbox'[j] = Reads' + j /\ inbox'[j] <= Len(issued')
    <3> SUFFICES ASSUME NEW j \in 1..Len(inbox')
                 PROVE  inbox'[j] = Reads' + j /\ inbox'[j] <= Len(issued')
      OBVIOUS
    <3>1. CASE j \in 1..Len(inbox)
      <4>1. inbox[j] = Reads + j /\ inbox[j] <= Len(issued)
        BY <1>1, <3>1 DEF TurnInv
      <4> QED
        BY <1>1, <2>3, <2>1, <2>2, <3>1, <4>1
    <3>2. CASE j = Len(inbox) + 1
      <4>1. inbox'[j] = Len(issued) + 1 /\ Reads' = Reads
        BY <2>1, <2>2, <3>2
      <4>2. /\ Len(issued) + 1 = Reads + j /\ Len(issued) \in Nat
            /\ Len(issued) + 1 <= Len(issued')
        BY <1>1, <2>1, <2>3, <3>2
      <4> QED
        BY <4>1, <4>2
    <3> QED
      BY <1>1, <2>1, <3>1, <3>2
  <2>5. pc' = "crashed" => issued'[response'] \in OtherTypes
    BY <1>1, <2>1, <2>2 DEF TurnInv
  <2> QED
    BY <1>1, <2>3, <2>1, <2>2, <2>4, <2>5 DEF TurnInv
<1>8. CASE ServerEnd
  <2>1. /\ Len(inbox') \in Nat /\ Len(inbox') <= Len(inbox)
        /\ \A j \in 1..Len(inbox') : inbox'[j] = inbox[j]
    BY <1>1, <1>8, EndFacts
  <2>2. stream' = "ended" /\ UNCHANGED <<pc, index, response, issued>> /\ Reads' = Reads
    BY <1>8 DEF ServerEnd, Reads
  <2> QED
    BY <1>1, <2>1, <2>2 DEF TurnInv
<1>9. CASE Terminated \/ UNCHANGED vars
  BY <1>1, <1>9 DEF Terminated, vars, TurnInv, Reads
<1> QED
  BY <1>2, <1>3, <1>4, <1>5, <1>6, <1>7, <1>8, <1>9 DEF Next, ClientStep

(* The place of a request on the wire: that of turn k at 2k - 1, without   *)
(* nonce, and its acknowledgement at 2k, with nonce k.                     *)
LEMMA WireStep == IndInv /\ [Next]_vars => WireInv'
<1> SUFFICES ASSUME IndInv, [Next]_vars PROVE WireInv'
  OBVIOUS
<1> USE DEF linkVars, clientVars, streamVars
<1>1. /\ TypeOK /\ LinkInv /\ ControlInv /\ RequestInv /\ TurnInv /\ WireInv
      /\ index \in 1..4 /\ response \in Nat
      /\ Len(wire) \in Nat /\ Len(issued) \in Nat
  BY UrlFacts, LenProperties DEF IndInv, TypeOK
<1>2. ASSUME NEW address \in Addresses \cup {EnvAddress}, NEW nodeId \in NodeIds \cup {NoId},
             NEW logger_ \in Loggers \cup {Null}, InitLink(address, nodeId, logger_)
      PROVE  WireInv'
  <2>1. Len(wire') = 0 /\ pc' = "idle"
    BY <1>1, <1>2, EmptySeq DEF InitLink, ControlInv
  <2> QED
    BY <2>1 DEF WireInv
<1>3. CASE StartClient
  <2>1. Len(wire') = 0 /\ pc' = "subscribe" /\ index' = 1
    BY <1>1, <1>3, EmptySeq DEF StartClient, ControlInv
  <2> QED
    BY <2>1 DEF WireInv
<1>4. CASE InitSubscribe
  <2>1. /\ instance = IstioLinkManager(asked.address, asked.id) /\ instance # Null
        /\ urlList[index] \in subscribe_map
    BY <1>1, <1>4, UrlFacts DEF InitSubscribe, ControlInv, LinkInv
  <2>2. instance.id = LocalInfo(asked.id) /\ instance.id \in Ids
    BY <1>1, <2>1 DEF IstioLinkManager, TypeOK, Instances
  <2>3. /\ request' \in Requests /\ request'.url = urlList[index]
        /\ request'.id = LocalInfo(asked.id) /\ request'.nonce = 0
    BY <1>1, <1>4, <2>1, <2>2, MakeFacts DEF InitSubscribe
  <2>4. /\ pc = "subscribe" /\ pc' = "receive" /\ Write(request')
        /\ UNCHANGED <<asked, index, stream, issued>>
    BY <1>4, <2>1 DEF InitSubscribe
  <2>5. CASE stream = "open"
    <3>1. /\ Len(wire) = 2 * index - 2 /\ Len(wire') = 2 * index - 1
          /\ \A i \in 1..Len(wire) : wire'[i] = wire[i]
          /\ wire'[2 * index - 1] = request'
      BY <1>1, <2>3, <2>4, <2>5, WriteFacts DEF TypeOK, WireInv
    <3>2. ASSUME NEW i \in 1..Len(wire')
          PROVE  wire'[i].id = LocalInfo(asked'.id) /\ Placed(i)'
      <4>1. CASE i \in 1..Len(wire)
        BY <1>1, <2>4, <3>1, <4>1 DEF WireInv, Placed
      <4>2. CASE i = 2 * index - 1
        BY <1>1, <2>3, <2>4, <3>1, <4>2 DEF Placed
      <4> QED
        BY <1>1, <3>1, <4>1, <4>2
    <3> QED
      BY <1>1, <2>4, <3>1, <3>2 DEF WireInv
  <2>6. CASE stream # "open"
    <3>1. wire' = wire
      BY <2>4, <2>6 DEF Write
    <3> QED
      BY <1>1, <2>4, <2>6, <3>1 DEF WireInv, Placed
  <2> QED
    BY <2>5, <2>6
<1>5. CASE ReceiveADS
  <2>1. pc = "receive" /\ pc' \in {"ack", "crashed"} /\ UNCHANGED <<asked, index, stream, issued, wire>>
    BY <1>5 DEF ReceiveADS, Dispatch, ReadFails
  <2> QED
    BY <1>1, <2>1 DEF WireInv, Placed
<1>6. CASE SendACK
  <2>1. /\ pc = "ack" /\ Write(Ack) /\ UNCHANGED <<asked, stream, issued>>
        /\ \/ pc' = "subscribe" /\ index' = index + 1
           \/ pc' = "done" /\ index' = index
    BY <1>6 DEF SendACK
  <2>2. /\ Ack \in Requests /\ Ack.url = urlList[index] /\ Ack.id = LocalInfo(asked.id)
        /\ Ack.nonce = response
    BY <1>1, <2>1, AckFacts DEF RequestInv
  <2>3. CASE stream = "open"
    <3>1. /\ Len(wire) = 2 * index - 1 /\ Len(wire') = 2 * index
          /\ \A i \in 1..Len(wire) : wire'[i] = wire[i]
          /\ wire'[2 * index] = Ack
      <4>1. Len(wire) = 2 * index - 1 /\ wire \in Seq(Requests)
        BY <1>1, <2>1, <2>3 DEF WireInv, TypeOK
      <4>2. /\ Len(wire') = Len(wire) + 1 /\ wire'[Len(wire) + 1] = Ack
            /\ \A i \in 1..Len(wire) : wire'[i] = wire[i]
        BY <2>2, <2>1, <2>3, <4>1, WriteFacts
      <4>3. Len(wire) + 1 = 2 * index
        BY <1>1, <4>1
      <4> QED
        BY <4>1, <4>2, <4>3
    <3>2. response = index /\ index <= Len(issued)
      BY <1>1, <2>1, <2>3 DEF TurnInv
    <3>3. ASSUME NEW i \in 1..Len(wire')
          PROVE  wire'[i].id = LocalInfo(asked'.id) /\ Placed(i)'
      <4>1. CASE i \in 1..Len(wire)
        BY <1>1, <2>1, <3>1, <4>1 DEF WireInv, Placed
      <4>2. CASE i = 2 * index
        BY <1>1, <2>1, <2>2, <3>1, <3>2, <4>2 DEF Placed
      <4> QED
        BY <1>1, <3>1, <4>1, <4>2
    <3> QED
      BY <1>1, <2>1, <3>1, <3>3 DEF WireInv
  <2>4. CASE stream # "open"
    <3>1. wire' = wire
      BY <2>1, <2>4 DEF Write
    <3> QED
      BY <1>1, <2>1, <2>4, <3>1 DEF WireInv, Placed
  <2> QED
    BY <2>3, <2>4
<1>7. ASSUME NEW type \in Types, ServerPush(type) PROVE WireInv'
  <2>1. Len(issued') = Len(issued) + 1 /\ UNCHANGED <<asked, pc, index, stream, wire>>
    BY <1>1, <1>7, PushFacts DEF ServerPush
  <2> QED
    BY <1>1, <2>1 DEF WireInv, Placed
<1>8. CASE ServerEnd
  <2>1. stream' = "ended" /\ UNCHANGED <<asked, pc, index, issued, wire>>
    BY <1>8 DEF ServerEnd
  <2> QED
    BY <1>1, <2>1 DEF WireInv, Placed
<1>9. CASE Terminated \/ UNCHANGED vars
  <2>1. UNCHANGED <<asked, pc, index, stream, issued, wire>>
    BY <1>9 DEF Terminated, vars
  <2> QED
    BY <1>1, <2>1 DEF WireInv, Placed
<1> QED
  BY <1>2, <1>3, <1>4, <1>5, <1>6, <1>7, <1>8, <1>9 DEF Next, ClientStep

(* What a Read that is given to a subscription does.                       *)
LEMMA DispatchFacts ==
    ASSUME IndInv, ReceiveADS, handled' # handled
    PROVE  LET type == issued[index]
           IN  /\ type \in Range(urlList) /\ index \in 1..Len(issued) /\ index \in 1..4
               /\ Reads = index - 1 /\ Reads' = index /\ issued' = issued
               /\ response' = index /\ pc' = "ack" /\ wire' = wire
               /\ Len(handled[type]) \in Nat /\ Len(handled'[type]) = Len(handled[type]) + 1
               /\ \A i \in 1..Len(handled[type]) : handled'[type][i] = handled[type][i]
               /\ handled'[type][Len(handled[type]) + 1] = index
               /\ \A t \in Range(urlList) \ {type} : handled'[t] = handled[t]
<1> DEFINE nonce == Head(inbox)
           type  == issued[nonce]
<1>1. /\ inbox # <<>> /\ type \in subscribe_map /\ issued' = issued /\ wire' = wire
      /\ handled' = [handled EXCEPT ![type] = Append(handled[type], nonce)]
      /\ pc = "receive" /\ pc' = "ack" /\ index' = index /\ response' = nonce
  BY DEF ReceiveADS, Dispatch
<1>2. Len(inbox) \in Nat /\ Len(inbox) >= 1 /\ nonce = inbox[1] /\ nonce \in Nat
  BY <1>1, InboxFacts, HeadTailProperties DEF IndInv, TypeOK
<1>3. index \in 1..4 /\ Len(issued) \in Nat
  BY UrlFacts, LenProperties DEF IndInv, TypeOK
<1>4. nonce = index /\ nonce \in 1..Len(issued) /\ Reads = index - 1 /\ Reads' = index
  BY <1>1, <1>2, <1>3 DEF IndInv, TurnInv, Reads
<1>5. type \in Range(urlList) /\ handled[type] \in Seq(Nat)
  BY <1>1 DEF IndInv, TypeOK
<1>6. type = issued[index]
  BY <1>4
<1> HIDE DEF nonce, type
<1>7. /\ Len(handled[type]) \in Nat /\ Len(handled'[type]) = Len(handled[type]) + 1
      /\ \A i \in 1..Len(handled[type]) : handled'[type][i] = handled[type][i]
      /\ handled'[type][Len(handled[type]) + 1] = nonce
  BY <1>1, <1>2, <1>5, AppendProperties, LenProperties DEF IndInv, TypeOK
<1>8. \A t \in Range(urlList) \ {type} : handled'[t] = handled[t]
  BY <1>1, <1>5 DEF IndInv, TypeOK
<1> QED
  BY <1>1, <1>3, <1>4, <1>5, <1>6, <1>7, <1>8

(* No step takes back a Read.                                              *)
LEMMA ReadsGrow ==
    ASSUME IndInv, [Next]_vars
    PROVE  Reads \in Nat /\ Reads' \in Nat /\ Reads <= Reads'
<1> USE DEF linkVars, clientVars, streamVars
<1>1. index \in 1..4 /\ TypeOK /\ ControlInv /\ LinkInv
  BY UrlFacts DEF IndInv, TypeOK
<1>2. ASSUME NEW address \in Addresses \cup {EnvAddress}, NEW nodeId \in NodeIds \cup {NoId},
             NEW logger_ \in Loggers \cup {Null}, InitLink(address, nodeId, logger_)
      PROVE  Reads' = Reads
  BY <1>2 DEF InitLink, Reads
<1>3. CASE StartClient
  BY <1>1, <1>3 DEF StartClient, Reads
<1>4. CASE InitSubscribe
  BY <1>1, <1>4 DEF InitSubscribe, Reads
<1>5. CASE ReceiveADS
  BY <1>1, <1>5 DEF ReceiveADS, Dispatch, ReadFails, Reads
<1>6. CASE SendACK
  BY <1>1, <1>6 DEF SendACK, Reads
<1>7. ASSUME NEW type \in Types, ServerPush(type) PROVE Reads' = Reads
  BY <1>7 DEF ServerPush, Reads
<1>8. CASE ServerEnd
  BY <1>8, <1>1 DEF ServerEnd, Reads
<1>9. CASE Terminated \/ UNCHANGED vars
  BY <1>9, <1>1 DEF Terminated, vars, Reads
<1>10. Reads \in Nat
  BY <1>1 DEF Reads
<1> QED
  BY <1>2, <1>3, <1>4, <1>5, <1>6, <1>7, <1>8, <1>9, <1>10, <1>1 DEF Next, ClientStep, Reads

(* A response is added to what the subscription of its type has handled,   *)
(* and has been read after all of that.                                    *)
LEMMA HandledStep == IndInv /\ [Next]_vars => HandledInv'
<1> SUFFICES ASSUME IndInv, [Next]_vars PROVE HandledInv'
  OBVIOUS
<1>1. HandledInv /\ Len(issued) \in Nat
  BY LenProperties DEF IndInv, TypeOK
<1>2. Reads \in Nat /\ Reads' \in Nat /\ Reads <= Reads'
  BY ReadsGrow
<1>3. CASE ReceiveADS /\ handled' # handled
  <2> DEFINE type == issued[index]
  <2>1. /\ type \in Range(urlList) /\ index \in 1..Len(issued) /\ index \in 1..4
        /\ Reads = index - 1 /\ Reads' = index /\ issued' = issued
        /\ Len(handled[type]) \in Nat /\ Len(handled'[type]) = Len(handled[type]) + 1
        /\ \A i \in 1..Len(handled[type]) : handled'[type][i] = handled[type][i]
        /\ handled'[type][Len(handled[type]) + 1] = index
        /\ \A t \in Range(urlList) \ {type} : handled'[t] = handled[t]
    BY <1>3, DispatchFacts
  <2>2. issued[index] = type
    OBVIOUS
  <2> HIDE DEF type
  <2>3. ASSUME NEW t \in Range(urlList), t # type, NEW i \in 1..Len(handled'[t])
        PROVE  /\ handled'[t][i] \in 1..Len(issued') /\ handled'[t][i] <= Reads'
               /\ issued'[handled'[t][i]] = t
               /\ \A j \in 1..Len(handled'[t]) : i < j => handled'[t][i] < handled'[t][j]
    <3>1. handled'[t] = handled[t]
      BY <2>1, <2>3
    <3> QED
      BY <1>1, <1>2, <2>1, <2>3, <3>1 DEF HandledInv
  <2>4. ASSUME NEW i \in 1..Len(handled[type])
        PROVE  /\ handled'[type][i] \in 1..Len(issued') /\ handled'[type][i] < index
               /\ issued'[handled'[type][i]] = type
    BY <1>1, <2>1, <2>4 DEF HandledInv
  <2>5. ASSUME NEW i \in 1..Len(handled'[type])
        PROVE  /\ handled'[type][i] \in 1..Len(issued') /\ handled'[type][i] <= Reads'
               /\ issued'[handled'[type][i]] = type
    <3>1. CASE i \in 1..Len(handled[type])
      BY <2>1, <2>4, <3>1
    <3>2. CASE i = Len(handled[type]) + 1
      BY <2>1, <2>2, <3>2
    <3> QED
      BY <2>1, <3>1, <3>2
  <2>6. ASSUME NEW i \in 1..Len(handled'[type]), NEW j \in 1..Len(handled'[type]), i < j
        PROVE  handled'[type][i] < handled'[type][j]
    <3>1. i \in 1..Len(handled[type])
      BY <2>1, <2>6
    <3>2. CASE j \in 1..Len(handled[type])
      BY <1>1, <2>1, <2>6, <3>1, <3>2 DEF HandledInv
    <3>3. CASE j = Len(handled[type]) + 1
      BY <2>1, <2>4, <3>1, <3>3
    <3> QED
      BY <2>1, <3>2, <3>3
  <2> QED
    BY <2>3, <2>5, <2>6 DEF HandledInv
<1>4. ASSUME NEW type \in Types, ServerPush(type) PROVE HandledInv'
  <2>1. /\ Len(issued') = Len(issued) + 1 /\ handled' = handled
        /\ \A n \in 1..Len(issued) : issued'[n] = issued[n]
    BY <1>1, <1>4, PushFacts DEF ServerPush, clientVars, IndInv
  <2>2. ASSUME NEW t \in Range(urlList), NEW i \in 1..Len(handled[t])
        PROVE  /\ handled[t][i] \in 1..Len(issued') /\ handled[t][i] <= Reads'
               /\ issued'[handled[t][i]] = t
    <3>1. /\ handled[t][i] \in 1..Len(issued) /\ handled[t][i] <= Reads
          /\ issued[handled[t][i]] = t
      BY <1>1, <2>2 DEF HandledInv
    <3> QED
      BY <1>1, <1>2, <2>1, <3>1
  <2> QED
    BY <1>1, <2>1, <2>2 DEF HandledInv
<1>5. CASE UNCHANGED <<handled, issued>>
  <2>1. ASSUME NEW t \in Range(urlList), NEW i \in 1..Len(handled[t])
        PROVE  handled[t][i] \in Nat /\ handled[t][i] <= Reads'
    BY <1>1, <1>2, <2>1 DEF HandledInv
  <2> QED
    BY <1>1, <1>5, <2>1 DEF HandledInv
<1> QED
  BY <1>3, <1>4, <1>5 DEF Next, ClientStep, InitLink, StartClient, InitSubscribe,
     ReceiveADS, SendACK, ServerEnd, Terminated, vars, clientVars, streamVars

(* What a subscription has got it keeps.                                   *)
LEMMA HandledKept ==
    ASSUME IndInv, [Next]_vars, NEW n, HasHandled(n)
    PROVE  HasHandled(n)'
<1>1. n \in 1..Len(issued) /\ issued[n] \in Range(urlList) /\ Len(issued) \in Nat
  BY LenProperties DEF HasHandled, IndInv, TypeOK
<1>2. PICK i \in 1..Len(handled[issued[n]]) : handled[issued[n]][i] = n
  BY DEF HasHandled
<1>3. CASE ReceiveADS /\ handled' # handled
  <2>1. /\ issued' = issued /\ Len(handled[issued[index]]) \in Nat
        /\ Len(handled'[issued[index]]) = Len(handled[issued[index]]) + 1
        /\ \A k \in 1..Len(handled[issued[index]]) :
              handled'[issued[index]][k] = handled[issued[index]][k]
        /\ \A t \in Range(urlList) \ {issued[index]} : handled'[t] = handled[t]
    BY <1>3, DispatchFacts
  <2>2. i \in 1..Len(handled'[issued[n]]) /\ handled'[issued[n]][i] = n
    <3>1. CASE issued[n] = issued[index]
      BY <1>2, <2>1, <3>1
    <3>2. CASE issued[n] # issued[index]
      BY <1>1, <1>2, <2>1, <3>2
    <3> QED
      BY <3>1, <3>2
  <2> QED
    BY <1>1, <2>1, <2>2 DEF HasHandled
<1>4. ASSUME NEW type \in Types, ServerPush(type) PROVE HasHandled(n)'
  <2>1. /\ Len(issued') = Len(issued) + 1 /\ handled' = handled
        /\ \A m \in 1..Len(issued) : issued'[m] = issued[m]
    BY <1>4, PushFacts DEF ServerPush, clientVars, IndInv
  <2> QED
    BY <1>1, <1>2, <2>1 DEF HasHandled
<1>5. CASE UNCHANGED <<handled, issued>>
  BY <1>5 DEF HasHandled
<1> QED
  BY <1>3, <1>4, <1>5 DEF Next, ClientStep, InitLink, StartClient, InitSubscribe,
     ReceiveADS, SendACK, ServerEnd, Terminated, vars, clientVars, streamVars

(* A response is handled before its turn acknowledges it.                  *)
LEMMA AckStep == IndInv /\ [Next]_vars => AckInv'
<1> SUFFICES ASSUME IndInv, [Next]_vars PROVE AckInv'
  OBVIOUS
<1>1. /\ TypeOK /\ LinkInv /\ ControlInv /\ RequestInv /\ AckInv /\ wire \in Seq(Requests)
      /\ index \in 1..4 /\ Len(wire) \in Nat
  BY UrlFacts, LenProperties DEF IndInv, TypeOK
<1> DEFINE Kept(n) ==
              /\ n \in 1..Len(issued') /\ issued'[n] \in Range(urlList)
              /\ \E i \in 1..Len(handled'[issued'[n]]) : handled'[issued'[n]][i] = n
<1>a. \A n : HasHandled(n) => Kept(n)
  BY HandledKept DEF HasHandled
<1>b. ASSUME /\ pc' = "ack" /\ response' # 0 => Kept(response')
             /\ \A i \in 1..Len(wire') : wire'[i].nonce # 0 => Kept(wire'[i].nonce)
      PROVE  AckInv'
  BY <1>b DEF AckInv, HasHandled
<1> HIDE DEF Kept
<1>2. \A i \in 1..Len(wire) : wire[i].nonce # 0 => Kept(wire[i].nonce)
  BY <1>1, <1>a DEF AckInv
<1>3. pc = "ack" /\ response # 0 => Kept(response)
  BY <1>1, <1>a DEF AckInv
<1>4. CASE InitSubscribe
  <2>1. /\ instance # Null /\ instance \in Instances /\ urlList[index] \in subscribe_map
    BY <1>1, <1>4, UrlFacts DEF InitSubscribe, ControlInv, LinkInv, TypeOK
  <2>2. instance.id \in Ids
    BY <2>1 DEF Instances
  <2>3. request' \in Requests /\ request'.nonce = 0 /\ Write(request') /\ pc' = "receive"
    BY <1>1, <1>4, <2>1, <2>2, MakeFacts DEF InitSubscribe
  <2>4. \A i \in 1..Len(wire') : wire'[i].nonce # 0 => i \in 1..Len(wire) /\ wire'[i] = wire[i]
    BY <1>1, <2>3, WriteFacts
  <2> QED
    BY <1>b, <1>2, <2>3, <2>4
<1>5. CASE ReceiveADS
  <2>1. wire' = wire
    BY <1>5 DEF ReceiveADS
  <2>2. ASSUME pc' = "ack", response' # 0 PROVE Kept(response')
    <3>1. inbox # <<>> /\ issued[Head(inbox)] \in subscribe_map
      BY <1>5, <2>2 DEF ReceiveADS, ReadFails, Dispatch
    <3>2. handled' # handled
      <4> DEFINE type == issued[Head(inbox)]
      <4>1. /\ handled' = [handled EXCEPT ![type] = Append(handled[type], Head(inbox))]
            /\ handled[type] \in Seq(Nat) /\ type \in Range(urlList) /\ Head(inbox) \in Nat
        BY <1>1, <1>5, <3>1, HeadTailProperties DEF ReceiveADS, Dispatch, TypeOK
      <4>2. Len(Append(handled[type], Head(inbox))) # Len(handled[type])
        BY <4>1, AppendProperties, LenProperties
      <4> HIDE DEF type
      <4>3. handled'[type] = Append(handled[type], Head(inbox))
        BY <1>1, <4>1 DEF TypeOK
      <4> QED
        BY <4>2, <4>3
    <3>3. /\ issued[index] \in Range(urlList) /\ index \in 1..Len(issued)
          /\ issued' = issued /\ response' = index
          /\ Len(handled[issued[index]]) \in Nat
          /\ Len(handled'[issued[index]]) = Len(handled[issued[index]]) + 1
          /\ handled'[issued[index]][Len(handled[issued[index]]) + 1] = index
      BY <1>5, <3>2, DispatchFacts
    <3>4. Len(handled[issued[index]]) + 1 \in 1..Len(handled'[issued[index]])
      BY <3>3
    <3> QED
      BY <3>3, <3>4 DEF Kept
  <2> QED
    BY <1>b, <1>2, <2>1, <2>2
<1>6. CASE SendACK
  <2>1. pc = "ack" /\ pc' # "ack" /\ Write(Ack)
    BY <1>6 DEF SendACK
  <2>2. Ack \in Requests /\ Ack.nonce = response
    BY <1>1, <2>1, AckFacts DEF RequestInv, TypeOK
  <2>3. \A i \in 1..Len(wire') : \/ i \in 1..Len(wire) /\ wire'[i] = wire[i]
                                 \/ wire'[i].nonce = response
    BY <1>1, <2>1, <2>2, WriteFacts
  <2> QED
    BY <1>b, <1>2, <1>3, <2>1, <2>3
<1>7. CASE wire' = wire /\ pc' # "ack"
  BY <1>b, <1>2, <1>7
<1>8. CASE UNCHANGED <<wire, pc, response>>
  BY <1>b, <1>2, <1>3, <1>8
<1> QED
  BY <1>4, <1>5, <1>6, <1>7, <1>8 DEF Next, ClientStep, InitLink, StartClient,
     ServerPush, ServerEnd, Terminated, vars, clientVars, streamVars

(* Before the first init.                                                  *)
LEMMA InitInv == Init => IndInv
<1> SUFFICES ASSUME Init PROVE IndInv
  OBVIOUS
<1> USE DEF Init
<1>1. TypeOK
  BY UrlFacts, EmptySeq DEF TypeOK
<1>2. LinkInv /\ ControlInv /\ RequestInv
  BY DEF LinkInv, ControlInv, RequestInv
<1>3. TurnInv /\ WireInv
  BY EmptySeq DEF TurnInv, WireInv
<1>4. HandledInv /\ AckInv
  BY EmptySeq DEF HandledInv, AckInv
<1> QED
  BY <1>1, <1>2, <1>3, <1>4 DEF IndInv

-----------------------------------------------------------------------------
(* The theorems.                                                           *)

(* The inductive invariant holds in every state of every behaviour.        *)
THEOREM Invariance == Spec => []IndInv
<1>1. IndInv /\ [Next]_vars => IndInv'
  BY TypeStep, LinkStep, ControlStep, RequestStep, TurnStep, WireStep, HandledStep,
     AckStep DEF IndInv
<1> QED
  BY <1>1, InitInv, PTL DEF Spec

(* Type correctness; the loop of startClient never goes past the last      *)
(* type.                                                                   *)
THEOREM TypeCorrect == Spec => []TypeOK
<1> QED
  BY Invariance, PTL DEF IndInv

(* What sendACK acknowledges has been given to the subscription of its own *)
(* type, in whichever turn receiveADS has read it; and what the            *)
(* subscriptions have got is acknowledged while the stream is open, but    *)
(* for the response of this turn (AdsManager.cpp:72-74, 129).              *)
THEOREM Dispatched == Spec => []AckedAsHandled
<1>1. ASSUME IndInv PROVE AckedAsHandled
  <2>1. /\ Len(wire) \in Nat /\ DOMAIN wire = 1..Len(wire) /\ index \in 1..4
        /\ Len(issued) \in Nat /\ response \in Nat
        /\ pc \in {"idle", "subscribe", "receive", "ack", "done", "crashed"}
        /\ \A t \in Range(urlList) : /\ Len(handled[t]) \in Nat
                                     /\ DOMAIN handled[t] = 1..Len(handled[t])
    BY <1>1, LenProperties, UrlFacts DEF IndInv, TypeOK
  <2>2. ASSUME NEW n \in Acked
        PROVE  issued[n] \in Range(urlList) /\ n \in Range(handled[issued[n]])
    <3>1. HasHandled(n)
      BY <1>1, <2>1, <2>2 DEF Acked, IndInv, AckInv
    <3> QED
      BY <2>1, <3>1 DEF HasHandled, Range
  <2>3. ASSUME NEW t \in Range(urlList), stream = "open", NEW n \in Range(handled[t])
        PROVE  n \in Acked \/ (pc = "ack" /\ n = response)
    <3>1. PICK i \in 1..Len(handled[t]) : handled[t][i] = n
      BY <2>1, <2>3 DEF Range
    <3>2. n \in 1..Len(issued) /\ n <= Reads /\ issued[n] = t
      BY <1>1, <2>3, <3>1 DEF IndInv, HandledInv
    <3>3. CASE 2 * n <= Len(wire)
      <4>1. 2 * n \in 1..Len(wire)
        BY <2>1, <3>2, <3>3
      <4>2. PICK k \in 1..4 : \/ 2 * n = 2 * k - 1
                              \/ 2 * n = 2 * k /\ wire[2 * n].nonce = k
        BY <1>1, <4>1 DEF IndInv, WireInv, Placed
      <4>3. wire[2 * n].nonce = n /\ n # 0
        BY <3>2, <4>2
      <4> QED
        BY <2>1, <4>1, <4>3 DEF Acked
    <3>4. CASE 2 * n > Len(wire)
      <4>1. pc # "idle"
        BY <1>1, <2>3 DEF IndInv, ControlInv
      <4>2. pc \in {"ack", "crashed"} /\ n = index
        <5>1. CASE pc = "subscribe"
          BY <1>1, <2>1, <2>3, <3>2, <3>4, <5>1 DEF IndInv, WireInv, Reads
        <5>2. CASE pc = "receive"
          BY <1>1, <2>1, <2>3, <3>2, <3>4, <5>2 DEF IndInv, WireInv, Reads
        <5>3. CASE pc = "done"
          BY <1>1, <2>1, <2>3, <3>2, <3>4, <5>3 DEF IndInv, WireInv, Reads
        <5>4. CASE pc \in {"ack", "crashed"}
          <6>1. Len(wire) = 2 * index - 1 /\ Reads = index
            BY <1>1, <2>3, <5>4 DEF IndInv, WireInv, Reads
          <6> QED
            BY <2>1, <3>2, <3>4, <5>4, <6>1
        <5> QED
          BY <2>1, <4>1, <5>1, <5>2, <5>3, <5>4
      <4>3. pc # "crashed"
        BY <1>1, <2>3, <3>2, <4>2, OtherAssumption DEF IndInv, TurnInv
      <4> QED
        BY <1>1, <2>3, <4>2, <4>3 DEF IndInv, TurnInv
    <3> QED
      BY <2>1, <3>2, <3>3, <3>4
  <2>4. \A t \in Range(urlList) : \A i, j \in DOMAIN handled[t] :
           i < j => handled[t][i] < handled[t][j]
    BY <1>1, <2>1 DEF IndInv, HandledInv
  <2> QED
    BY <2>2, <2>3, <2>4 DEF AckedAsHandled
<1> QED
  BY <1>1, Invariance, PTL

(* The null pointer that receiveADS may dereference is that of a type the  *)
(* client does not know; initSubscribe never meets one.                    *)
THEOREM OnlyUnknownTypesCrash == Spec => []CrashOnlyOnOtherType
<1>1. IndInv => CrashOnlyOnOtherType
  BY UrlFacts DEF IndInv, TypeOK, TurnInv, CrashOnlyOnOtherType
<1> QED
  BY <1>1, Invariance, PTL

(* sendACK acknowledges no empty response and none twice.                  *)
THEOREM AcksAreReal == Spec => []AcksNameResponses
<1>1. ASSUME IndInv PROVE AcksNameResponses
  <2>1. /\ Len(wire) \in Nat /\ DOMAIN wire = 1..Len(wire)
        /\ wire # <<>> => Len(wire) \in 1..Len(wire)
    BY <1>1, LenProperties, EmptySeq DEF IndInv, TypeOK
  <2>2. \A i \in 1..Len(wire) : i % 2 = 0 => wire[i].nonce # 0
    <3> SUFFICES ASSUME NEW i \in 1..Len(wire), wire[i].nonce = 0 PROVE i % 2 # 0
      OBVIOUS
    <3>1. PICK k \in 1..4 : i = 2 * k - 1
      BY <1>1 DEF IndInv, WireInv, Placed
    <3>2. k \in {1, 2, 3, 4}
      OBVIOUS
    <3> QED
      BY <3>1, <3>2
  <2>3. \A i, j \in 1..Len(wire) :
           i < j /\ wire[j].nonce # 0 => wire[i].nonce < wire[j].nonce
    BY <1>1 DEF IndInv, WireInv, Placed
  <2> QED
    BY <2>2, <2>1, <2>3 DEF AcksNameResponses
<1> QED
  BY <1>1, Invariance, PTL

(* The singleton and the node of all requests are those of the first init. *)
THEOREM FirstInit == Spec => []FirstInitWins
<1>1. IndInv => FirstInitWins
  <2> SUFFICES ASSUME IndInv PROVE FirstInitWins
    OBVIOUS
  <2>1. instance # Null => instance.address = asked.address
    BY DEF IndInv, LinkInv, IstioLinkManager
  <2>2. DOMAIN wire = 1..Len(wire)
    BY LenProperties DEF IndInv, TypeOK
  <2> QED
    BY <2>1, <2>2 DEF IndInv, WireInv, FirstInitWins
<1> QED
  BY <1>1, Invariance, PTL

(* A response is never logged through a null pointer, and always where the *)
(* last init with a logger asked for.                                      *)
THEOREM Logged == Spec => []ResponsesLogged
<1> QED
  BY Invariance, PTL DEF IndInv, RequestInv, ResponsesLogged

(* With a server that answers the four types in the order of the turns     *)
(* every acknowledgement is sent for the type of the response it names.    *)
THEOREM OrderlyServer == Spec => []OrderlyAcks
<1>1. ASSUME IndInv, NEW i \in DOMAIN wire, wire[i].nonce # 0,
             \A n \in DOMAIN issued : n \in DOMAIN urlList /\ issued[n] = urlList[n]
      PROVE  issued[wire[i].nonce] = wire[i].url
  <2>1. i \in 1..Len(wire) /\ Len(issued) \in Nat /\ DOMAIN issued = 1..Len(issued)
    BY <1>1, LenProperties DEF IndInv, TypeOK
  <2>2. PICK k \in 1..4 : /\ wire[i].url = urlList[k] /\ wire[i].nonce = k
                          /\ k <= Len(issued)
    BY <1>1, <2>1 DEF IndInv, WireInv, Placed
  <2> QED
    BY <1>1, <2>1, <2>2
<1>2. IndInv => OrderlyAcks
  BY <1>1 DEF OrderlyAcks, AcksOwnType
<1> QED
  BY <1>2, Invariance, PTL
=============================================================================
