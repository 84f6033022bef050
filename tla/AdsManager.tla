----------------------------- MODULE AdsManager -----------------------------
(***************************************************************************)
(* anylink: the singleton IstioLinkManager, its AdsManager with the        *)
(* subscriptions of four types, and startClient, which for each type in    *)
(* turn sends a request, reads one response and acknowledges it.           *)
(*                                                                         *)
(* Each asynchronous operation is followed by cq_.Next, which waits for    *)
(* it, so an operation and its completion are one step; its result only    *)
(* goes to the log.  Of the node a request carries the id, of the loggers  *)
(* there are the two static ones that responses are logged through.        *)
(***************************************************************************)
EXTENDS Naturals, Sequences, Functions

CONSTANTS
    Cluster, Listener, ClusterLoadAssignment, RouteConfiguration,  \* type URLs
    OtherTypes,     \* types the server knows and the client does not
    Addresses,      \* addresses init can be called with
    EnvAddress,     \* ISTIO_ADDRESS or its default, for init without address
    NodeIds, NoId,  \* node ids init can be called with; the empty string
    Loggers, Noop,  \* loggers init can be called with; one that does nothing
    Null,           \* no logger, no instance
    MaxResponses    \* bound: responses the server sends

(* The order of the turns of startClient.                                  *)
urlList == <<Cluster, Listener, ClusterLoadAssignment, RouteConfiguration>>

ASSUME UrlAssumption      == IsInjective(urlList)
ASSUME OtherAssumption    == OtherTypes \cap Range(urlList) = {}
ASSUME LoggerAssumption   == Null \notin Loggers \cup {Noop}
ASSUME BoundAssumption    == MaxResponses \in Nat
ASSUME AskedAssumption    == Null \notin Addresses \cup {EnvAddress} \cup NodeIds \cup {NoId}

(* The constructor of LocalInfo makes the node id part of a longer one, or *)
(* sets none if it is empty.                                               *)
LocalInfo(nodeId) == IF nodeId = NoId THEN <<>> ELSE <<"sidecar", nodeId>>

Ids == {LocalInfo(nodeId) : nodeId \in NodeIds \cup {NoId}}

(* The constructor of the singleton, with its AdsManager and LocalInfo.    *)
IstioLinkManager(address, nodeId) == [address |-> address, id |-> LocalInfo(nodeId)]

Instances == [address : Addresses \cup {EnvAddress}, id : Ids]

ASSUME InstanceAssumption == Null \notin Instances

VARIABLES
    instance,           \* the singleton: its address and the id of its node
    managerLogger, subscriptionLogger,
    subscribe_map,      \* the types that have a Subscription
    asked,              \* what init was called with: first address and id, last logger
    pc,                 \* where startClient is
    index,              \* which type its loop is at
    request, response,  \* of this turn; a response by its nonce, 0 if there is none
    handled,            \* nonces given to onResponseDiscoveryService of each type
    stream, inbox, issued,
    wire                \* requests the server has received

linkVars   == <<instance, managerLogger, subscribe_map, asked>>
clientVars == <<subscriptionLogger, pc, index, request, response, handled>>
streamVars == <<stream, inbox, issued, wire>>
vars == <<linkVars, clientVars, streamVars>>

Types == Range(urlList) \cup OtherTypes

(* The request of each Subscription: its type URL, its sample names and    *)
(* the node.                                                               *)
Request(type, names, id) == [url |-> type, resource_names |-> names, id |-> id, nonce |-> 0]

ClusterSubscription(id)  == Request(Cluster, {}, id)
ListenerSubscription(id) == Request(Listener, {}, id)
EndpointSubscription(id) == Request(ClusterLoadAssignment, {"outbound"}, id)
RouteSubscription(id)    == Request(RouteConfiguration, {"80"}, id)

makeRequestDiscoveryService(type, id) ==
    CASE type = Cluster -> ClusterSubscription(id)
      [] type = Listener -> ListenerSubscription(id)
      [] type = ClusterLoadAssignment -> EndpointSubscription(id)
      [] type = RouteConfiguration -> RouteSubscription(id)

Init ==
    /\ instance = Null /\ managerLogger = Null /\ subscriptionLogger = Null
    /\ subscribe_map = {}
    /\ asked = [address |-> Null, id |-> Null, logger |-> Noop]
    /\ pc = "idle" /\ index = 1 /\ request = Null /\ response = 0
    /\ handled = [t \in Range(urlList) |-> <<>>]
    /\ stream = "none" /\ inbox = <<>> /\ issued = <<>> /\ wire = <<>>

(* Fault: a second init replaces the instance.                             *)
ReplaceInstance(address, nodeId) == IstioLinkManager(address, nodeId)

(* The instance is made the first time only.                               *)
KeepInstance(address, nodeId) ==
    IF instance = Null THEN IstioLinkManager(address, nodeId) ELSE instance

(* Fault: a null logger silences the manager again.                        *)
LoggerOrNoop(logger_) == IF logger_ = Null THEN Noop ELSE logger_

(* The constructor of AdsManager gives it a logger that does nothing, and  *)
(* init replaces it only by a logger that is not null.                     *)
NewLogger(logger_) ==
    CASE logger_ # Null -> logger_
      [] logger_ = Null /\ managerLogger = Null -> Noop
      [] OTHER -> managerLogger

(* Fault: the last subscription is not added.                              *)
SubscriptionsButOne == {Cluster, Listener, ClusterLoadAssignment}

NewSubscriptions == {Cluster, Listener, ClusterLoadAssignment, RouteConfiguration}

(* The map keeps what it has.                                              *)
addSubscription(types) == subscribe_map \cup types

(* IstioLinkManager::init, before the link is started.  What it writes to  *)
(* its own log first, through a logger_ that may be null, is left out: the *)
(* macro GATEWAY_LOG is not part of this repository.                       *)
InitLink(address, nodeId, logger_) ==
    /\ pc = "idle"
    /\ instance' = KeepInstance(address, nodeId)
    /\ managerLogger' = NewLogger(logger_)
    /\ subscribe_map' = addSubscription(NewSubscriptions)
    /\ asked' = [address |-> IF asked.address = Null THEN address ELSE asked.address,
                 id |-> IF asked.id = Null THEN nodeId ELSE asked.id,
                 logger |-> IF logger_ = Null THEN asked.logger ELSE logger_]
    /\ UNCHANGED <<clientVars, streamVars>>

(* The call starts or fails.                                               *)
startcall == stream' \in {"open", "ended"}

(* startLink -> startClient up to its loop, which is entered in any case.  *)
StartClient ==
    /\ pc = "idle" /\ instance # Null
    /\ pc' = "subscribe"
    /\ startcall
    /\ UNCHANGED <<linkVars, subscriptionLogger, index, request, response, handled,
                   inbox, issued, wire>>

(* rpc->Write: the server gets it if the stream is open.                   *)
Write(message) == wire' = IF stream = "open" THEN Append(wire, message) ELSE wire

(* Subscription::setLogger.                                                *)
setLogger(logger_) == IF logger_ = Null THEN Noop ELSE logger_

(* initSubscribe for the type of this turn, whose entry of subscribe_map   *)
(* is used without a test for null.                                        *)
InitSubscribe ==
    /\ pc = "subscribe"
    /\ IF urlList[index] \in subscribe_map
         THEN /\ request' = makeRequestDiscoveryService(urlList[index], instance.id)
              /\ subscriptionLogger' = setLogger(managerLogger)
              /\ Write(request')
              /\ pc' = "receive"
         ELSE pc' = "crashed" /\ UNCHANGED <<subscriptionLogger, request, wire>>
    /\ UNCHANGED <<linkVars, index, response, handled, stream, inbox, issued>>

(* Fault: the subscription of this turn gets the response, not that of its *)
(* type.                                                                   *)
DispatchToTurn(nonce) ==
    /\ pc' = "ack"
    /\ handled' = [handled EXCEPT ![urlList[index]] = Append(@, nonce)]

(* subscribe_map[type]->onResponseDiscoveryService: a type without         *)
(* subscription is a null pointer.                                         *)
Dispatch(nonce) ==
    LET type == issued[nonce]
    IN  IF type \in subscribe_map
          THEN pc' = "ack" /\ handled' = [handled EXCEPT ![type] = Append(@, nonce)]
          ELSE pc' = "crashed" /\ UNCHANGED handled

(* Fault: a failed Read is tried again.                                    *)
ReadFailsAgain == stream = "ended" /\ UNCHANGED <<pc, response>>

(* Fault: the Read is not waited for.                                      *)
ReadNotAwaited == response' = 0 /\ pc' = "ack"

(* A failed Read, after which the turn goes on with an empty response.     *)
ReadFails == stream = "ended" /\ response' = 0 /\ pc' = "ack"

(* receiveADS: one response, of whatever type, or a failed Read.           *)
ReceiveADS ==
    /\ pc = "receive"
    /\ \/ /\ inbox # <<>>
          /\ response' = Head(inbox) /\ inbox' = Tail(inbox)
          /\ Dispatch(Head(inbox))
       \/ inbox = <<>> /\ ReadFails /\ UNCHANGED <<inbox, handled>>
    /\ UNCHANGED <<linkVars, subscriptionLogger, index, request, stream, issued, wire>>

(* Fault: the nonce of the response is not set.                            *)
AckWithoutNonce == request

(* The request of the turn, with the version and nonce of its response.    *)
Ack == [request EXCEPT !.nonce = response]

(* Fault: the loop over the types runs once too often.                     *)
MoreTypesOnce == index <= Len(urlList)

MoreTypes == index < Len(urlList)

(* sendACK, and the next turn of the loop.                                 *)
SendACK ==
    /\ pc = "ack"
    /\ request' = Ack
    /\ Write(Ack)
    /\ IF MoreTypes THEN pc' = "subscribe" /\ index' = index + 1
                    ELSE pc' = "done" /\ UNCHANGED index
    /\ UNCHANGED <<linkVars, subscriptionLogger, response, handled, stream, inbox,
                   issued>>

(* The server (external) sends responses of any type at any time: of types *)
(* not requested yet, of types this client does not know, several of one.  *)
ServerPush(type) ==
    /\ stream = "open" /\ Len(issued) < MaxResponses
    /\ issued' = Append(issued, type)
    /\ inbox' = Append(inbox, Len(issued) + 1)
    /\ UNCHANGED <<linkVars, clientVars, stream, wire>>

(* The stream ends, and the last responses may be lost.                    *)
ServerEnd ==
    /\ stream = "open"
    /\ stream' = "ended"
    /\ \E k \in 0..Len(inbox) : inbox' = SubSeq(inbox, 1, k)
    /\ UNCHANGED <<linkVars, clientVars, issued, wire>>

ClientStep == InitSubscribe \/ ReceiveADS \/ SendACK

(* startClient has returned, or the process is gone.                       *)
Terminated == pc \in {"done", "crashed"} /\ UNCHANGED vars

Next == \/ \E address \in Addresses \cup {EnvAddress}, nodeId \in NodeIds \cup {NoId},
              logger_ \in Loggers \cup {Null} : InitLink(address, nodeId, logger_)
        \/ StartClient
        \/ ClientStep
        \/ \E type \in Types : ServerPush(type)
        \/ ServerEnd
        \/ Terminated

(* The thread of startClient runs; the server owes nothing.                *)
Spec == Init /\ [][Next]_vars /\ WF_vars(ClientStep)

-----------------------------------------------------------------------------
(* Properties.                                                             *)

Requests == [url : Range(urlList), resource_names : SUBSET {"outbound", "80"},
             id : Ids, nonce : Nat]

(* Type correctness; the loop never goes past the last type.               *)
TypeOK ==
    /\ instance \in Instances \cup {Null}
    /\ managerLogger \in Loggers \cup {Noop, Null}
    /\ subscriptionLogger \in Loggers \cup {Noop, Null}
    /\ subscribe_map \subseteq Range(urlList)
    /\ pc \in {"idle", "subscribe", "receive", "ack", "done", "crashed"}
    /\ index \in DOMAIN urlList /\ response \in Nat
    /\ request = Null \/ request \in Requests
    /\ handled \in [Range(urlList) -> Seq(Nat)]
    /\ stream \in {"none", "open", "ended"}
    /\ inbox \in Seq(Nat) /\ issued \in Seq(Types) /\ wire \in Seq(Requests)

Acked == {wire[i].nonce : i \in DOMAIN wire} \ {0}

(* What is acknowledged has been given to the subscription of its own      *)
(* type, although it is acknowledged for the type of the turn that read    *)
(* it; and what the subscriptions have got is acknowledged as long as the  *)
(* stream is open, but for the response of this turn.  Each gets its       *)
(* responses once, in the order they were sent (AdsManager.cpp:72-74,      *)
(* 129, 139-142).                                                          *)
AckedAsHandled ==
    /\ \A n \in Acked : /\ issued[n] \in Range(urlList)
                       /\ n \in Range(handled[issued[n]])
    /\ \A t \in Range(urlList) :
          /\ \A i, j \in DOMAIN handled[t] : i < j => handled[t][i] < handled[t][j]
          /\ stream = "open" =>
                Range(handled[t]) \subseteq Acked \cup (IF pc = "ack" THEN {response} ELSE {})

(* Only a response of a type without subscription is fatal: the loop never *)
(* meets a null subscription of its own, although nothing checks for one.  *)
CrashOnlyOnOtherType ==
    pc = "crashed" => response # 0 /\ issued[response] \in OtherTypes

(* An acknowledgement that reaches the server names a response: the empty  *)
(* response of a failed Read is never acknowledged, since the stream has   *)
(* ended then (AdsManager.cpp:130-132, 74).  It names no response twice.   *)
AcksNameResponses ==
    /\ Len(wire) % 2 = 0 /\ wire # <<>> => wire[Len(wire)].nonce # 0
    /\ \A i, j \in DOMAIN wire : i < j /\ wire[j].nonce # 0 => wire[i].nonce < wire[j].nonce

(* However often init is called, and by whichever of its overloads, every  *)
(* request identifies the node of the first call, and goes to its address. *)
FirstInitWins ==
    /\ instance # Null => instance.address = asked.address
    /\ \A i \in DOMAIN wire : wire[i].id = LocalInfo(asked.id)

(* A response is logged where the last init with a logger asked for; never *)
(* through the null pointer the static loggers start as.                   *)
ResponsesLogged == response # 0 => subscriptionLogger = asked.logger

(* When the stream ends startClient returns, or has crashed.               *)
ReturnsAfterEnd == (stream = "ended") ~> (pc \in {"done", "crashed"})

(* An acknowledgement names a response of the type it is sent for          *)
(* (discovery.proto: the "nonce corresponding to DiscoveryResponse being   *)
(* ACK/NACKed", each type_url with its own version).  This fails: the      *)
(* acknowledgement is sent for the type of the turn.                       *)
AcksOwnType ==
    \A i \in DOMAIN wire : wire[i].nonce # 0 => issued[wire[i].nonce] = wire[i].url

(* But it holds with a server that sends one response of each type, in the *)
(* order of the requests.                                                  *)
OrderlyAcks ==
    (\A n \in DOMAIN issued : n \in DOMAIN urlList /\ issued[n] = urlList[n]) => AcksOwnType
=============================================================================
