# Verification of the xDS client

TLA+ models of the ADS (Aggregated Discovery Service) clients of this
repository, the TLC runs that check them, and TLAPS proofs of what matters most.
Paths are relative to the repository; `apc/` stands for
`src/ads_protocol_client/`.

## The system

The repository holds four independent clients of one gRPC method,
`StreamAggregatedResources`, a bidirectional stream of `DiscoveryRequest` and
`DiscoveryResponse`. The schema under `schema/` is third-party.

| component | state | operations | what is hard |
|---|---|---|---|
| ADS multiplexer, `apc/AdsClient.{h,cpp}` | stream, request queue, list of subscriptions, an `ApiState` per type (next request, subscribed flag, watches), shutdown flag | `onStreamEstablished`, `queueDiscoveryRequest`, `drainRequests`, `sendDiscoveryRequest`, `onDiscoveryResponse`, `addWatch`, `shutdown` | the functions call each other while they block in `Read`; reconnects; shutdown on another thread |
| Watcher, `apc/Watcher.h` | its resource names, its place on the list of its type | constructor, `update`, destructor | an update sends two requests, with the watch off the list at the first |
| `apc/main.cpp` | | one stream, then `shutdown` | |
| chat, `apc/AdsClient.h:59-128` | one request, version and nonce of the last response | `AggregatedDiscoveryService`, `continueChat` | uses the stream of the multiplexer and none of its state |
| anylink, `apc/anylink/` | a singleton link manager, an ADS manager with a map of four subscriptions, the node, two static loggers | `init`, `startLink`, `startClient`: subscribe, receive, acknowledge for each type in turn | responses that are late, repeated, of another type; failed reads; `init` again |
| asynchronous sample, `src/asnyc_ads/` | a reactor on the stack with a mutex, a condition variable and a flag | callbacks on gRPC threads, `Await` | lifetime of the reactor, lost notifications |
| blocking sample, `src/ads/` | a writer thread and a reading thread on one stream | `Write`, `WritesDone`, `Read`, join, `Finish` | the stream ends at any point of the writer |
| resource decoding, `apc/DecodedResource.h`, `apc/OpaqueResourceDecoder.h` | none | `fromResource`, the constructors | bytes that cannot be parsed, wrapped and bare resources |
| descriptor loading, `apc/protofile/` | a descriptor pool | recursive `loadFileDescriptors` (two copies), `parseInto`, which always fails | shared imports, termination |

Components share no state at run time: each program is one of the clients and a
server. Inside a client the interaction is by calls (the multiplexer and its
watches, the manager and its subscriptions), by callbacks (the reactor) and by
a shared stream (the two sample clients, `shutdown`, the chat).

The properties that make each of them correct: the requests on the wire carry
the node, the type, the current names, and a nonce and a version that say
truthfully what was received and applied; the bookkeeping behind them survives
re-entrance and reconnects; a call returns when its stream ends; no object is
used after its end; every response that arrived is read.
`PROJECT.json` lists the hazards at their lines.

## The modules

**AdsClient** is the core. The call chain `onDiscoveryResponse` →
`queueDiscoveryRequest` → `drainRequests` → `sendDiscoveryRequest` → `Read` →
`onDiscoveryResponse` nests without limit, but each activation returns into the
Read loop of the one below it, so the stack is three variables: `depth` (the
number of active `drainRequests`), `pc` (where the innermost is) and `caller`
(where the outermost returns to). One action stands for the code between two
points at which another thread or the server may act: `DrainRequests` (loop
test, shutdown test), `WriteRequest` (build and `Write`), `OnDiscoveryResponse`
(a `Read` that succeeds, with its handler), `ReadEnds` (a `Read` that fails),
`PopRequest`. `pop()` on an empty queue is undefined behaviour: the process
goes to a state of which nothing is said. A nonce is the index of a response
among all the server has sent; `node` and `type_url` of a request are whether the
field is set; names and versions are small sets. The application may open a
stream, add, update and destroy watches, and shut down, when its thread is free;
with `ShutdownThread` shutdown runs beside the blocked client.

`shutdown()` is three steps, between which the client's thread goes on, and it
may be called any number of times, one call after the other: `Shutdown`
(`WritesDone`, on the stream `stream_` holds then), `ShutdownFinish` (`Finish`
returns, on the stream `stream_` holds by then, once that stream has ended) and
`ShutdownSet` (the flag). Without a stream the first two dereference a null
pointer. `WritesDone` or a `Write` on a stream on which `WritesDone` has been
called is a misuse of gRPC, which aborts or not (`AfterWritesDone`). A reconnect
between `WritesDone` and `Finish` replaces the stream and its owner frees it, so
`Finish` may meet a freed object; that state, "freed", is one more of which
nothing is said. Two threads in `shutdown()` at once are left out. Also left out,
because nothing sets it: `pauses_`, `pending_`, `must_send_node_`, `error_detail`.

gRPC and the server (external) deliver what is written on an open stream, send
any responses of any type, asked for or not, and end the stream at any time with
the loss of the last responses. A second `onStreamEstablished` is allowed because the code provides for
reconnects, although gRPC wants a new `ClientContext` for each call.

**AckProtocol** is the abstract specification of what a management server sees of
an ADS client, as `discovery.proto` describes it: a request names the last
response of its type that was received on the stream and the last version that
was applied, on this stream or an earlier one; on a new stream nothing has been
received. `ImplementsAckProtocol` of AdsClient is this specification under a
mapping of the records (`Offered`, `Received`, `Applied`, `Delivered`): the
nested handlers, the queue, the watches and the shutdown do not show. Which
responses count as applied is left open, and `VersionsOfEmpty` says what the
code does about it: a version is taken from an empty response only, one that came
before what the request answers. A response with resources is therefore
acknowledged only if an earlier empty response had the same version, and then by
accident.

**AdsChat** extends AdsClient by the chat. It runs on the application's thread
when the multiplexer is idle; `StartChat`, `ChatRead`, `continueChat` and
`ChatEnds` are its steps between two blocking calls, and beside it shutdown on
its own thread and the server go on.

**AdsManager** models `IstioLinkManager`, `AdsManager`, the four `Subscription`s
and the node id of `LocalInfo`: each asynchronous operation is followed at once
by `cq_.Next`, so an operation and its completion are one step. A null
subscription is a crash. The server sends any type at any time, requested or not.
`init` may be called any number of times, in both forms,
with and without a logger, before `startLink`, which is called once (its
`context_` allows no second call). What `init` logs through its own `logger_`, which
may be null, before it tests it (`IstioLinkManager.cpp:24`, `:47`) is left out: the
macro `GATEWAY_LOG` is not in the repository. The variable `asked` records with what `init`
was called, for the properties.

**OneShot** is the abstract specification of the two sample clients: send the
request, close the sending side, read everything, return when the stream has
ended. **SyncAds** (two threads) and **AsyncAds** (reactor, mutex, condition
variable with spurious wake-ups) implement it: `ImplementsOneShot` is
`OneShot!Spec`, fairness included, under the substitution of what each counts
as received, sent and returned.

**FileDescriptors** models both copies of `loadFileDescriptors` by a stack of
frames; `base64Decoded` says which. The function of `file_descriptor_info.cc` uses
neither the result of `Base64Unescape` nor that of `ParseFromString` (`:23-24`): it is
assumed that both succeed on the bytes built into the program and give the named
file with the imports `deps` lists. **ResourceDecoding** is a pure function with
a set of outcomes, since `ParseFromString` leaves part of a message when it fails;
its input is an `Any`, bare or with a wrapper in it, a `Resource`, an
`InlineEntry` or a message.

**MCAdsClient** and **MCAdsChat** give constants their values for TLC.
Definitions marked "Fault:" are the definition after them with a plausible
error; each property of a passing run fails with one of them.

## The runs

| run | checks | bounds |
|---|---|---|
| `ads_main` | `TypeOK`, `RepliesSent`, `ResponsesAnswered`, `UndefinedOnlyAfterResponse`, `OneSendAfterShutdown`, `ReturnsAfterEnd` | one type and a watch that may come and go, shutdown on its own thread again and again; 2 streams, 3 responses. The program of `main.cpp` is one of the applications |
| `ads_watch` | what the wire carries and the bookkeeping: `QueueWithinCalls`, `NoncesOfThisStream`, `NoncesNeverGoBack`, `OnlyClusterRequested`, `TypedRequests`, `VersionsOfEmpty`, `SubscriptionsMatch`, `WireNamesCurrent`; `NestedSends`, `NoWriteAfterShutdown`; `ImplementsAckProtocol` | two types with a watch of each, 2 streams, 2 responses of 2 versions, which are symmetric |
| `chat` | `ChatOnlyAfterShutdown`, `ChatAnswersAll`, `ChatReturns` | one type, 3 streams (one to shut down on, two to chat on), 2 responses of 2 versions, shutdown on its own thread |
| `manager` | `TypeOK`, `AckedAsHandled`, `CrashOnlyOnOtherType`, `AcksNameResponses`, `OrderlyAcks`, `FirstInitWins`, `ResponsesLogged`, `ReturnsAfterEnd` | the four types and an unknown one, 4 responses, one for every turn; two addresses, two node ids, with and without a logger |
| `async_client` | `NotDestroyedInUse`, `ImplementsOneShot`, `AwaitReturns` | 3 responses, 2 spurious wake-ups |
| `sync_client` | `TypeOK`, `FinishAlone`, `ImplementsOneShot` | 4 responses |
| `descriptors` | `BuiltOnce`, `LoadedWithImports`, `LoadReturns` | both copies, every acyclic import graph over 4 files, 2 loads |
| `decoding` | `VersionOfResponse`, `WrappingIsTransparent` | all four kinds of input, two values of everything |

The bounds are the smallest at which the interesting cases occur: two streams
for what must not survive a reconnect, two responses for nesting and for order,
two types for what must not cross from one to the other, four files for a
diamond of imports below another file. The theorems below remove them for every
invariant and every safety property of every run; for liveness they stay.

Four more runs check what a comment of the code or of the protocol says and TLC
refutes:

| run | refuted | the code |
|---|---|---|
| `ads_underflow` | `NoUnderflow` | after one response with resources and the end of the stream, `drainRequests` pops an empty queue |
| `ads_subscriptions` | `SubscriptionsRequested` | subscriptions after the first are not requested while the stream is open |
| `ads_version` | `WatchedResponseAcked` | a watched response is never acknowledged with its version |
| `manager_ack` | `AcksOwnType` | a response of another type is acknowledged for the type of the turn |

More of what comments say is not what the code does; the models follow the code,
and no run is spent on it because one line of the source shows it:

* `shutdown()` ends the stream before it sets `shutdown_`
  (`apc/AdsClient.h:52-55`), so a request may be written in between, although
  no messages should be sent during shutdown (`:206`). Nor does the flag stop all of
  them: when `Finish` has returned, the client can reconnect and get past the test
  of the flag (`apc/AdsClient.cpp:109`) before it is set, and then write on the new
  stream. `OneSendAfterShutdown` says what does hold: that request is the only one.
  `NoWriteAfterShutdown` says that a client which shuts down on its own thread has
  no such window.
* The first request of a stream sets the node only for a type that is not yet
  subscribed (`apc/AdsClient.cpp:130-136`), so after an `addWatch` of that type
  (`:282-286`) the stream starts without it, although only subsequent requests may
  skip it (`config_source.proto:111`). In the model `node` is then not set.
* The chat writes without a look at `shutdown_` (`apc/AdsClient.h:102`), which is
  the only time it can be heard (`ChatOnlyAfterShutdown`); its first request
  carries the nonce of the last call, and each call appends to the node id.
* The transcoder builds an empty file instead of the one it was given
  (`text_format_transcoder.cc:63-66`) and returns no dynamic message with or
  without a descriptor (`:123`), so `parseInto` always returns false.
* `getStringField` returns the empty string for every field
  (`OpaqueResourceDecoder.h:55`), so a bare resource has no name, and
  `unpackToOrThrow` logs a parse failure and goes on (`:13-18`).

Fairness is weak fairness of threads that have something to run: the client
thread, the thread of `shutdown()`, the callbacks gRPC owes for operations that
were started. Nothing is assumed of the server, of the application, or of
spurious wake-ups, so liveness is stated from the end of the stream:
`ReturnsAfterEnd`, `AwaitReturns`, `ChatReturns`. `ResponsesAnswered` needs the
client thread only: what has arrived is answered while the stream is open, for
the handlers of the model never wait with a response in the inbox. A client
whose server keeps the stream open waits for ever, by design.

## The proofs

`AdsClientProofs` proves for every set of types, names and watches and every
bound, from the assumptions AdsClient names (`Cluster` is a type, each watch has
a type, the empty version is no version, the bounds are naturals):

* `TypeCorrect`, and `BoundedQueue`: the queue is no longer than the nesting;
* `OnlyCluster`, `Typed`, `Nonces`, `NoncesForward`, `VersionsOnlyOfEmpty`,
  `CurrentNames`: the properties of `ads_watch` about the wire;
* `Subscriptions`: the list and the flags agree;
* `UndefinedNeedsResponse`, `ClusterAnswered`;
* `SilentAfterShutdown`: once the flag is set, one more request at most
  (`OneSendAfterShutdown`);
* `Nesting`: the stack is as deep as there are requests on the open stream;
* `OneThread`: a client that shuts down on its own thread, once or repeatedly,
  never writes after `WritesDone`, nor on a later stream (`NoWriteAfterShutdown`);
* `AckRefinement`: the multiplexer implements AckProtocol.

None of the wire properties is inductive, as a request is made from `request_`,
which is filled in by earlier steps. The strengthening `IndInv` adds: where the
stack can be (`ControlInv`); that the inbox holds responses of this stream in
increasing order, all newer than any recorded nonce (`InboxInv`), which gives the
order of nonces; that recorded nonces and versions are those of responses of
their type (`NonceInv`, `VersionInv`); that the wire is not ahead of what is
recorded (`WireNonceInv`); that a nested activation or an emptied queue is the
work of a response (`NestInv`); that in the Read loop the last response is
answered (`AnswerInv`); that activations and requests are counted alike
(`NestedInv`); that no response is of a stream to come (`IssuedInv`); and the
heart of it, `OpenInv`: while a stream is open the client has not got past the
first request of `onStreamEstablished`, whose type is the constructor's, or the
flag is set and no request will be written but the one past its test. That one
request is counted apart from the others (`Activations` in `NestedInv`), since no
response to it is answered. The parts that do not look at the wire keep each other; they are
`CoreInv`, which the proofs about the chat use again. Each conjunct has a lemma
that every step preserves it, with a step per action; lemmas on `BuildRequest`, `RecordResponse`, `Write` and the queue carry
the reasoning about records and sequences.

`OneThread` has a small invariant of its own, `OneThreadInv`: while `shutdown()` runs
the thread is nowhere else, and after it `shutdown_` keeps it from `Write`.

`AckRefinement` takes the steps of AdsClient one by one: a delivered request is
`Request(Cluster)`, by `OpenInv`; a response that is recorded is `Receive`, with a
nonce above the last of its type by `InboxInv`; a push is `Offer`; a new stream is
`Connect`, with no offer on it by `IssuedInv` and no nonce kept by `NonceInv`,
which says that `clearNonce` has missed none; or `Fail` when the stub returns no
stream. Every other step leaves what the server sees unchanged.

`SyncAdsProofs` proves `FinishAlone` and that the blocking client implements the
safety part of OneShot, for any number of responses. The invariant relates the
two threads: while the stream is open the server has the request exactly when
the writer is past `Write`.

`AsyncAdsProofs` proves `NotDestroyedInUse` (`OutlivesCallbacks`) and that the
asynchronous client implements the safety part of OneShot, for any number of
responses and of spurious wake-ups. That the reactor may go when `Await` returns
rests on three facts that the invariant adds: the mutex is held by `OnDone` from
its first statement to its last and by `Await` while it tests `done_` (`LockInv`),
so the test and the callback exclude each other (`DoneInv`), and gRPC calls
`OnDone` only when no read and no write is outstanding (`OutstandingInv`).
`SendInv` gives the refinement: while the stream is open the server has the
request exactly when the write has completed.

`AdsChatProofs` extends `AdsClientProofs`. A chat writes on the multiplexer's
stream, so what `IndInv` says of the wire fails beside it; `CoreInv` does not, for
a step of the chat touches only the wire and the inbox (`CoreKept`).
`HeardOnlyAfterShutdown` then follows from `OpenInv`: the application is idle, so an
open stream means `shutdown_`. `ChatAnswers` (`ChatAnswersAll`) needs to know where
each response of the stream is: the requests after the first, the response that is
being answered and the inbox hold increasing nonces of this stream (`OrderInv`) and
none is missing (`CoveredInv`). Both start to hold with an empty wire and a full
inbox, because with `shutdown_` set nobody else writes or reads on an open stream
(`StartInv`, `BesideEffect`).

`AdsManagerProofs` proves all the invariants of the run `manager`, for any number of
responses, addresses, node ids and loggers. Besides the assumptions about types
it uses `AskedAssumption`: no address and no node id is the null value with which
`asked` starts. None of the invariants is inductive; what carries them is that a
turn reads one response at most, so while the stream is open turn k reads and
acknowledges the k-th response, whatever its type (`TurnInv`), and the wire
alternates between requests and acknowledgements (`WireInv`, `Placed`). For
`Dispatched` (`AckedAsHandled`) it also says that what a subscription has handled
was read, in order (`HandledInv`), and before it was acknowledged (`AckInv`). A failed
`Read` leaves the empty response, but only on a stream that has ended, where the
acknowledgement does not get through. `LinkInv` says what any sequence of `init`
leaves behind, `RequestInv` which node and logger a turn has.

`FileDescriptorsProofs` proves `BuiltOnce` and `LoadedWithImports` for every acyclic
import graph, any number of files and of loads, of the copy that decodes its input
(the other builds nothing that has a name). No induction over the graph is needed:
the files on the stack get smaller, so none is on it twice (`StackInv`), and what
an activation has been through is in the pool, but for the import being loaded,
which is the next activation (`LoadingInv`).

`ResourceDecodingProofs` proves the two properties of decoding for every set of
names, fields and versions; `StringAssumption` says that the empty string is none
of them nor a type URL. The invariant is that the result is an outcome of the
constructor for the kind of the input, and `OutcomeShape` reduces all of them to
the private constructor, a message that was decoded elsewhere excepted.

Every inductive invariant was checked with TLC on the bounds of its run before it
was proved.

Only model-checked: liveness, which the proof system does not reach
(`ReturnsAfterEnd`, `ResponsesAnswered`, `ChatReturns`, `AwaitReturns`,
`LoadReturns`, and with them the fairness part of `ImplementsOneShot`, of which
the theorems `Refinement` prove the safety part `SafelyImplementsOneShot`).

## Not modelled

* `apc/anylink/grpc/manager/AdsConnection.cpp`: a loop around stubs, over a map
  nothing fills; nothing constructs the class. `AdsManager::sendNACK`: private,
  without a caller.
* `schema/greetings_*`: what is left of a hello-world, in no build target.
* `LocalUtil`, `Config.h`, `State.h`, `ResourceKey.h`,
  `ResourceName.h`, `XdsSignal.h`, `ResourceDecoder.h`, `proto_descriptors.cc`:
  constants, data types, and functions with an empty or constant result.
* `TextFormatTranscoder::parseInto` and what it calls: it changes nothing and always
  returns false.
* Chat and multiplexer on two threads at once: gRPC allows one reader and one writer.
* Log output, and the contents of nodes (but for the id) and of resources.
* The reuse of `context_` by a second `onStreamEstablished` or `startClient`: what
  gRPC does then is outside the source.

## Plan

Done: the multiplexer with its watches, shutdown, the chat and the proofs, among
them the refinement of AckProtocol; the manager with `init`, the four
subscriptions and the node id; the two sample clients with OneShot; descriptor
loading; decoding. What is left of the source is listed above with its reason.
The invariants and action properties of all the runs are theorems. Next, in order:

1. Lemmas on AckProtocol itself: what the abstract specification implies for a
   server (no nonce from another stream, nonces that never go back), so that the
   properties of the wire follow from the refinement as well.
2. What of the multiplexer survives a chat on its stream: the invariants of
   `IndInv` about the bookkeeping, under `ChatSpec`.
