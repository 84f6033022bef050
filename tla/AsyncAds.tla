------------------------------ MODULE AsyncAds ------------------------------
(***************************************************************************)
(* AsyncAdsClient::do_something: the reactor Chatter on the stack of the   *)
(* thread that constructs it and waits in Await, and the callbacks gRPC    *)
(* runs on threads of its own.                                             *)
(*                                                                         *)
(* gRPC (external) runs nothing before StartCall, completes each operation *)
(* that was started with one callback, and calls OnDone last, once the     *)
(* stream has ended and no operation is outstanding.                       *)
(***************************************************************************)
EXTENDS Naturals, Sequences

CONSTANTS
    MaxResponses,    \* bound: responses the server sends
    MaxSpurious      \* bound: wake-ups of cv_.wait without notification

ASSUME BoundAssumption == MaxResponses \in Nat /\ MaxSpurious \in Nat

VARIABLES
    main,            \* the thread of do_something
    lock,            \* owner of mu_
    done_,
    doneCb,          \* where OnDone is
    requests_iterator_,
    op,              \* the operation outstanding on the sending side
    sent,            \* requests delivered to the server
    halfClosed,      \* has the server been told that no other comes?
    reading,         \* is a Read outstanding?
    response_,       \* responses read
    stream, pending, \* is the call on?  responses on their way
    spurious         \* wake-ups without notification

waitVars  == <<main, lock, done_, doneCb, spurious>>
writeVars == <<requests_iterator_, op, sent, halfClosed>>
readVars  == <<reading, response_>>
callVars  == <<stream, pending>>
vars == <<waitVars, writeVars, readVars, callVars>>

(* The constructor pushes one request.                                     *)
Requests == 1

Init ==
    /\ main = "construct" /\ lock = "free" /\ done_ = FALSE /\ doneCb = "no"
    /\ requests_iterator_ = 0 /\ op = "none" /\ sent = 0 /\ halfClosed = FALSE
    /\ reading = FALSE /\ response_ = 0
    /\ stream = "none" /\ pending = 0 /\ spurious = 0

(* Chatter is on the stack until do_something leaves its scope.            *)
Alive == main # "destroyed"

(* NextWrite: the next request, or WritesDone after the last.  The         *)
(* iterator moves after StartWrite; no OnWriteDone can run in between,     *)
(* since the only StartWrite precedes StartCall.                           *)
NextWrite ==
    IF requests_iterator_ < Requests
      THEN op' = "write" /\ requests_iterator_' = requests_iterator_ + 1
      ELSE op' = "writesDone" /\ UNCHANGED requests_iterator_

(* The constructor: NextWrite, StartRead, StartCall.  The operations begin *)
(* with StartCall, so it is one step.                                      *)
Construct ==
    /\ main = "construct"
    /\ NextWrite
    /\ reading' = TRUE
    /\ stream' = "open"
    /\ main' = "await"
    /\ UNCHANGED <<lock, done_, doneCb, spurious, sent, halfClosed, response_, pending>>

(* OnWriteDone, whatever its result, and the completion of WritesDone.     *)
OnWriteDone ==
    /\ op = "write" /\ stream # "none"
    /\ sent' = IF stream = "open" THEN sent + 1 ELSE sent
    /\ NextWrite
    /\ UNCHANGED <<waitVars, halfClosed, readVars, callVars>>

OnWritesDoneDone ==
    /\ op = "writesDone" /\ stream # "none"
    /\ op' = "finished"
    /\ halfClosed' = (stream = "open")
    /\ UNCHANGED <<waitVars, requests_iterator_, sent, readVars, callVars>>

(* Fault: after a response nothing is read.                                *)
ReadOnce(ok) == FALSE

(* OnReadDone starts the next Read after a response, none after a failure. *)
StartRead(ok) == ok

OnReadDone ==
    /\ reading
    /\ \/ /\ pending > 0
          /\ pending' = pending - 1 /\ response_' = response_ + 1
          /\ reading' = StartRead(TRUE)
       \/ /\ pending = 0 /\ stream = "ended"
          /\ reading' = StartRead(FALSE)
          /\ UNCHANGED <<pending, response_>>
    /\ UNCHANGED <<waitVars, writeVars, stream>>

(* OnDone: takes mu_, ...                                                  *)
OnDone ==
    /\ stream = "ended" /\ doneCb = "no"
    /\ ~reading /\ op \notin {"write", "writesDone"}
    /\ lock = "free"
    /\ lock' = "OnDone" /\ doneCb' = "locked"
    /\ UNCHANGED <<main, done_, spurious, writeVars, readVars, callVars>>

(* Fault: mu_ is released before notify_one.                               *)
SetDoneUnlocked ==
    /\ doneCb = "locked"
    /\ done_' = TRUE /\ doneCb' = "notify" /\ lock' = "free"
    /\ UNCHANGED <<main, spurious, writeVars, readVars, callVars>>

(* ... sets done_ ...                                                      *)
SetDone ==
    /\ doneCb = "locked"
    /\ done_' = TRUE /\ doneCb' = "notify"
    /\ UNCHANGED <<main, lock, spurious, writeVars, readVars, callVars>>

(* Fault: nobody is notified, and a thread that waits hangs.               *)
NotifyNobody ==
    \/ /\ doneCb = "notify"
       /\ doneCb' = "unlock"
       /\ UNCHANGED <<main, lock, done_, spurious, writeVars, readVars, callVars>>
    \/ doneCb = "returned" /\ main = "waiting" /\ UNCHANGED vars

(* ... and wakes the waiting thread ...                                    *)
NotifyOne ==
    /\ doneCb = "notify"
    /\ main' = IF main = "waiting" THEN "woken" ELSE main
    /\ doneCb' = "unlock"
    /\ UNCHANGED <<lock, done_, spurious, writeVars, readVars, callVars>>

(* ... before it releases mu_.                                             *)
OnDoneReturns ==
    /\ doneCb = "unlock"
    /\ doneCb' = "returned"
    /\ lock' = IF lock = "OnDone" THEN "free" ELSE lock
    /\ UNCHANGED <<main, done_, spurious, writeVars, readVars, callVars>>

(* Await takes mu_, at first or when it is woken, ...                      *)
AwaitLock ==
    /\ main \in {"await", "woken"} /\ lock = "free"
    /\ lock' = "Await" /\ main' = "check"
    /\ UNCHANGED <<done_, doneCb, spurious, writeVars, readVars, callVars>>

(* ... tests done_, and waits with mu_ released if it is not set.          *)
AwaitCheck ==
    /\ main = "check"
    /\ lock' = "free"
    /\ main' = IF done_ THEN "returned" ELSE "waiting"
    /\ UNCHANGED <<done_, doneCb, spurious, writeVars, readVars, callVars>>

(* A wait may end without a notification.                                  *)
SpuriousWakeup ==
    /\ main = "waiting" /\ spurious < MaxSpurious
    /\ main' = "woken" /\ spurious' = spurious + 1
    /\ UNCHANGED <<lock, done_, doneCb, writeVars, readVars, callVars>>

(* do_something returns and the Chatter is destroyed.                      *)
Destroy ==
    /\ main = "returned"
    /\ main' = "destroyed"
    /\ UNCHANGED <<lock, done_, doneCb, spurious, writeVars, readVars, callVars>>

(* The server and the connection (external).                               *)
ServerSend ==
    /\ stream = "open" /\ pending + response_ < MaxResponses
    /\ pending' = pending + 1
    /\ UNCHANGED <<waitVars, writeVars, readVars, stream>>

ServerEnd ==
    /\ stream = "open"
    /\ stream' = "ended"
    /\ pending' \in 0..pending
    /\ UNCHANGED <<waitVars, writeVars, readVars>>

Terminated == ~Alive /\ doneCb = "returned" /\ UNCHANGED vars

Library == \/ OnWriteDone \/ OnWritesDoneDone \/ OnReadDone
           \/ OnDone \/ SetDone \/ NotifyOne \/ OnDoneReturns
Thread == Construct \/ AwaitLock \/ AwaitCheck \/ Destroy

Next == Library \/ Thread \/ SpuriousWakeup \/ ServerSend \/ ServerEnd \/ Terminated

(* Callbacks run and threads are scheduled; wake-ups without notification  *)
(* and the server are not relied on.                                       *)
Spec == /\ Init /\ [][Next]_vars
        /\ WF_vars(OnWriteDone \/ OnWritesDoneDone) /\ WF_vars(OnReadDone)
        /\ WF_vars(OnDone \/ SetDone \/ NotifyOne \/ OnDoneReturns)
        /\ WF_vars(Thread)

-----------------------------------------------------------------------------
(* Properties.                                                             *)

(* The Chatter is on the stack of do_something, and outlives everything    *)
(* gRPC does with it: when it is destroyed OnDone has left its critical    *)
(* section and no operation is outstanding (AsyncAdsClient.cpp:46-56, 90). *)
NotDestroyedInUse ==
    ~Alive => doneCb = "returned" /\ ~reading /\ op \notin {"write", "writesDone"}

OneShotClient == INSTANCE OneShot WITH
    sent <- sent = Requests,
    received <- response_,
    returned <- ~Alive

(* The callbacks and the waiting thread together behave as the client of   *)
(* OneShot: the request precedes the close, every response that arrived is *)
(* read, and do_something returns when the stream ends, and not before.    *)
ImplementsOneShot == OneShotClient!Spec

(* The safety part of it.                                                  *)
SafelyImplementsOneShot == OneShotClient!Safety

(* When the stream ends do_something returns, without spurious wake-ups    *)
(* too: no order of OnDone and Await loses the notification.               *)
AwaitReturns == (stream = "ended") ~> ~Alive
=============================================================================
