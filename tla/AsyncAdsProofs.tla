--------------------------- MODULE AsyncAdsProofs ---------------------------
(***************************************************************************)
(* For every number of responses and of spurious wake-ups: the Chatter of  *)
(* asnyc_ads outlives its callbacks, and do_something implements the       *)
(* safety part of OneShot.                                                 *)
(***************************************************************************)
EXTENDS AsyncAds, TLAPS

(* The values of the variables.                                            *)
TypeInv ==
    /\ main \in {"construct", "await", "check", "waiting", "woken", "returned",
                 "destroyed"}
    /\ lock \in {"free", "OnDone", "Await"} /\ done_ \in BOOLEAN
    /\ doneCb \in {"no", "locked", "notify", "unlock", "returned"}
    /\ requests_iterator_ \in Nat /\ sent \in Nat /\ halfClosed \in BOOLEAN
    /\ op \in {"none", "write", "writesDone", "finished"}
    /\ reading \in BOOLEAN /\ response_ \in Nat
    /\ stream \in {"none", "open", "ended"} /\ pending \in Nat

(* mu_ is held by OnDone from its first statement to its last, and by      *)
(* Await while it tests done_.                                             *)
LockInv ==
    /\ lock = "OnDone" <=> doneCb \in {"locked", "notify", "unlock"}
    /\ lock = "Await" <=> main = "check"

(* done_ is set by OnDone, and nothing gets past Await before OnDone has   *)
(* returned: the test of done_ and the whole of OnDone exclude each other. *)
DoneInv ==
    /\ done_ <=> doneCb \in {"notify", "unlock", "returned"}
    /\ main \in {"returned", "destroyed"} => doneCb = "returned"

(* Nothing is outstanding when OnDone runs.  The chain of Reads breaks     *)
(* only on a stream that has ended with nothing left to read.              *)
OutstandingInv ==
    /\ main = "construct" <=> stream = "none"
    /\ stream = "none" => ~reading /\ doneCb = "no"
    /\ ~reading /\ stream # "none" => stream = "ended" /\ pending = 0
    /\ doneCb # "no" => stream = "ended" /\ ~reading /\ op = "finished"

(* How far the sending side is, and what the server has of it while the    *)
(* stream is open.                                                         *)
SendInv ==
    /\ op = "none" <=> stream = "none"
    /\ requests_iterator_ = IF op = "none" THEN 0 ELSE Requests
    /\ op \in {"none", "write"} => sent = 0
    /\ op # "finished" => ~halfClosed
    /\ stream = "open" => /\ op \in {"writesDone", "finished"} => sent = Requests
                          /\ op = "finished" => halfClosed

IndInv == TypeInv /\ LockInv /\ DoneInv /\ OutstandingInv /\ SendInv

(* The constructor has not run: the inductive invariant holds.             *)
LEMMA InitInv == Init => IndInv
<1> SUFFICES ASSUME Init PROVE IndInv
  OBVIOUS
<1>1. TypeInv
  BY DEF Init, TypeInv
<1>2. LockInv /\ DoneInv /\ OutstandingInv
  BY DEF Init, LockInv, DoneInv, OutstandingInv
<1>3. SendInv
  BY DEF Init, SendInv
<1> QED
  BY <1>1, <1>2, <1>3 DEF IndInv

(* Every callback, every step of the thread and of the server preserves    *)
(* it.                                                                     *)
LEMMA StepInv == IndInv /\ [Next]_vars => IndInv'
<1> SUFFICES ASSUME IndInv, [Next]_vars PROVE IndInv'
  OBVIOUS
<1> USE DEF IndInv, TypeInv, LockInv, DoneInv, OutstandingInv, SendInv, Requests,
            waitVars, writeVars, readVars, callVars
<1>1. CASE OnWriteDone
  BY <1>1 DEF OnWriteDone, NextWrite
<1>2. CASE OnWritesDoneDone
  BY <1>2 DEF OnWritesDoneDone
<1>3. CASE OnReadDone
  <2>1. reading /\ UNCHANGED <<waitVars, writeVars, stream>>
    BY <1>3 DEF OnReadDone
  <2>2. \/ /\ pending > 0 /\ pending' = pending - 1 /\ response_' = response_ + 1
           /\ reading' = TRUE
        \/ /\ pending = 0 /\ stream = "ended" /\ UNCHANGED <<pending, response_>>
           /\ reading' = FALSE
    BY <1>3, Zenon DEF OnReadDone, StartRead
  <2>3. CASE pending > 0 /\ reading' = TRUE
    <3>1. pending' \in Nat /\ response_' \in Nat
      BY <2>2, <2>3
    <3> QED
      BY <2>1, <2>3, <3>1
  <2>4. CASE pending = 0 /\ stream = "ended" /\ reading' = FALSE
    <3>1. pending' = pending /\ response_' = response_
      BY <2>2, <2>4
    <3> QED
      BY <2>1, <2>4, <3>1
  <2> QED
    BY <2>2, <2>3, <2>4
<1>4. CASE OnDone
  BY <1>4 DEF OnDone
<1>5. CASE SetDone
  BY <1>5 DEF SetDone
<1>6. CASE NotifyOne
  BY <1>6 DEF NotifyOne
<1>7. CASE OnDoneReturns
  BY <1>7 DEF OnDoneReturns
<1>8. CASE Construct
  BY <1>8 DEF Construct, NextWrite
<1>9. CASE AwaitLock
  BY <1>9 DEF AwaitLock
<1>10. CASE AwaitCheck
  BY <1>10 DEF AwaitCheck
<1>11. CASE Destroy
  BY <1>11 DEF Destroy
<1>12. CASE SpuriousWakeup
  BY <1>12 DEF SpuriousWakeup
<1>13. CASE ServerSend
  BY <1>13 DEF ServerSend
<1>14. CASE ServerEnd
  BY <1>14 DEF ServerEnd
<1>15. CASE Terminated \/ UNCHANGED vars
  BY <1>15 DEF Terminated, vars
<1> QED
  BY <1>1, <1>2, <1>3, <1>4, <1>5, <1>6, <1>7, <1>8, <1>9, <1>10, <1>11, <1>12,
     <1>13, <1>14, <1>15
  DEF Next, Library, Thread

(* The inductive invariant holds in every state of every behaviour.        *)
THEOREM Invariance == Spec => []IndInv
<1> QED
  BY InitInv, StepInv, PTL DEF Spec

(* When do_something leaves the scope of the Chatter, OnDone has returned  *)
(* and released mu_, and gRPC owes no other callback, whatever the order   *)
(* of callbacks, wake-ups and the thread was (AsyncAdsClient.cpp:46-56).   *)
THEOREM OutlivesCallbacks == Spec => []NotDestroyedInUse
<1>1. IndInv => NotDestroyedInUse
  BY DEF IndInv, TypeInv, DoneInv, OutstandingInv, NotDestroyedInUse, Alive
<1> QED
  BY <1>1, Invariance, PTL

(* Every step of the callbacks, the thread and the server is a step of the *)
(* one-shot client or does not show in it.                                 *)
LEMMA StepRefines ==
    IndInv /\ [Next]_vars => [OneShotClient!Next]_(OneShotClient!vars)
<1> SUFFICES ASSUME IndInv, [Next]_vars
             PROVE  OneShotClient!Next \/ UNCHANGED OneShotClient!vars
  OBVIOUS
<1> USE DEF IndInv, TypeInv, LockInv, DoneInv, OutstandingInv, SendInv, Requests, Alive,
            waitVars, writeVars, readVars, callVars, OneShotClient!Next,
            OneShotClient!vars
<1>1. CASE OnWriteDone
  BY <1>1 DEF OnWriteDone, OneShotClient!SendRequest
<1>2. CASE OnWritesDoneDone
  BY <1>2 DEF OnWritesDoneDone, OneShotClient!HalfClose
<1>3. CASE OnReadDone
  BY <1>3 DEF OnReadDone, StartRead, OneShotClient!Receive
<1>4. CASE OnDone \/ SetDone \/ NotifyOne \/ OnDoneReturns
  BY <1>4 DEF OnDone, SetDone, NotifyOne, OnDoneReturns
<1>5. CASE Construct
  BY <1>5 DEF Construct, OneShotClient!Open
<1>6. CASE AwaitLock \/ AwaitCheck \/ SpuriousWakeup
  BY <1>6 DEF AwaitLock, AwaitCheck, SpuriousWakeup
<1>7. CASE Destroy
  BY <1>7 DEF Destroy, OneShotClient!Return
<1>8. CASE ServerSend
  BY <1>8 DEF ServerSend, OneShotClient!ServerSend
<1>9. CASE ServerEnd
  BY <1>9 DEF ServerEnd, OneShotClient!ServerEnd
<1>10. CASE Terminated \/ UNCHANGED vars
  BY <1>10 DEF Terminated, vars
<1> QED
  BY <1>1, <1>2, <1>3, <1>4, <1>5, <1>6, <1>7, <1>8, <1>9, <1>10
  DEF Next, Library, Thread

(* The reactor of asnyc_ads does what OneShot promises: the request before *)
(* the close, no response lost, no return before the end of the stream.    *)
THEOREM Refinement == Spec => SafelyImplementsOneShot
<1>1. Init => OneShotClient!Init
  BY DEF Init, Requests, Alive, OneShotClient!Init
<1> QED
  BY <1>1, StepRefines, Invariance, PTL
  DEF Spec, SafelyImplementsOneShot, OneShotClient!Safety
=============================================================================
