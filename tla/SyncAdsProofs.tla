--------------------------- MODULE SyncAdsProofs ---------------------------
(***************************************************************************)
(* For every number of responses: the writer never runs into Finish, and   *)
(* the two threads of src/ads implement the safety part of OneShot.        *)
(***************************************************************************)
EXTENDS SyncAds, TLAPS

(* How far the writer is, by where the calling thread is.                  *)
WriterInv ==
    /\ main \in {"start", "spawn"} <=> writer = "none"
    /\ main \in {"finish", "returned"} => writer = "ended"

(* The calling thread leaves the Read loop only on a stream that has ended *)
(* with nothing left to read.                                              *)
ReadInv ==
    /\ main = "start" <=> stream = "none"
    /\ main \in {"join", "finish", "returned"} => stream = "ended" /\ pending = 0

(* While the stream is open the server has got the request exactly when    *)
(* the writer is past Write, and the close exactly when it has ended.      *)
SendInv ==
    /\ stream = "open" => /\ sent <=> writer \in {"writesDone", "ended"}
                          /\ halfClosed <=> writer = "ended"
    /\ writer \in {"none", "write"} => ~sent
    /\ writer # "ended" => ~halfClosed

IndInv == TypeOK /\ WriterInv /\ ReadInv /\ SendInv

(* The inductive invariant holds initially.                                *)
LEMMA InitInv == Init => IndInv
<1> SUFFICES ASSUME Init PROVE IndInv
  OBVIOUS
<1>1. TypeOK
  <2>1. pending \in Nat /\ discoveryResponse \in Nat
    BY DEF Init
  <2>2. pending + discoveryResponse <= MaxResponses
    <3>1. 0 + 0 <= MaxResponses
      BY BoundAssumption DEF BoundAssumption
    <3> QED
      BY <3>1 DEF Init
  <2> QED
    BY <2>1, <2>2, Zenon DEF Init, TypeOK
<1>2. WriterInv /\ ReadInv
  BY DEF Init, WriterInv, ReadInv
<1>3. SendInv
  BY DEF Init, SendInv
<1> QED
  BY <1>1, <1>2, <1>3 DEF IndInv

(* Every step preserves it.                                                *)
LEMMA StepInv == IndInv /\ [Next]_vars => IndInv'
<1> SUFFICES ASSUME IndInv, [Next]_vars PROVE IndInv'
  OBVIOUS
<1> USE BoundAssumption DEF BoundAssumption, IndInv, TypeOK, WriterInv, ReadInv, SendInv,
                            threadVars, sendVars, readVars
<1>1. CASE StartStream
  BY <1>1 DEF StartStream
<1>2. CASE StartWriter
  BY <1>2 DEF StartWriter
<1>3. CASE ReadResponse
  BY <1>3 DEF ReadResponse
<1>4. CASE JoinWriter
  BY <1>4 DEF JoinWriter
<1>5. CASE Finish
  BY <1>5 DEF Finish
<1>6. CASE WriterWrite
  BY <1>6 DEF WriterWrite
<1>7. CASE WriterWritesDone
  BY <1>7 DEF WriterWritesDone
<1>8. CASE ServerSend
  BY <1>8 DEF ServerSend
<1>9. CASE ServerEnd
  <2>1. pending' \in Nat /\ pending' <= pending
    BY <1>9 DEF ServerEnd
  <2>2. TypeOK'
    <3>1. discoveryResponse' = discoveryResponse
      BY <1>9 DEF ServerEnd
    <3>2. pending' + discoveryResponse' <= MaxResponses
      <4>1. \A p, q, r, m \in Nat : p <= q /\ q + r <= m => p + r <= m
        OBVIOUS
      <4>2. /\ pending \in Nat /\ discoveryResponse \in Nat
            /\ pending + discoveryResponse <= MaxResponses
        OBVIOUS
      <4> HIDE DEF IndInv, TypeOK, WriterInv, ReadInv, SendInv
      <4> QED
        BY <2>1, <3>1, <4>1, <4>2
    <3> QED
      BY <1>9, <2>1, <3>1, <3>2 DEF ServerEnd
  <2>3. (WriterInv /\ ReadInv /\ SendInv)'
    BY <1>9 DEF ServerEnd
  <2> QED
    BY <2>2, <2>3
<1>10. CASE Terminated \/ UNCHANGED vars
  BY <1>10 DEF Terminated, vars
<1> QED
  BY <1>1, <1>2, <1>3, <1>4, <1>5, <1>6, <1>7, <1>8, <1>9, <1>10
  DEF Next, Main, Writer

(* The inductive invariant holds in every state of every behaviour.        *)
THEOREM Invariance == Spec => []IndInv
<1> QED
  BY InitInv, StepInv, PTL DEF Spec

(* The two threads, the stream and the counters keep their types.          *)
THEOREM TypeCorrect == Spec => []TypeOK
BY Invariance, PTL DEF IndInv

(* The calling thread never finishes the stream, nor leaves the scope of   *)
(* the context, while the writer may still use them, and never with a      *)
(* response unread.                                                        *)
THEOREM NeverFinishesEarly == Spec => []FinishAlone
<1>1. IndInv => FinishAlone
  BY DEF IndInv, WriterInv, ReadInv, FinishAlone
<1> QED
  BY <1>1, Invariance, PTL

(* Every step of the two threads is a step of the one-shot client or       *)
(* leaves it unchanged.                                                    *)
LEMMA StepRefines ==
    IndInv /\ [Next]_vars => [OneShotClient!Next]_(OneShotClient!vars)
<1> SUFFICES ASSUME IndInv, [Next]_vars
             PROVE  OneShotClient!Next \/ UNCHANGED OneShotClient!vars
  OBVIOUS
<1> USE DEF IndInv, TypeOK, WriterInv, ReadInv, SendInv, threadVars, sendVars,
            readVars, OneShotClient!Next, OneShotClient!vars
<1>1. CASE StartStream
  BY <1>1 DEF StartStream, OneShotClient!Open
<1>2. CASE StartWriter
  BY <1>2 DEF StartWriter
<1>3. CASE ReadResponse
  BY <1>3 DEF ReadResponse, OneShotClient!Receive
<1>4. CASE JoinWriter
  BY <1>4 DEF JoinWriter
<1>5. CASE Finish
  BY <1>5 DEF Finish, OneShotClient!Return
<1>6. CASE WriterWrite
  BY <1>6 DEF WriterWrite, OneShotClient!SendRequest
<1>7. CASE WriterWritesDone
  BY <1>7 DEF WriterWritesDone, OneShotClient!HalfClose
<1>8. CASE ServerSend
  BY <1>8 DEF ServerSend, OneShotClient!ServerSend
<1>9. CASE ServerEnd
  BY <1>9 DEF ServerEnd, OneShotClient!ServerEnd
<1>10. CASE Terminated \/ UNCHANGED vars
  BY <1>10 DEF Terminated, vars
<1> QED
  BY <1>1, <1>2, <1>3, <1>4, <1>5, <1>6, <1>7, <1>8, <1>9, <1>10
  DEF Next, Main, Writer

(* The blocking client of src/ads does what OneShot promises: the request  *)
(* before the close, no response lost, no return before the end.           *)
THEOREM Refinement == Spec => SafelyImplementsOneShot
<1>1. Init => OneShotClient!Init
  BY DEF Init, OneShotClient!Init
<1> QED
  BY <1>1, StepRefines, Invariance, PTL
  DEF Spec, SafelyImplementsOneShot, OneShotClient!Safety
=============================================================================
