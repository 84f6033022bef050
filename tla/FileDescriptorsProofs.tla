------------------------ MODULE FileDescriptorsProofs ------------------------
(***************************************************************************)
(* For every acyclic import graph and any number of loads: what            *)
(* loadFileDescriptors of file_descriptor_info.cc leaves in the pool.      *)
(***************************************************************************)
EXTENDS FileDescriptors, SequenceTheorems, FiniteSetTheorems, TLAPS

(* The values of the variables; imports lead to smaller files.             *)
TypeInv ==
    /\ deps \in [Files -> Seq(Files)]
    /\ \A f \in Files : \A i \in 1..Len(deps[f]) : deps[f][i] < f
    /\ base64Decoded \in BOOLEAN
    /\ frames \in Seq([file : Files, i : Nat])
    /\ built \in Seq(Files) /\ loads \in Seq(Files)

(* The stack: every activation but the innermost is at the import that the *)
(* next one loads, so the files on it get smaller and none is on it twice. *)
StackInv ==
    /\ \A k \in 1..Len(frames) : frames[k].i \in 1..(Len(deps[frames[k].file]) + 1)
    /\ \A j, k \in 1..Len(frames) : j < k => frames[k].file < frames[j].file

(* The imports an activation has been through are in the pool, but for the *)
(* one that is being loaded; its own file is not.                          *)
LoadingInv ==
    \A k \in 1..Len(frames) :
        /\ frames[k].file \notin descriptor_pool
        /\ \A n \in 1..(frames[k].i - 1) :
              \/ deps[frames[k].file][n] \in descriptor_pool
              \/ k + 1 <= Len(frames) /\ deps[frames[k].file][n] = frames[k + 1].file

(* The pool holds the files that were built, each with its imports.        *)
PoolInv ==
    /\ descriptor_pool \subseteq Files
    /\ \A n \in 1..Len(built) : built[n] \in descriptor_pool
    /\ \A m, n \in 1..Len(built) : built[m] = built[n] => m = n
    /\ \A f \in descriptor_pool : \A n \in 1..Len(deps[f]) : deps[f][n] \in descriptor_pool

(* A file the application asked for is in the pool or at the bottom of the *)
(* stack.                                                                  *)
LoadsInv ==
    \A n \in 1..Len(loads) : \/ loads[n] \in descriptor_pool
                             \/ Len(frames) >= 1 /\ frames[1].file = loads[n]

IndInv ==
    /\ TypeInv /\ StackInv
    /\ base64Decoded => LoadingInv /\ PoolInv /\ LoadsInv

-----------------------------------------------------------------------------
(* The operators the steps are made of.                                    *)

Frames == [file : Files, i : Nat]

(* The imports of Init are sequences of files.                             *)
LEMMA ImportsType ==
    ASSUME NEW S \in SUBSET (1..(FileCount - 1)), NEW imports \in SetToSeqs(S)
    PROVE  imports \in Seq(Files)
<1>1. IsFiniteSet(S) /\ Cardinality(S) \in Nat
  <2>1. FileCount - 1 \in Int
    BY FileAssumption DEF FileAssumption
  <2>2. IsFiniteSet(1..(FileCount - 1))
    BY <2>1, FS_Interval
  <2>3. IsFiniteSet(S)
    BY <2>2, FS_Subset
  <2> QED
    BY <2>3, FS_CardinalityType
<1>2. imports \in [1..Cardinality(S) -> S]
  BY DEF SetToSeqs
<1>3. imports \in Seq(S) /\ S \subseteq Files
  BY <1>1, <1>2, FileAssumption, SeqDef DEF Files
<1> QED
  BY <1>3, SeqMonotonic

(* The innermost activation.                                               *)
LEMMA TopFacts ==
    ASSUME TypeInv, frames # <<>>
    PROVE  /\ Len(frames) \in Nat \ {0} /\ Top = frames[Len(frames)] /\ Top \in Frames
           /\ deps[Top.file] \in Seq(Files) /\ Len(deps[Top.file]) \in Nat
<1>1. Len(frames) \in Nat \ {0} /\ Top = frames[Len(frames)]
  <2>1. frames \in Seq(Frames)
    BY DEF TypeInv, Frames
  <2>2. Len(frames) \in Nat \ {0}
    BY <2>1, EmptySeq
  <2> QED
    BY <2>2 DEF Top, Last
<1>2. Top \in Frames
  <2>1. frames \in Seq(Frames) /\ Len(frames) \in 1..Len(frames)
    BY <1>1 DEF TypeInv, Frames
  <2> QED
    BY <1>1, <2>1, ElementOfSeq
<1>3. deps[Top.file] \in Seq(Files)
  BY <1>2 DEF TypeInv, Frames
<1> QED
  BY <1>1, <1>2, <1>3, LenProperties

(* The stack without its innermost activation.                             *)
LEMMA FrontFacts ==
    ASSUME TypeInv, frames # <<>>
    PROVE  /\ Front(frames) \in Seq(Frames) /\ Len(Front(frames)) = Len(frames) - 1
           /\ \A k \in 1..(Len(frames) - 1) : Front(frames)[k] = frames[k]
<1>1. Len(frames) \in Nat \ {0} /\ frames \in [1..Len(frames) -> Frames]
  BY TopFacts, LenProperties DEF TypeInv, Frames
<1>2. \A k \in 1..(Len(frames) - 1) : frames[k] \in Frames
  BY <1>1
<1>3. /\ Front(frames) \in Seq(Frames)
      /\ Len(Front(frames)) = IF 1 <= Len(frames) - 1 THEN Len(frames) - 1 - 1 + 1 ELSE 0
      /\ \A k \in 1..(Len(frames) - 1 - 1 + 1) : Front(frames)[k] = frames[1 + k - 1]
  BY <1>1, <1>2, SubSeqProperties DEF Front
<1>4. Len(Front(frames)) = Len(frames) - 1
  <2>1. CASE 1 <= Len(frames) - 1
    BY <1>1, <1>3, <2>1
  <2>2. CASE ~(1 <= Len(frames) - 1)
    <3>1. Len(frames) - 1 = 0
      BY <1>1, <2>2
    <3> QED
      BY <1>3, <2>2, <3>1
  <2> QED
    BY <2>1, <2>2
<1>5. ASSUME NEW k \in 1..(Len(frames) - 1) PROVE Front(frames)[k] = frames[k]
  <2>1. k \in 1..(Len(frames) - 1 - 1 + 1) /\ 1 + k - 1 = k
    BY <1>1
  <2> QED
    BY <1>3, <2>1
<1> QED
  BY <1>3, <1>4, <1>5

(* The stack with the innermost activation at its next import.             *)
Here == Front(frames) \o <<[Top EXCEPT !.i = @ + 1]>>

LEMMA HereFacts ==
    ASSUME TypeInv, frames # <<>>
    PROVE  /\ Here \in Seq(Frames) /\ Len(Here) = Len(frames)
           /\ \A k \in 1..(Len(frames) - 1) : Here[k] = frames[k]
           /\ Here[Len(frames)].file = Top.file /\ Here[Len(frames)].i = Top.i + 1
<1> DEFINE next == [Top EXCEPT !.i = @ + 1]
<1>1. Len(frames) \in Nat \ {0} /\ Top \in Frames
  BY TopFacts
<1>2. next \in Frames /\ next.file = Top.file /\ next.i = Top.i + 1
  BY <1>1 DEF Frames
<1>3. /\ Front(frames) \in Seq(Frames) /\ Len(Front(frames)) = Len(frames) - 1
      /\ \A k \in 1..(Len(frames) - 1) : Front(frames)[k] = frames[k]
  BY FrontFacts
<1> HIDE DEF next
<1>4. Here = Append(Front(frames), next)
  BY <1>2, <1>3, AppendIsConcat DEF Here, next
<1>5. /\ Here \in Seq(Frames) /\ Len(Here) = Len(Front(frames)) + 1
      /\ \A k \in 1..Len(Front(frames)) : Here[k] = Front(frames)[k]
      /\ Here[Len(Front(frames)) + 1] = next
  BY <1>2, <1>3, <1>4, AppendProperties
<1> QED
  BY <1>1, <1>2, <1>3, <1>5

(* A call puts a new activation on the stack if the pool has not the file. *)
LEMMA CallFacts ==
    ASSUME NEW stack \in Seq(Frames), NEW f \in Files
    PROVE  /\ f \in descriptor_pool => Call(stack, f) = stack
           /\ f \notin descriptor_pool =>
                 /\ Call(stack, f) \in Seq(Frames)
                 /\ Len(Call(stack, f)) = Len(stack) + 1
                 /\ \A k \in 1..Len(stack) : Call(stack, f)[k] = stack[k]
                 /\ Call(stack, f)[Len(stack) + 1].file = f
                 /\ Call(stack, f)[Len(stack) + 1].i = 1
<1> DEFINE new == [file |-> f, i |-> 1]
<1>1. new \in Frames /\ new.file = f /\ new.i = 1
  BY DEF Frames
<1>2. f \notin descriptor_pool => Call(stack, f) = Append(stack, new)
  BY DEF Call
<1> HIDE DEF new
<1> QED
  BY <1>1, <1>2, AppendProperties DEF Call

-----------------------------------------------------------------------------
(* The steps.                                                              *)

(* What a call by the application does.                                    *)
LEMMA LoadEffect ==
    ASSUME IndInv, NEW f \in Files, LoadFileDescriptors(f)
    PROVE  /\ Len(frames) = 0 /\ Len(loads) \in Nat
           /\ loads' \in Seq(Files) /\ Len(loads') = Len(loads) + 1
           /\ \A n \in 1..Len(loads) : loads'[n] = loads[n]
           /\ loads'[Len(loads) + 1] = f
           /\ frames' \in Seq(Frames)
           /\ \/ f \in descriptor_pool /\ Len(frames') = 0
              \/ /\ f \notin descriptor_pool
                 /\ Len(frames') = 1 /\ frames'[1].file = f /\ frames'[1].i = 1
           /\ UNCHANGED <<deps, base64Decoded, descriptor_pool, built>>
<1>1. loads \in Seq(Files) /\ loads' = Append(loads, f)
  BY DEF IndInv, TypeInv, LoadFileDescriptors
<1>2. frames = <<>> /\ frames' = Call(<<>>, f) /\ <<>> \in Seq(Frames) /\ Len(<<>>) = 0
  BY EmptySeq DEF LoadFileDescriptors
<1>3. /\ loads' \in Seq(Files) /\ Len(loads) \in Nat /\ Len(loads') = Len(loads) + 1
      /\ \A n \in 1..Len(loads) : loads'[n] = loads[n]
      /\ loads'[Len(loads) + 1] = f
  BY <1>1, AppendProperties, LenProperties
<1>4. UNCHANGED <<deps, base64Decoded, descriptor_pool, built>>
  BY DEF LoadFileDescriptors
<1>5. CASE f \in descriptor_pool
  <2>1. frames' = <<>>
    BY <1>2, <1>5 DEF Call
  <2> QED
    BY <1>2, <1>3, <1>4, <1>5, <2>1
<1>6. CASE f \notin descriptor_pool
  <2>1. /\ frames' \in Seq(Frames) /\ Len(frames') = 0 + 1
        /\ frames'[0 + 1].file = f /\ frames'[0 + 1].i = 1
    BY <1>2, <1>6, CallFacts
  <2> QED
    BY <1>2, <1>3, <1>4, <1>6, <2>1
<1> QED
  BY <1>5, <1>6

(* What a turn of the loop over the imports does.                          *)
LEMMA NextDepEffect ==
    ASSUME IndInv, LoadNextDep
    PROVE  LET top == Len(frames)
               dep == deps[frames[top].file][frames[top].i]
           IN  /\ top \in Nat \ {0} /\ dep \in Files /\ dep < frames[top].file
               /\ frames[top].i \in 1..Len(deps[frames[top].file])
               /\ frames' \in Seq(Frames)
               /\ \A k \in 1..(top - 1) : frames'[k] = frames[k]
               /\ frames'[top].file = frames[top].file
               /\ frames'[top].i = frames[top].i + 1
               /\ \/ dep \in descriptor_pool /\ Len(frames') = top
                  \/ /\ dep \notin descriptor_pool /\ Len(frames') = top + 1
                     /\ frames'[top + 1].file = dep /\ frames'[top + 1].i = 1
               /\ UNCHANGED <<deps, base64Decoded, descriptor_pool, built, loads>>
<1> DEFINE top == Len(frames)
           dep == deps[Top.file][Top.i]
<1>1. TypeInv /\ frames # <<>>
  BY DEF IndInv, LoadNextDep
<1>2. /\ top \in Nat \ {0} /\ Top = frames[top] /\ Top.file \in Files /\ Top.i \in Nat
      /\ deps[Top.file] \in Seq(Files) /\ Len(deps[Top.file]) \in Nat
  BY <1>1, TopFacts DEF Frames
<1>3. Top.i \in 1..Len(deps[Top.file])
  BY <1>2 DEF IndInv, StackInv, LoadNextDep, MoreDeps
<1>4. dep \in Files /\ dep < Top.file
  BY <1>1, <1>2, <1>3, ElementOfSeq DEF TypeInv
<1>5. /\ Here \in Seq(Frames) /\ Len(Here) = top
      /\ \A k \in 1..(top - 1) : Here[k] = frames[k]
      /\ Here[top].file = Top.file /\ Here[top].i = Top.i + 1
  BY <1>1, HereFacts
<1>6. /\ frames' = Call(Here, dep)
      /\ UNCHANGED <<deps, base64Decoded, descriptor_pool, built, loads>>
  BY DEF LoadNextDep, Here
<1> HIDE DEF top, dep
<1>7. CASE dep \in descriptor_pool
  <2>1. frames' = Here
    BY <1>4, <1>5, <1>6, <1>7, CallFacts
  <2> QED
    BY <1>2, <1>3, <1>4, <1>5, <1>6, <1>7, <2>1 DEF top, dep
<1>8. CASE dep \notin descriptor_pool
  <2>1. /\ frames' \in Seq(Frames) /\ Len(frames') = top + 1
        /\ \A k \in 1..top : frames'[k] = Here[k]
        /\ frames'[top + 1].file = dep /\ frames'[top + 1].i = 1
    BY <1>4, <1>5, <1>6, <1>8, CallFacts
  <2>2. /\ \A k \in 1..(top - 1) : frames'[k] = frames[k]
        /\ frames'[top].file = Top.file /\ frames'[top].i = Top.i + 1
    BY <1>2, <1>5, <2>1
  <2> QED
    BY <1>2, <1>3, <1>4, <1>6, <1>8, <2>1, <2>2 DEF top, dep
<1> QED
  BY <1>7, <1>8

(* What the end of the function does: with all imports in the pool the     *)
(* file is built.                                                          *)
LEMMA BuildEffect ==
    ASSUME IndInv, BuildAndReturn
    PROVE  LET top == Len(frames)
               file == frames[top].file
           IN  /\ top \in Nat \ {0} /\ file \in Files
               /\ frames' \in Seq(Frames) /\ Len(frames') = top - 1
               /\ \A k \in 1..(top - 1) : frames'[k] = frames[k]
               /\ Len(built) \in Nat
               /\ built' \in Seq(Files) /\ Len(built') = Len(built) + 1
               /\ \A n \in 1..Len(built) : built'[n] = built[n]
               /\ built'[Len(built) + 1] = file
               /\ base64Decoded =>
                     /\ \A n \in 1..Len(deps[file]) : deps[file][n] \in descriptor_pool
                     /\ descriptor_pool' = descriptor_pool \cup {file}
               /\ UNCHANGED <<deps, base64Decoded, loads>>
<1> DEFINE top == Len(frames)
           file == frames[top].file
<1>1. TypeInv /\ frames # <<>>
  BY DEF IndInv, BuildAndReturn
<1>2. /\ top \in Nat \ {0} /\ Top = frames[top] /\ file \in Files /\ Top.i \in Nat
      /\ deps[file] \in Seq(Files) /\ Len(deps[file]) \in Nat
  BY <1>1, TopFacts DEF Frames
<1>3. /\ frames' \in Seq(Frames) /\ Len(frames') = top - 1
      /\ \A k \in 1..(top - 1) : frames'[k] = frames[k]
  BY <1>1, FrontFacts DEF BuildAndReturn
<1>4. /\ Len(built) \in Nat /\ built' \in Seq(Files) /\ Len(built') = Len(built) + 1
      /\ \A n \in 1..Len(built) : built'[n] = built[n]
      /\ built'[Len(built) + 1] = file
  <2>1. built \in Seq(Files) /\ built' = Append(built, file)
    BY <1>1, <1>2 DEF TypeInv, BuildAndReturn
  <2> QED
    BY <1>2, <2>1, AppendProperties, LenProperties
<1>5. ASSUME base64Decoded, NEW n \in 1..Len(deps[file])
      PROVE  deps[file][n] \in descriptor_pool
  <2>1. top \in 1..Len(frames) /\ ~(top + 1 <= Len(frames))
    BY <1>2
  <2>2. n \in 1..(frames[top].i - 1)
    BY <1>2, <2>1 DEF IndInv, StackInv, BuildAndReturn, MoreDeps
  <2> QED
    BY <1>5, <2>1, <2>2 DEF IndInv, LoadingInv
<1>6. ASSUME base64Decoded PROVE descriptor_pool' = descriptor_pool \cup {file}
  <2>1. DOMAIN deps[file] = 1..Len(deps[file])
    BY <1>2, LenProperties
  <2>2. Range(deps[Top.file]) \subseteq descriptor_pool
    BY <1>2, <1>5, <1>6, <2>1 DEF Range
  <2> QED
    BY <1>2, <1>6, <2>2 DEF BuildAndReturn, BuildFile, ProtoName
<1>7. UNCHANGED <<deps, base64Decoded, loads>>
  BY DEF BuildAndReturn
<1> QED
  BY <1>2, <1>3, <1>4, <1>5, <1>6, <1>7

(* The elements of the stack, as the steps use them.                       *)
LEMMA FrameType ==
    ASSUME TypeInv, NEW k \in 1..Len(frames)
    PROVE  /\ frames[k].file \in Files /\ frames[k].i \in Nat /\ frames[k].file \in Nat
           /\ Len(deps[frames[k].file]) \in Nat
<1>1. frames[k] \in Frames
  BY ElementOfSeq DEF TypeInv, Frames
<1>2. frames[k].file \in Files /\ frames[k].i \in Nat
  BY <1>1 DEF Frames
<1>3. frames[k].file \in Nat
  BY <1>2, FileAssumption DEF Files, FileAssumption
<1>4. deps[frames[k].file] \in Seq(Files)
  BY <1>2 DEF TypeInv
<1> QED
  BY <1>2, <1>3, <1>4, LenProperties

(* A call by the application preserves the invariant: the stack is empty,  *)
(* or its one activation is at its first import.                           *)
LEMMA LoadStep ==
    ASSUME IndInv, NEW f \in Files, LoadFileDescriptors(f)
    PROVE  IndInv'
<1>1. /\ Len(frames) = 0 /\ Len(loads) \in Nat
      /\ loads' \in Seq(Files) /\ Len(loads') = Len(loads) + 1
      /\ \A n \in 1..Len(loads) : loads'[n] = loads[n]
      /\ loads'[Len(loads) + 1] = f
      /\ frames' \in Seq(Frames)
      /\ \/ f \in descriptor_pool /\ Len(frames') = 0
         \/ /\ f \notin descriptor_pool
            /\ Len(frames') = 1 /\ frames'[1].file = f /\ frames'[1].i = 1
      /\ UNCHANGED <<deps, base64Decoded, descriptor_pool, built>>
  BY LoadEffect
<1>2. TypeInv'
  BY <1>1 DEF IndInv, TypeInv, Frames
<1>3. \A k \in 1..Len(frames') : k = 1 /\ Len(frames') = 1
  <2>1. Len(frames') = 0 \/ Len(frames') = 1
    BY <1>1
  <2>2. ASSUME NEW k \in 1..Len(frames') PROVE k = 1 /\ Len(frames') = 1
    <3>1. CASE Len(frames') = 0
      BY <2>2, <3>1
    <3>2. CASE Len(frames') = 1
      BY <2>2, <3>2
    <3> QED
      BY <2>1, <3>1, <3>2
  <2> QED
    BY <2>2
<1>4. StackInv'
  <2>1. deps'[f] \in Seq(Files) /\ Len(deps'[f]) \in Nat
    BY <1>2, LenProperties DEF TypeInv
  <2> QED
    BY <1>1, <1>3, <2>1 DEF StackInv
<1>5. ASSUME base64Decoded' PROVE (LoadingInv /\ PoolInv /\ LoadsInv)'
  <2>1. base64Decoded /\ LoadingInv /\ PoolInv /\ LoadsInv
    BY <1>1, <1>5 DEF IndInv
  <2>2. LoadingInv'
    BY <1>1, <1>3 DEF LoadingInv
  <2>3. PoolInv'
    BY <1>1, <2>1 DEF PoolInv
  <2>4. LoadsInv'
    <3>1. \A n \in 1..Len(loads) : loads[n] \in descriptor_pool
      BY <1>1, <2>1 DEF LoadsInv
    <3>2. \A n \in 1..Len(loads') : n \in 1..Len(loads) \/ n = Len(loads) + 1
      BY <1>1
    <3>3. \A n \in 1..Len(loads') : loads'[n] \in descriptor_pool \/ loads'[n] = f
      BY <1>1, <3>1, <3>2
    <3> QED
      BY <1>1, <3>3 DEF LoadsInv
  <2> QED
    BY <2>2, <2>3, <2>4
<1> QED
  BY <1>2, <1>4, <1>5 DEF IndInv

(* So does a turn of the loop: the import is in the pool, or its           *)
(* activation is on top of a stack of larger files.                        *)
LEMMA NextDepStep == ASSUME IndInv, LoadNextDep PROVE IndInv'
<1> DEFINE top == Len(frames)
           dep == deps[frames[top].file][frames[top].i]
<1>1. /\ top \in Nat \ {0} /\ dep \in Files /\ dep < frames[top].file
      /\ frames[top].i \in 1..Len(deps[frames[top].file])
      /\ frames' \in Seq(Frames)
      /\ \A k \in 1..(top - 1) : frames'[k] = frames[k]
      /\ frames'[top].file = frames[top].file /\ frames'[top].i = frames[top].i + 1
      /\ \/ dep \in descriptor_pool /\ Len(frames') = top
         \/ /\ dep \notin descriptor_pool /\ Len(frames') = top + 1
            /\ frames'[top + 1].file = dep /\ frames'[top + 1].i = 1
      /\ UNCHANGED <<deps, base64Decoded, descriptor_pool, built, loads>>
  BY NextDepEffect
<1>2. TypeInv /\ TypeInv' /\ StackInv
  BY <1>1 DEF IndInv, TypeInv, Frames
<1>3. /\ \A k \in 1..top : frames[k].file \in Nat /\ frames[k].i \in Nat
                           /\ Len(deps[frames[k].file]) \in Nat
      /\ dep \in Nat /\ Len(deps[dep]) \in Nat
  <2>1. dep \in Nat
    BY <1>1, FileAssumption DEF Files, FileAssumption
  <2>2. deps[dep] \in Seq(Files)
    BY <1>1, <1>2 DEF TypeInv
  <2> QED
    BY <1>2, <2>1, <2>2, FrameType, LenProperties
<1> HIDE DEF dep
<1>4. \A k \in 1..Len(frames') : \/ k \in 1..(top - 1)
                                 \/ k = top
                                 \/ /\ k = top + 1 /\ dep \notin descriptor_pool
                                    /\ Len(frames') = top + 1
  BY <1>1
<1>5. StackInv'
  <2>1. ASSUME NEW k \in 1..Len(frames')
        PROVE  frames'[k].i \in 1..(Len(deps'[frames'[k].file]) + 1)
    <3>1. CASE k \in 1..(top - 1)
      <4>1. k \in 1..Len(frames) /\ frames'[k] = frames[k] /\ deps' = deps
        BY <1>1, <3>1
      <4> QED
        BY <1>2, <4>1 DEF StackInv
    <3>2. CASE k = top
      <4>1. /\ frames'[k].file = frames[top].file /\ frames'[k].i = frames[top].i + 1
            /\ deps' = deps /\ frames[top].i \in 1..Len(deps[frames[top].file])
        BY <1>1, <3>2
      <4>2. top \in 1..top /\ frames[top].i \in Nat /\ Len(deps[frames[top].file]) \in Nat
        BY <1>1, <1>3
      <4> QED
        BY <4>1, <4>2
    <3>3. CASE k = top + 1 /\ Len(frames') = top + 1
      <4>1. frames'[k].file = dep /\ frames'[k].i = 1 /\ deps' = deps
        BY <1>1, <3>3
      <4> QED
        BY <1>3, <4>1
    <3> QED
      BY <1>4, <3>1, <3>2, <3>3
  <2>2. ASSUME NEW j \in 1..Len(frames'), NEW k \in 1..Len(frames'), j < k
        PROVE  frames'[k].file < frames'[j].file
    <3>1. \A n \in 1..top : frames'[n].file = frames[n].file
      BY <1>1
    <3>2. CASE k \in 1..top
      BY <1>1, <1>2, <2>2, <3>1, <3>2 DEF StackInv
    <3>3. CASE k = top + 1 /\ Len(frames') = top + 1
      <4>1. j \in 1..top /\ frames'[k].file = dep
        BY <1>1, <2>2, <3>3
      <4>2. frames[top].file <= frames[j].file
        BY <1>1, <1>2, <1>3, <4>1 DEF StackInv
      <4> QED
        BY <1>1, <1>3, <3>1, <4>1, <4>2
    <3> QED
      BY <1>1, <1>4, <3>2, <3>3
  <2> QED
    BY <2>1, <2>2 DEF StackInv
<1>6. ASSUME base64Decoded' PROVE (LoadingInv /\ PoolInv /\ LoadsInv)'
  <2>1. LoadingInv /\ PoolInv /\ LoadsInv
    BY <1>1, <1>6 DEF IndInv
  <2>2. LoadingInv'
    <3> SUFFICES ASSUME NEW k \in 1..Len(frames')
                 PROVE  /\ frames'[k].file \notin descriptor_pool
                        /\ \A n \in 1..(frames'[k].i - 1) :
                              \/ deps[frames'[k].file][n] \in descriptor_pool
                              \/ /\ k + 1 <= Len(frames')
                                 /\ deps[frames'[k].file][n] = frames'[k + 1].file
      BY <1>1 DEF LoadingInv
    <3>1. CASE k \in 1..(top - 1)
      <4>1. k \in 1..Len(frames) /\ k + 1 <= Len(frames) /\ k + 1 <= Len(frames')
        BY <1>1, <3>1
      <4>2. frames'[k] = frames[k] /\ frames'[k + 1].file = frames[k + 1].file
        BY <1>1, <3>1
      <4> QED
        BY <2>1, <4>1, <4>2 DEF LoadingInv
    <3>2. CASE k = top
      <4>1. top \in 1..Len(frames) /\ ~(top + 1 <= Len(frames))
        BY <1>1
      <4>2. /\ frames[top].file \notin descriptor_pool
            /\ \A n \in 1..(frames[top].i - 1) :
                  deps[frames[top].file][n] \in descriptor_pool
        BY <2>1, <4>1 DEF LoadingInv
      <4>3. \A n \in 1..(frames'[top].i - 1) :
               n \in 1..(frames[top].i - 1) \/ n = frames[top].i
        BY <1>1, <1>3
      <4>4. \/ dep \in descriptor_pool
            \/ top + 1 <= Len(frames') /\ dep = frames'[top + 1].file
        BY <1>1
      <4> QED
        BY <1>1, <3>2, <4>2, <4>3, <4>4 DEF dep
    <3>3. CASE k = top + 1 /\ Len(frames') = top + 1 /\ dep \notin descriptor_pool
      BY <1>1, <3>3
    <3> QED
      BY <1>4, <3>1, <3>2, <3>3
  <2>3. PoolInv'
    BY <1>1, <2>1 DEF PoolInv
  <2>4. LoadsInv'
    <3>1. Len(frames') >= 1 /\ frames'[1].file = frames[1].file
      BY <1>1
    <3> QED
      BY <1>1, <2>1, <3>1 DEF LoadsInv
  <2> QED
    BY <2>2, <2>3, <2>4
<1> QED
  BY <1>2, <1>5, <1>6 DEF IndInv

(* And the end of the function: the file is new to the pool, its imports   *)
(* are not, and the activation below was waiting for it.                   *)
LEMMA BuildStep == ASSUME IndInv, BuildAndReturn PROVE IndInv'
<1> DEFINE top == Len(frames)
           file == frames[top].file
<1>1. /\ top \in Nat \ {0} /\ file \in Files
      /\ frames' \in Seq(Frames) /\ Len(frames') = top - 1
      /\ \A k \in 1..(top - 1) : frames'[k] = frames[k]
      /\ Len(built) \in Nat /\ built' \in Seq(Files) /\ Len(built') = Len(built) + 1
      /\ \A n \in 1..Len(built) : built'[n] = built[n]
      /\ built'[Len(built) + 1] = file
      /\ base64Decoded =>
            /\ \A n \in 1..Len(deps[file]) : deps[file][n] \in descriptor_pool
            /\ descriptor_pool' = descriptor_pool \cup {file}
      /\ UNCHANGED <<deps, base64Decoded, loads>>
  BY BuildEffect
<1>2. TypeInv /\ TypeInv' /\ StackInv
  BY <1>1 DEF IndInv, TypeInv, Frames
<1>3. StackInv'
  <2>1. \A k \in 1..Len(frames') : k \in 1..Len(frames) /\ frames'[k] = frames[k]
    BY <1>1
  <2>2. deps' = deps
    BY <1>1
  <2> QED
    BY <1>2, <2>1, <2>2 DEF StackInv
<1>4. ASSUME base64Decoded' PROVE (LoadingInv /\ PoolInv /\ LoadsInv)'
  <2>1. LoadingInv /\ PoolInv /\ LoadsInv
    BY <1>1, <1>4 DEF IndInv
  <2>2. /\ \A n \in 1..Len(deps[file]) : deps[file][n] \in descriptor_pool
        /\ descriptor_pool' = descriptor_pool \cup {file}
    BY <1>1, <1>4
  <2>3. top \in 1..Len(frames) /\ file \notin descriptor_pool
    BY <1>1, <2>1 DEF LoadingInv
  <2>4. LoadingInv'
    <3> SUFFICES ASSUME NEW k \in 1..(top - 1)
                 PROVE  /\ frames[k].file \notin descriptor_pool'
                        /\ \A n \in 1..(frames[k].i - 1) :
                              \/ deps[frames[k].file][n] \in descriptor_pool'
                              \/ /\ k + 1 <= top - 1
                                 /\ deps[frames[k].file][n] = frames'[k + 1].file
      BY <1>1 DEF LoadingInv
    <3>1. k \in 1..Len(frames) /\ k < top /\ k + 1 \in 1..top
      BY <1>1
    <3>2. file < frames[k].file /\ file \in Nat /\ frames[k].file \in Nat
      BY <1>2, <2>3, <3>1, FrameType DEF StackInv
    <3>3. frames[k].file \notin descriptor_pool'
      BY <2>1, <2>2, <3>1, <3>2 DEF LoadingInv
    <3>4. ASSUME NEW n \in 1..(frames[k].i - 1),
                 deps[frames[k].file][n] \notin descriptor_pool'
          PROVE  /\ k + 1 <= top - 1
                 /\ deps[frames[k].file][n] = frames'[k + 1].file
      <4>1. /\ deps[frames[k].file][n] = frames[k + 1].file
            /\ deps[frames[k].file][n] # file
        BY <2>1, <2>2, <3>1, <3>4 DEF LoadingInv
      <4>2. k + 1 # top
        BY <4>1
      <4> QED
        BY <1>1, <3>1, <4>1, <4>2
    <3> QED
      BY <3>3, <3>4
  <2>5. PoolInv'
    <3>1. \A n \in 1..Len(built') : n \in 1..Len(built) \/ n = Len(built) + 1
      BY <1>1
    <3>2. /\ descriptor_pool' \subseteq Files
          /\ \A n \in 1..Len(built') : built'[n] \in descriptor_pool'
      BY <1>1, <2>1, <2>2, <3>1 DEF PoolInv
    <3>3. \A m, n \in 1..Len(built') : built'[m] = built'[n] => m = n
      BY <1>1, <2>1, <2>3, <3>1 DEF PoolInv
    <3>4. \A f \in descriptor_pool' : \A n \in 1..Len(deps'[f]) :
             deps'[f][n] \in descriptor_pool'
      BY <1>1, <2>1, <2>2 DEF PoolInv
    <3> QED
      BY <3>2, <3>3, <3>4 DEF PoolInv
  <2>6. LoadsInv'
    <3> SUFFICES ASSUME NEW n \in 1..Len(loads), loads[n] \notin descriptor_pool'
                 PROVE  Len(frames') >= 1 /\ frames'[1].file = loads[n]
      BY <1>1 DEF LoadsInv
    <3>1. frames[1].file = loads[n] /\ loads[n] # file
      BY <2>1, <2>2 DEF LoadsInv
    <3>2. top # 1
      BY <3>1
    <3>3. top - 1 >= 1 /\ 1 \in 1..(top - 1)
      BY <1>1, <3>2
    <3> QED
      BY <1>1, <3>1, <3>3
  <2> QED
    BY <2>4, <2>5, <2>6
<1> QED
  BY <1>2, <1>3, <1>4 DEF IndInv

(* Before the first load.                                                  *)
LEMMA InitInv == Init => IndInv
<1> SUFFICES ASSUME Init PROVE IndInv
  OBVIOUS
<1>1. deps \in [Files -> Seq(Files)]
  <2>1. deps \in [Files -> UNION {SetToSeqs(S) : S \in SUBSET (1..(FileCount - 1))}]
    BY DEF Init
  <2>2. \A s \in UNION {SetToSeqs(S) : S \in SUBSET (1..(FileCount - 1))} : s \in Seq(Files)
    BY ImportsType
  <2> QED
    BY <2>1, <2>2
<1>2. \A f \in Files : \A i \in 1..Len(deps[f]) : deps[f][i] < f
  BY <1>1, LenProperties DEF Init
<1>3. TypeInv
  BY <1>1, <1>2, EmptySeq DEF Init, TypeInv
<1>4. StackInv /\ LoadingInv /\ LoadsInv
  BY EmptySeq DEF Init, StackInv, LoadingInv, LoadsInv
<1>5. PoolInv
  BY EmptySeq DEF Init, PoolInv
<1> QED
  BY <1>3, <1>4, <1>5 DEF IndInv

-----------------------------------------------------------------------------
(* The theorems.                                                           *)

(* The inductive invariant holds in every state of every behaviour.        *)
THEOREM Invariance == Spec => []IndInv
<1>1. IndInv /\ UNCHANGED <<deps, base64Decoded, frames, descriptor_pool, built, loads>>
        => IndInv'
  BY DEF IndInv, TypeInv, StackInv, LoadingInv, PoolInv, LoadsInv
<1>2. IndInv /\ [Next]_vars => IndInv'
  <2> SUFFICES ASSUME IndInv, [Next]_vars PROVE IndInv'
    OBVIOUS
  <2>1. ASSUME NEW f \in Files, LoadFileDescriptors(f) PROVE IndInv'
    BY <2>1, LoadStep
  <2>2. CASE LoadNextDep
    BY <2>2, NextDepStep
  <2>3. CASE BuildAndReturn
    BY <2>3, BuildStep
  <2>4. CASE Terminated \/ UNCHANGED vars
    BY <1>1, <2>4 DEF Terminated, vars
  <2> QED
    BY <2>4, <2>3, <2>2, <2>1 DEF Next, Step
<1> QED
  BY <1>2, InitInv, PTL DEF Spec

(* A file is given to BuildFile once, however many imports lead to it and  *)
(* however often it is loaded (file_descriptor_info.cc:13-15).             *)
THEOREM NeverBuiltTwice == Spec => []BuiltOnce
<1>1. ASSUME IndInv, base64Decoded PROVE IsInjective(built)
  <2>1. DOMAIN built = 1..Len(built)
    BY <1>1, LenProperties DEF IndInv, TypeInv
  <2> QED
    BY <1>1, <2>1 DEF IndInv, PoolInv, IsInjective
<1>2. IndInv => BuiltOnce
  BY <1>1 DEF BuiltOnce
<1> QED
  BY <1>2, Invariance, PTL

(* When loadFileDescriptors has returned, the pool holds what was loaded,  *)
(* with all direct and indirect imports; no BuildFile fails for the lack   *)
(* of an import.                                                           *)
THEOREM LoadsComplete == Spec => []LoadedWithImports
<1>1. ASSUME IndInv, base64Decoded, frames = <<>>
      PROVE  /\ Range(loads) \subseteq descriptor_pool
             /\ \A f \in descriptor_pool : Range(deps[f]) \subseteq descriptor_pool
  <2>1. TypeInv /\ PoolInv /\ LoadsInv /\ Len(frames) = 0
    BY <1>1, EmptySeq DEF IndInv
  <2>2. DOMAIN loads = 1..Len(loads)
    BY <2>1, LenProperties DEF TypeInv
  <2>3. \A f \in descriptor_pool : DOMAIN deps[f] = 1..Len(deps[f])
    BY <2>1, LenProperties DEF TypeInv, PoolInv
  <2>4. Range(loads) \subseteq descriptor_pool
    BY <2>1, <2>2 DEF LoadsInv, Range
  <2>5. \A f \in descriptor_pool : Range(deps[f]) \subseteq descriptor_pool
    BY <2>1, <2>3 DEF PoolInv, Range
  <2> QED
    BY <2>4, <2>5
<1>2. IndInv => LoadedWithImports
  BY <1>1 DEF LoadedWithImports
<1> QED
  BY <1>2, Invariance, PTL
=============================================================================
