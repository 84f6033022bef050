--------------------------- MODULE FileDescriptors ---------------------------
(***************************************************************************)
(* protofile: loadFileDescriptors puts a proto file and the files it       *)
(* imports into a DescriptorPool, recursively.  There are two copies of    *)
(* it: the function of file_descriptor_info.cc, and the member function of *)
(* TextFormatTranscoder, in which the decoding of the bytes is commented   *)
(* out, so that it builds an empty FileDescriptorProto.                    *)
(*                                                                         *)
(* The recursion is a stack of frames, each a file and the import it is    *)
(* at.  Imports of proto files are acyclic: a file imports smaller ones.   *)
(***************************************************************************)
EXTENDS Naturals, Sequences, FiniteSets, Functions, SequencesExt

CONSTANTS
    FileCount,       \* the files are 1..FileCount
    MaxLoads         \* bound: calls of loadFileDescriptors by the application

Files == 1..FileCount

(* The name of a FileDescriptorProto parsed from no bytes.                 *)
NoName == 0

ASSUME FileAssumption == FileCount \in Nat /\ MaxLoads \in Nat

VARIABLES
    deps,                     \* FileDescriptorInfo::deps of every file
    base64Decoded,            \* which copy: are the bytes decoded?
    frames,                   \* the activations of loadFileDescriptors
    descriptor_pool,          \* names of the files in the pool
    built,                    \* files given to BuildFile, in order
    loads                     \* files the application has loaded, in order

vars == <<deps, base64Decoded, frames, descriptor_pool, built, loads>>

(* Any acyclic imports: each file lists some smaller files in some order.  *)
Init ==
    /\ deps \in [Files -> UNION {SetToSeqs(S) : S \in SUBSET (1..(FileCount - 1))}]
    /\ \A f \in Files : \A i \in DOMAIN deps[f] : deps[f][i] < f
    /\ base64Decoded \in BOOLEAN
    /\ frames = <<>> /\ descriptor_pool = {} /\ built = <<>> /\ loads = <<>>

(* Fault: the pool is not searched first.                                  *)
CallAlways(stack, f) == Append(stack, [file |-> f, i |-> 1])

(* A call of loadFileDescriptors returns at once if the pool has the file. *)
Call(stack, f) ==
    IF f \in descriptor_pool THEN stack ELSE Append(stack, [file |-> f, i |-> 1])

LoadFileDescriptors(f) ==
    /\ frames = <<>> /\ Len(loads) < MaxLoads
    /\ frames' = Call(<<>>, f)
    /\ loads' = Append(loads, f)
    /\ UNCHANGED <<deps, base64Decoded, descriptor_pool, built>>

Top == Last(frames)

(* Fault: the loop stops before the last import.                           *)
MoreDepsButOne == Top.i < Len(deps[Top.file])

(* The loop runs to the null pointer behind the last import.               *)
MoreDeps == Top.i <= Len(deps[Top.file])

(* One turn of the loop: the call for the next import.                     *)
LoadNextDep ==
    /\ frames # <<>> /\ MoreDeps
    /\ LET here == Front(frames) \o <<[Top EXCEPT !.i = @ + 1]>>
       IN  frames' = Call(here, deps[Top.file][Top.i])
    /\ UNCHANGED <<deps, base64Decoded, descriptor_pool, built, loads>>

(* The name in the FileDescriptorProto.  The code uses neither the result  *)
(* of Base64Unescape nor that of ParseFromString (external): it is assumed *)
(* that both succeed on the bytes built into the program, and that they    *)
(* give the file of that name with the imports that deps lists.            *)
ProtoName(f) == IF base64Decoded THEN f ELSE NoName

(* BuildFile (external) fails if an import is missing; an empty proto has  *)
(* no imports, and building it again finds the one that is there.          *)
BuildFile(f) ==
    IF base64Decoded => Range(deps[f]) \subseteq descriptor_pool
      THEN descriptor_pool' = descriptor_pool \cup {ProtoName(f)}
      ELSE UNCHANGED descriptor_pool

(* Fault: the file is built until the pool has it.                         *)
BuildRetrying ==
    /\ frames # <<>> /\ ~MoreDeps
    /\ BuildFile(Top.file)
    /\ IF Top.file \in descriptor_pool'
         THEN built' = Append(built, Top.file) /\ frames' = Front(frames)
         ELSE UNCHANGED <<built, frames>>
    /\ UNCHANGED <<deps, base64Decoded, loads>>

(* The end of the function.                                                *)
BuildAndReturn ==
    /\ frames # <<>> /\ ~MoreDeps
    /\ BuildFile(Top.file)
    /\ built' = Append(built, Top.file)
    /\ frames' = Front(frames)
    /\ UNCHANGED <<deps, base64Decoded, loads>>

Step == LoadNextDep \/ BuildAndReturn

(* The application loads no other file.                                    *)
Terminated == frames = <<>> /\ Len(loads) = MaxLoads /\ UNCHANGED vars

Next == \/ \E f \in Files : LoadFileDescriptors(f)
        \/ Step
        \/ Terminated

(* A call that was made goes on; the application owes nothing.             *)
Spec == Init /\ [][Next]_vars /\ WF_vars(Step)

-----------------------------------------------------------------------------
(* Properties.                                                             *)

(* A file is built once, however many paths of imports lead to it and      *)
(* however often it is loaded (file_descriptor_info.cc:13-15).             *)
BuiltOnce == base64Decoded => IsInjective(built)

(* When the application's call has returned, the pool holds the file with  *)
(* everything it imports, directly or not.  The transcoder decodes nothing *)
(* and has neither.                                                        *)
LoadedWithImports ==
    base64Decoded /\ frames = <<>> =>
        /\ Range(loads) \subseteq descriptor_pool
        /\ \A f \in descriptor_pool : Range(deps[f]) \subseteq descriptor_pool

(* Every call of loadFileDescriptors returns, of the transcoder too, whose *)
(* search of the pool finds no file and so prunes nothing.                 *)
LoadReturns == []<>(frames = <<>>)
=============================================================================
