----------------------- MODULE ResourceDecodingProofs -----------------------
(***************************************************************************)
(* For every set of names, fields and versions: what the constructors of   *)
(* DecodedResource make of a resource, in whatever form it comes.          *)
(***************************************************************************)
EXTENDS ResourceDecoding, TLAPS

(* The input by its kind; a Resource and an entry bring their version.     *)
InputInv ==
    \/ /\ input.kind = "any"
       /\ input.any \in Resources \cup {UnsetAny} \cup WrapperAnys
    \/ /\ input.kind = "resource" /\ input.resource \in Wrappers
       /\ input.version = input.resource.version
    \/ /\ input.kind = "entry" /\ input.entry \in InlineEntries
       /\ input.version = input.entry.version
    \/ input.kind = "message"

(* A DecodedResource is what a constructor made of this very input.        *)
OutcomeInv == Decoded => decoded \in Outcomes

IndInv == InputInv /\ OutcomeInv

LEMMA InitInv == Init => IndInv
<1> SUFFICES ASSUME Init PROVE IndInv
  OBVIOUS
<1>1. InputInv
  BY DEF Init, AnyInputs, InputInv
<1> QED
  BY <1>1 DEF Init, IndInv, OutcomeInv, Decoded

(* Decode chooses one of the outcomes, and no step changes the input.      *)
LEMMA StepInv == IndInv /\ [Next]_vars => IndInv'
<1> SUFFICES ASSUME IndInv, [Next]_vars PROVE IndInv'
  OBVIOUS
<1>1. input' = input
  BY DEF Next, Decode, Terminated, vars
<1>2. InputInv' /\ Outcomes' = Outcomes
  BY <1>1 DEF IndInv, InputInv, Outcomes
<1>3. decoded' = decoded \/ decoded' \in Outcomes
  BY DEF Next, Decode, Terminated, vars
<1> QED
  BY <1>2, <1>3 DEF IndInv, OutcomeInv, Decoded

(* Whatever has been decoded was made of the input, which is one that the  *)
(* program meets.                                                          *)
THEOREM Invariance == Spec => []IndInv
BY InitInv, StepInv, PTL DEF Spec

-----------------------------------------------------------------------------
(* The constructors.                                                       *)

(* A wrapper that arrives in an Any is decoded as the Resource inside it,  *)
(* or as any Resource where it cannot be parsed, with another version.     *)
LEMMA Unwrapped ==
    ASSUME NEW any, any.type_url = "Resource",
           any.value \in Wrappers \cup {Garbage}, NEW version,
           NEW d \in fromResource(any, version)
    PROVE  \E r \in Wrappers :
              /\ any.value # Garbage => r = any.value
              /\ d \in Construct(r.name, r.resource, r.has_resource, version)
<1>1. PICK r \in unpackToOrThrow(any.value, Wrappers) :
         d \in FromWrapper([r EXCEPT !.version = version])
  BY DEF fromResource
<1>2. r \in Wrappers /\ (any.value # Garbage => r = any.value)
  BY <1>1 DEF unpackToOrThrow
<1>3. d \in Construct(r.name, r.resource, r.has_resource, version)
  BY <1>1, <1>2 DEF FromWrapper, Wrappers
<1> QED
  BY <1>2, <1>3

(* The DecodedResource of each kind of input.  A bare resource, a wrapper  *)
(* and an entry go through the private constructor, with the version that  *)
(* came with the input.                                                    *)
LEMMA OutcomeShape ==
    ASSUME InputInv, NEW d \in Outcomes
    PROVE  \/ /\ input.kind = "message" /\ d.has_resource_ = TRUE
              /\ d.version_ = input.version
           \/ /\ input.kind = "any" /\ input.any \in Resources \cup {UnsetAny}
              /\ d \in Construct(NoString, input.any, TRUE, input.version)
           \/ /\ input.kind = "any" /\ input.any \in WrapperAnys
              /\ \E r \in Wrappers :
                    /\ input.any.value # Garbage => r = input.any.value
                    /\ d \in Construct(r.name, r.resource, r.has_resource, input.version)
           \/ /\ input.kind = "resource" /\ input.resource \in Wrappers
              /\ d \in Construct(input.resource.name, input.resource.resource,
                                 input.resource.has_resource, input.version)
           \/ /\ input.kind = "entry" /\ input.entry \in InlineEntries
              /\ d \in Construct(input.entry.name, input.entry.resource, TRUE,
                                 input.version)
<1>1. CASE input.kind = "any" /\ input.any \in Resources \cup {UnsetAny}
  <2>1. input.any.type_url # "Resource"
    BY <1>1, StringAssumption DEF StringAssumption, Resources, UnsetAny
  <2>2. d \in fromResource(input.any, input.version)
    BY <1>1 DEF Outcomes
  <2> QED
    BY <1>1, <2>1, <2>2 DEF fromResource
<1>2. CASE input.kind = "any" /\ input.any \in WrapperAnys
  <2>1. input.any.type_url = "Resource" /\ input.any.value \in Wrappers \cup {Garbage}
    BY <1>2 DEF WrapperAnys
  <2>2. d \in fromResource(input.any, input.version)
    BY <1>2 DEF Outcomes
  <2> QED
    BY <1>2, <2>1, <2>2, Unwrapped
<1>3. CASE input.kind = "resource"
  <2>1. d \in FromWrapper(input.resource)
    BY <1>3 DEF Outcomes
  <2> QED
    BY <1>3, <2>1 DEF FromWrapper, InputInv
<1>4. CASE input.kind = "entry"
  <2>1. d \in FromInlineEntry(input.entry)
    BY <1>4 DEF Outcomes
  <2> QED
    BY <1>4, <2>1 DEF FromInlineEntry, InputInv
<1>5. CASE input.kind = "message"
  <2>1. d \in FromMessage(input.message, input.name, input.version)
    BY <1>5 DEF Outcomes
  <2> QED
    BY <1>5, <2>1 DEF FromMessage
<1> QED
  BY <1>1, <1>2, <1>3, <1>4, <1>5 DEF InputInv

-----------------------------------------------------------------------------
(* The properties of the run, for every value of the constants.            *)

(* A DecodedResource has the version that came with the input: of a        *)
(* wrapper in a response the version of the response, parsed or not.       *)
THEOREM VersionKept == Spec => []VersionOfResponse
<1>1. IndInv => VersionOfResponse
  <2> SUFFICES ASSUME IndInv, Decoded PROVE decoded.version_ = input.version
    BY DEF VersionOfResponse
  <2>1. decoded \in Outcomes /\ InputInv
    BY DEF IndInv, OutcomeInv
  <2>2. \/ decoded.version_ = input.version
        \/ \E name, any, has : decoded \in Construct(name, any, has, input.version)
    BY <2>1, OutcomeShape, Zenon
  <2> QED
    BY <2>2 DEF Construct
<1> QED
  BY <1>1, Invariance, PTL

(* Where a form of the input has a resource inside, the DecodedResource    *)
(* is made with the flag set, of a message decodeResource leaves for it.   *)
LEMMA InsideDecoded ==
    ASSUME IndInv, Decoded, NEW any \in Inside
    PROVE  /\ decoded.resource_ \in decodeResource(any)
           /\ decoded.has_resource_ = TRUE /\ decoded.version_ = input.version
<1>1. decoded \in Outcomes /\ InputInv
  BY DEF IndInv, OutcomeInv
<1>2. CASE input.kind = "any"
  <2>1. /\ input.any \in WrapperAnys /\ input.any.value # Garbage
        /\ input.any.value.has_resource /\ any = input.any.value.resource
    BY <1>2 DEF Inside
  <2>2. input.any \notin Resources \cup {UnsetAny}
    BY <2>1, StringAssumption DEF StringAssumption, WrapperAnys, Resources, UnsetAny
  <2>3. PICK r \in Wrappers :
           /\ r = input.any.value
           /\ decoded \in Construct(r.name, r.resource, r.has_resource, input.version)
    BY <1>1, <1>2, <2>1, <2>2, OutcomeShape
  <2>4. r.has_resource = TRUE /\ any = r.resource
    BY <2>1, <2>3 DEF Wrappers
  <2> QED
    BY <2>3, <2>4 DEF Construct
<1>3. CASE input.kind = "resource"
  <2>1. input.resource.has_resource /\ any = input.resource.resource
    BY <1>3 DEF Inside
  <2>2. /\ input.resource \in Wrappers
        /\ decoded \in Construct(input.resource.name, input.resource.resource,
                                 input.resource.has_resource, input.version)
    BY <1>1, <1>3, OutcomeShape
  <2>3. input.resource.has_resource = TRUE
    BY <2>1, <2>2 DEF Wrappers
  <2> QED
    BY <2>2, <2>1, <2>3 DEF Construct
<1>4. CASE input.kind = "entry"
  <2>1. any = input.entry.resource
    BY <1>4 DEF Inside
  <2>2. decoded \in Construct(input.entry.name, input.entry.resource, TRUE, input.version)
    BY <1>1, <1>4, OutcomeShape
  <2> QED
    BY <2>1, <2>2 DEF Construct
<1>5. CASE input.kind = "message"
  BY <1>5 DEF Inside
<1> QED
  BY <1>1, <1>2, <1>3, <1>4, <1>5 DEF InputInv

(* In whatever form a resource comes, its message, its flag and its        *)
(* version are ones that the bare resource could have given.               *)
THEOREM Transparent == Spec => []WrappingIsTransparent
<1>1. IndInv => WrappingIsTransparent
  <2> SUFFICES ASSUME IndInv, Decoded, NEW any \in Inside
               PROVE  \E d \in Construct(NoString, any, TRUE, input.version) :
                         /\ decoded.resource_ = d.resource_
                         /\ decoded.has_resource_ = d.has_resource_
                         /\ decoded.version_ = d.version_
    BY DEF WrappingIsTransparent
  <2>1. /\ decoded.resource_ \in decodeResource(any)
        /\ decoded.has_resource_ = TRUE /\ decoded.version_ = input.version
    BY InsideDecoded
  <2> DEFINE bare == [resource_ |-> decoded.resource_, has_resource_ |-> TRUE,
                      name_ |-> resourceName(decoded.resource_),
                      version_ |-> input.version]
  <2>2. bare \in Construct(NoString, any, TRUE, input.version)
    BY <2>1 DEF Construct
  <2>3. /\ bare.resource_ = decoded.resource_ /\ bare.version_ = decoded.version_
        /\ bare.has_resource_ = decoded.has_resource_
    BY <2>1
  <2> QED
    BY <2>2, <2>3, Zenon
<1> QED
  BY <1>1, Invariance, PTL
=============================================================================
