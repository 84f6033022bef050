-------------------------- MODULE ResourceDecoding --------------------------
(***************************************************************************)
(* DecodedResource with the OpaqueResourceDecoder it calls: a resource of  *)
(* a response, bare or in a Resource wrapper, a Resource, an entry of a    *)
(* collection, or a message that is decoded already becomes one.           *)
(*                                                                         *)
(* Bytes that are a serialised message are that message, all others are    *)
(* Garbage.  ParseFromString (external) clears its target; on garbage it   *)
(* returns false with whatever it had read by then, and unpackToOrThrow    *)
(* writes a line to the log and goes on, so any content may result.        *)
(***************************************************************************)
EXTENDS FiniteSets

CONSTANTS
    Fields,      \* values of the name field of a resource
    Names,       \* names a wrapper can carry
    Versions,    \* versions
    NoString,    \* the empty string
    Garbage,     \* bytes no message is serialised to
    NotDecoded   \* there is no DecodedResource yet

ASSUME StringAssumption ==
    NoString \notin Names \cup Fields \cup {"resource", "Resource"}
ASSUME BytesAssumption  == Garbage \notin [name : Fields \cup {NoString}]

(* Messages of the type of the decoder; a new one is empty.                *)
Messages == [name : Fields \cup {NoString}]
NewMessage == [name |-> NoString]

(* google.protobuf.Any with a resource, and one without a type URL.        *)
Resources == [type_url : {"resource"}, value : Messages \cup {Garbage}]
UnsetAny == [type_url |-> NoString, value |-> NewMessage]

(* envoy.service.discovery.v3.Resource.                                    *)
Wrappers ==
    {r \in [name : Names \cup {NoString}, version : Versions,
            has_resource : BOOLEAN, resource : Resources \cup {UnsetAny}] :
        ~r.has_resource => r.resource = UnsetAny}

(* xds.core.v3.CollectionEntry.InlineEntry.                                *)
InlineEntries == [name : Names \cup {NoString}, version : Versions,
                  resource : Resources \cup {UnsetAny}]

WrapperAnys == [type_url : {"Resource"}, value : Wrappers \cup {Garbage}]

(* The messages unpackToOrThrow can leave in its second argument.          *)
unpackToOrThrow(bytes, messages) == IF bytes = Garbage THEN messages ELSE {bytes}

(* decodeResource leaves a new message as it is without a type URL.        *)
decodeResource(any) ==
    IF any.type_url = NoString THEN {NewMessage} ELSE unpackToOrThrow(any.value, Messages)

(* resourceName returns what getStringField does, the empty string.        *)
resourceName(message) == NoString

(* The private constructor, with aliases, which are always empty, left     *)
(* out: one DecodedResource for each outcome of decodeResource.            *)
Construct(name, any, has_resource, version) ==
    {[resource_    |-> message,
      has_resource_ |-> has_resource,
      name_        |-> IF name # NoString THEN name ELSE resourceName(message),
      version_     |-> version] : message \in decodeResource(any)}

(* The constructor from an InlineEntry.                                    *)
FromInlineEntry(entry) == Construct(entry.name, entry.resource, TRUE, entry.version)

(* The constructor from a message that has been decoded elsewhere.         *)
FromMessage(message, name, version) ==
    {[resource_ |-> message, has_resource_ |-> TRUE, name_ |-> name,
      version_ |-> version]}

(* The constructor from a Resource and the fromResource that calls it.     *)
FromWrapper(r) == Construct(r.name, r.resource, r.has_resource, r.version)

(* Fault: the wrapper keeps the version it came with.                      *)
fromResourceOwnVersion(any, version) ==
    IF any.type_url = "Resource"
      THEN UNION {FromWrapper(r) : r \in unpackToOrThrow(any.value, Wrappers)}
      ELSE Construct(NoString, any, TRUE, version)

(* Fault: the wrapper itself is given to the decoder.                      *)
fromResourceUnwrapped(any, version) ==
    Construct(NoString, IF any.type_url = "Resource" THEN [any EXCEPT !.value = Garbage] ELSE any,
              TRUE, version)

(* fromResource of an Any: a wrapper is unpacked and gets the version of   *)
(* the response.                                                           *)
fromResource(any, version) ==
    IF any.type_url = "Resource"
      THEN UNION {FromWrapper([r EXCEPT !.version = version]) :
                    r \in unpackToOrThrow(any.value, Wrappers)}
      ELSE Construct(NoString, any, TRUE, version)

VARIABLES
    input,      \* what is to be decoded, with the version that comes with it
    decoded     \* the DecodedResource, once there is one

vars == <<input, decoded>>

AnyInputs == [kind : {"any"}, version : Versions,
              any : Resources \cup {UnsetAny} \cup WrapperAnys]

Init == /\ input \in AnyInputs
                   \cup [kind : {"resource"}, version : Versions, resource : Wrappers]
                   \cup [kind : {"entry"}, version : Versions, entry : InlineEntries]
                   \cup [kind : {"message"}, version : Versions, message : Messages,
                         name : Names]
        /\ input.kind = "resource" => input.version = input.resource.version
        /\ input.kind = "entry" => input.version = input.entry.version
        /\ decoded = NotDecoded

(* What the constructor for the kind of the input can make of it.          *)
Outcomes ==
    CASE input.kind = "any" -> fromResource(input.any, input.version)
      [] input.kind = "resource" -> FromWrapper(input.resource)
      [] input.kind = "entry" -> FromInlineEntry(input.entry)
      [] input.kind = "message" -> FromMessage(input.message, input.name, input.version)

Decode == decoded = NotDecoded /\ decoded' \in Outcomes /\ UNCHANGED input

Terminated == decoded # NotDecoded /\ UNCHANGED vars

Next == Decode \/ Terminated

Spec == Init /\ [][Next]_vars

-----------------------------------------------------------------------------
(* Properties.                                                             *)

Decoded == decoded # NotDecoded

(* The version is the one that came with the input, which for a wrapper in *)
(* a response is that of the response, and never the one that the wrapper  *)
(* brings with it, not even when the wrapper cannot be parsed.             *)
VersionOfResponse == Decoded => decoded.version_ = input.version

(* The resource inside a wrapper, a Resource or an entry that has one.     *)
Inside ==
    CASE input.kind = "any" /\ input.any \in WrapperAnys /\ input.any.value # Garbage ->
           IF input.any.value.has_resource THEN {input.any.value.resource} ELSE {}
      [] input.kind = "resource" ->
           IF input.resource.has_resource THEN {input.resource.resource} ELSE {}
      [] input.kind = "entry" -> {input.entry.resource}
      [] OTHER -> {}

(* It makes no difference to the message and the version in which form the *)
(* resource came: each is what the bare resource would have given.         *)
WrappingIsTransparent ==
    Decoded => \A any \in Inside :
        \E d \in Construct(NoString, any, TRUE, input.version) :
           /\ decoded.resource_ = d.resource_
           /\ decoded.has_resource_ = d.has_resource_
           /\ decoded.version_ = d.version_
=============================================================================
