\* Bare and wrapped resources, garbage in both places.
CONSTANTS
    Fields = {"f1", "f2"}
    Names = {"n1", "n2"}
    Versions = {"1", "2"}
    NoString = ""
    Garbage = Garbage
    NotDecoded = NotDecoded
SPECIFICATION Spec
INVARIANTS
    VersionOfResponse
    WrappingIsTransparent
