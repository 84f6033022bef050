\* Four responses, at any time relative to both threads.
CONSTANT
    MaxResponses = 4
SPECIFICATION Spec
INVARIANTS
    TypeOK
    FinishAlone
PROPERTY
    ImplementsOneShot
