\* Three responses and two wake-ups without notification.
CONSTANTS
    MaxResponses = 3
    MaxSpurious = 2
SPECIFICATION Spec
INVARIANTS
    NotDestroyedInUse
PROPERTIES
    ImplementsOneShot
    AwaitReturns
