CONSTANTS
    w1 = w1
    w2 = w2
    Worker = {w1, w2}
    MaxConcurrency = 2
    Capacity = 2
    PollSlots = 1
    MaxErrors = 2
    Cancelled = Cancelled
    MaxQueue = 3
SPECIFICATION Spec
INVARIANTS
    TypeOK
    NeverOverCommitted
    EndedHoldsNothing
PROPERTIES
    PrimaryFailureKept
