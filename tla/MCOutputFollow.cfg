CONSTANTS
    Cases <- FollowCases
    Limit = 2
    Window = 1
    None = None
SPECIFICATION Spec
INVARIANTS
    StdinInOrder
    ClosedStdin
PROPERTIES
    OutputInOrder
    FollowEnds
