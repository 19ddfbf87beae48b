CONSTANTS
    c1 = c1
    c2 = c2
    c3 = c3
    c4 = c4
    w1 = w1
    w2 = w2
    Call <- MCCall
    Worker = {w1, w2}
    Owner <- MCOwner
    Capacity = 2
SPECIFICATION Spec
INVARIANTS
    PermitsConserved
PROPERTIES
    FifoOrder
    StopAnswersCall
    EveryCallAnswered
