CONSTANTS
    m1 = m1
    m2 = m2
    m3 = m3
    Member = {m1, m2, m3}
    Async = {TRUE}
    GroupDeadline = 3
    Oversleeps = FALSE
    NoAnswer = NoAnswer
SPECIFICATION GroupSpec
INVARIANTS
    FailureListsMembers
