CONSTANTS
    m1 = m1
    m2 = m2
    m3 = m3
    Member = {m1, m2, m3}
    Async = {TRUE, FALSE}
    GroupDeadline = 3
    Oversleeps = TRUE
    NoAnswer = NoAnswer
SPECIFICATION GroupSpec
INVARIANTS
    EveryMemberHandled
    ErrorKnowsMembers
PROPERTIES
    CallEnds
