CONSTANTS
    s1 = s1
    s2 = s2
    Session = {s1, s2}
    Runner = {s1}
    Direct = Direct
    Attempts = 2
    None = None
    MaxConcurrency = 2
    Capacity = 2
    MaxErrors = 2
SPECIFICATION Spec
INVARIANTS
    ClosedMeansGone
    NewestSurvives
    OwnRequests
    EndedRunsGiveBack
