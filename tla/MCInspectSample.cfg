CONSTANTS
    s1 = s1
    s2 = s2
    Sample = {s1, s2}
    MaxSubmits <- Submits
    Entry <- Entries
    Places = 1
    Workers = 1
    None = None
SPECIFICATION Spec
INVARIANTS
    PlacesReturned
    ArchiveOwned
    RightBuild
    NothingForgotten
