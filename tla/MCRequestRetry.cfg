CONSTANTS
    r1 = r1
    r2 = r2
    c1 = c1
    c2 = c2
    Request = {r1, r2}
    Mixes <- RequestMixes
    Conn = {c1, c2}
    MaxIdle = 2
    MaxAttempts = 2
    MaxConnects = 2
    Deadline = 2
    None = None
SPECIFICATION Spec
INVARIANTS
    AppliedOnce
    OwnAnswer
PROPERTIES
    RequestsEnd
