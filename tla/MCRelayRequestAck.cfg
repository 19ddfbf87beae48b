CONSTANTS
    d1 = d1
    d2 = d2
    Delivery = {d1, d2}
    Forwarding = {}
    Threaded = {}
    MaxAttempts = 2
    None = None
SPECIFICATION Spec
INVARIANTS
    LostAckIsRetried
