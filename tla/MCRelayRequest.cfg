CONSTANTS
    d1 = d1
    d2 = d2
    Delivery = {d1, d2}
    Forwarding = {d1}
    Threaded = {d2}
    MaxAttempts = 2
    None = None
SPECIFICATION Spec
INVARIANTS
    TypeOK
    OkMeansDurable
    AckedSurvivesRenewal
    NoOrphanRenewer
PROPERTIES
    OneResultPerDelivery
    EveryDeliveryEnds
