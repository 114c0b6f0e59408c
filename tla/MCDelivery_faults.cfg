SPECIFICATION FairSpec
CONSTANTS
    Messages = {m1}
    Destinations = {d1}
    Workers = {w1, w2}
    Dispatchers = {p1}
    Bot = bot
    MaxRetries = 1
    FaultKinds = {"redeliver", "lose", "apiCrash", "dispatchCrash", "ambiguous"}
    MaxFaults = 1
    MaxErrs = 0
    CanThrottle = TRUE
    Retention = TRUE
CHECK_DEADLOCK FALSE
INVARIANTS
    TypeOK
    TasksFollowCommit
    NothingEarly
    SentMeansDelivered
    CancelledNeverSent
    NoLostDelivery
PROPERTIES
    EveryDeliverySettles
