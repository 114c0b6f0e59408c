SPECIFICATION Spec
CONSTANTS
    Messages = {m1}
    Destinations = {d1}
    Workers = {w1, w2}
    Dispatchers = {p1}
    Bot = bot
    MaxRetries = 1
    FaultKinds = {}
    MaxFaults = 0
    MaxErrs = 3
    CanThrottle = TRUE
    Retention = FALSE
CHECK_DEADLOCK FALSE
INVARIANTS
    FailuresBounded
