SPECIFICATION Spec
CONSTANTS
    Messages = {m1}
    Destinations = {d1, d2}
    Workers = {w1, w2}
    Dispatchers = {p1}
    Bot = bot
    MaxRetries = 1
    FaultKinds = {"lose", "apiCrash", "dispatchCrash"}
    MaxFaults = 2
    MaxErrs = 0
    CanThrottle = TRUE
    Retention = FALSE
SYMMETRY Symmetry
CHECK_DEADLOCK FALSE
INVARIANTS
    MeterMatchesLedger
    StatusTruthful
PROPERTIES
    LedgerSpec
