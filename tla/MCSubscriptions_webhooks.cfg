SPECIFICATION FairSpec
CONSTANTS
    Bots = {b1}
    Chats = {c1}
    Rows = {1, 2}
    Updates = {r1, r2}
    Admins = {r1}
    NoDest = nodest
    BotChanges = FALSE
    MaxFaults = 1
CHECK_DEADLOCK FALSE
INVARIANTS
    OneLiveDestination
    OptOutHonoured
PROPERTIES
    RequestsEnd
    RepliesComeTrue
    RegisterSpec
