SPECIFICATION Spec
CONSTANTS
    Bots = {b1}
    Chats = {c1}
    Rows = {1}
    Updates = {u1}
    Admins = {a1}
    NoDest = nodest
    BotChanges = TRUE
    MaxFaults = 0
CHECK_DEADLOCK FALSE
PROPERTIES
    BlockedStaysBlocked
