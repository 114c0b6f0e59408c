SPECIFICATION Spec
CONSTANTS
    Bots = {b1, b2}
    Chats = {c1}
    Rows = {1, 2}
    Updates = {}
    Admins = {a1, a2}
    NoDest = nodest
    BotChanges = TRUE
    MaxFaults = 0
SYMMETRY Symmetry
CHECK_DEADLOCK FALSE
INVARIANTS
    TypeOK
    TombstonesOffLiveDests
PROPERTIES
    DeletionIsFinal
