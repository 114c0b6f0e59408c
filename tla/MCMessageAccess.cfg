SPECIFICATION Spec
CONSTANTS
    Requests = {p1, p2}
    TelegramBots = {tb}
    Tenants = {t1, t2}
    Rows = {1, 2}
    ApiKeys = {1, 2}
    Nobody = nobody
    MaxFaults = 1
    Users = {u1}
    Dests = {d1, d2}
    Templates = {x1}
    Bodies = {v1, v2}
    MaxRequests = 3
    MaxChanges = 1
SYMMETRY Symmetry
CHECK_DEADLOCK FALSE
INVARIANTS
    TypeOK
    OneLivePerTelegramBot
    LiveBotReachable
    OnlyEntitledPass
PROPERTIES
    TemplatesStayDeleted
