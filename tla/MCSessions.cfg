SPECIFICATION Spec
CONSTANTS
    Callers = {p1, p2}
    Clients = {ip}
    Users = {u1, u2}
    Tenants = {t1}
    Bots = {b}
    Chats = {c1}
    Nobody = nobody
    Never = never
    Limit <- MCLimit
    WINDOW_SECONDS = 2
    MaxTime = 2
    MaxCalls = 3
    MaxDeaths = 1
    Emails = {e1}
    Tokens = {1, 2, 3, 4}
    ACCESS_EXPIRE = 0
    REFRESH_EXPIRE = 1
SYMMETRY Symmetry
CHECK_DEADLOCK FALSE
INVARIANTS
    TypeOK
    WithinLimit
    CountersExpire
    OneUserPerEmail
    SessionsForkOnlyByOverlap
