SPECIFICATION FairSpec
CONSTANTS
    t1 = t1
    t2 = t2
    l1 = l1
    l2 = l2
    u1 = u1
    Tenants = {t1, t2}
    Logs = {l1, l2}
    Updates = {u1}
    TenantOf <- MCTenantOf
    MAX_RETRIES = 1
    BATCH_SIZE = 1
    MaxEvents = 1
    PlanChanges = {t1}
CHECK_DEADLOCK FALSE
INVARIANTS
    TypeOK
    EventsHaveTheirLog
PROPERTIES
    OnlyExpiredPurged
    MeteringEnds
    RetentionReached
