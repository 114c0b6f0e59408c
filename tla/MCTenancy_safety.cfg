SPECIFICATION Spec
CONSTANTS
    Users = {u1, u2}
    Bots = {b1}
    Tokens = {t1, t2}
    Requests = {r1, r2}
SYMMETRY Symmetry
CHECK_DEADLOCK FALSE
INVARIANTS
    TypeOK
    AssignedAreMembers
    CascadeComplete
    OwnerKept
