SPECIFICATION Spec
CONSTANTS
    Users = {u1, u2}
    Bots = {}
    Tokens = {}
    Requests = {r1, r2}
SYMMETRY Symmetry
CHECK_DEADLOCK FALSE
INVARIANTS
    AlwaysAnOwner
