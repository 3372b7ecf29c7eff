SPECIFICATION Spec
CONSTANTS
    k1 = k1
    k2 = k2
    admin = admin
    guest = guest
    Opcodes = {257}
    Calls = {k1, k2}
    Ids = {admin, guest}
    Allowed = {admin}
    RateMax = 1
    MaxBuild = 4
SYMMETRY Symmetry
INVARIANTS
    GuardHolds
    LoggedAndAnswered
    RateBound
CHECK_DEADLOCK FALSE
