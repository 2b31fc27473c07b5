SPECIFICATION Spec
CONSTANTS
    d1 = d1
    d2 = d2
    a1 = a1
    a2 = a2
    Devices = {d1, d2}
    Accounts = {a1}
    MayUse <- EveryoneEverywhere
    Ids = {1, 2, 3}
    MaxTaps = 1
    MaxRequests = 1
    Faults = {"readError"}
    Nil = Nil
SYMMETRY Alike
CHECK_DEADLOCK FALSE
INVARIANTS
    LikesBounded
