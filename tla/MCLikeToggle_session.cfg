SPECIFICATION FairSpec
CONSTANTS
    d1 = d1
    d2 = d2
    a1 = a1
    a2 = a2
    Devices = {d1}
    Accounts = {a1, a2}
    MayUse <- EveryoneEverywhere
    Ids = {1, 2}
    MaxTaps = 1
    MaxRequests = 2
    Faults = {"leaveEarly"}
    Nil = Nil
CHECK_DEADLOCK FALSE
INVARIANTS
    TypeOK
    OnlyTappersLike
PROPERTIES
    SwitchesLike
