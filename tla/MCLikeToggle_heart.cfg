SPECIFICATION FairSpec
CONSTANTS
    d1 = d1
    d2 = d2
    a1 = a1
    a2 = a2
    Devices = {d1}
    Accounts = {a1}
    MayUse <- EveryoneEverywhere
    Ids = {1, 2, 3}
    MaxTaps = 2
    MaxRequests = 3
    Faults = {"kill"}
    Nil = Nil
CHECK_DEADLOCK FALSE
INVARIANTS
    HeartAgreesWhenIdle
PROPERTIES
    FilledHeartIsStored
