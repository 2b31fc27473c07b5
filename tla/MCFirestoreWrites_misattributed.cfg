SPECIFICATION Spec
CONSTANTS
    Users = {u1}
    MaxPendingWrites = 3
    MaxWrites = 3
    MaxDisruptions = 0
    Nil = Nil
CHECK_DEADLOCK FALSE
INVARIANTS
    FailedWasRefused
