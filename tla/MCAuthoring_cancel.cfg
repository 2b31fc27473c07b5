SPECIFICATION FairSpec
CONSTANTS
    Drafts = {d1, d2}
    Texts = {t1}
    Cities = {c1}
    Tours = {u1}
    PlaceIds = {p1, p2}
    Dates <- SixDays
    Rows <- LastRow
    Nil = Nil
    Faults = {}
CHECK_DEADLOCK FALSE
INVARIANTS
    CancelledIsPurged
PROPERTIES
    CancelCompletes
    StoredPlaceShown
