SPECIFICATION Spec
CONSTANTS
    Drafts = {d1, d2}
    Texts = {t1, t2}
    Cities = {c1}
    Tours = {u1}
    PlaceIds = {p1, p2}
    Dates <- TwoDays
    Rows <- TwoRows
    Nil = Nil
    Faults = {"kill", "readError"}
SYMMETRY Names
CHECK_DEADLOCK FALSE
INVARIANTS
    TypeOK
    SaveableIsTitled
    ShownPlacesAreStored
    PlacesHaveLocation
    ImageFromFirstDay
PROPERTIES
    WizardWritesOwnDraft
    DeletedStaysDeleted
