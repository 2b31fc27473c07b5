SPECIFICATION Spec
CONSTANTS
    Routes = {1, 2}
    Old = {1}
    Titles = {t1}
    Subcollections = {"Route", "Comment"}
    Unheld <- CommentsUnheld
    MaxAsked = 2
    MaxDeletions = 2
    MaxDisruptions = 2
    Nil = Nil
CHECK_DEADLOCK FALSE
INVARIANTS
    TypeOK
    SubcollectionsGo
    GatheredIsComplete
    RefusedRowReturns
    InsertInRange
