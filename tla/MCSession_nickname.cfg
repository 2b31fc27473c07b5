SPECIFICATION Spec
CONSTANTS
    Emails = {e1}
    Googles = {g1}
    MaxAsked = 1
    Empty = Empty
    Nil = Nil
SYMMETRY Names
CHECK_DEADLOCK FALSE
INVARIANTS
    SavedIdPresent
