SPECIFICATION Spec
CONSTANTS
    Posts = {1, 3}
    Stamp <- MCStamp
    Watched <- MCWatched
    MaxAsked = 2
    MaxChanges = 3
    MaxFailures = 1
    Nil = Nil
CHECK_DEADLOCK FALSE
INVARIANTS
    FeedIsCurrent
    RowsAreDistinct
    ShownCountsAreReal
    CommentsAreCurrent
