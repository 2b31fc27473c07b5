SPECIFICATION FairSpec
CONSTANTS
    Users = {u1, u2}
    MaxPendingWrites = 2
    MaxWrites = 3
    MaxDisruptions = 2
    Nil = Nil
CHECK_DEADLOCK FALSE
INVARIANTS
    TypeOK
    PipelineIsQueueHead
    PipelineIsServed
    AnswersMatchPipeline
    CallbacksBelong
    SentAsOwner
    LastWriteWins
    WaitingWritesMove
PROPERTIES
    ImplementsOutbox
    WritesSettle
