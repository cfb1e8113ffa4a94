SPECIFICATION FairSpec
CHECK_DEADLOCK FALSE
CONSTANTS
    MaxLines = 4
    Unparsed = {2}
    MaxSize = 3
    BatchSize = 2
    MaxRetries = 1
    Burst = 1
    Codes = {200, 201, 400}
    MaxRestarts = 1
INVARIANTS
    SentWasAccepted
    SentInOrder
    PendingBounded
    CopiesBoundedByRestarts
PROPERTIES
    PromiseSpec
    QueuedEventuallySent
