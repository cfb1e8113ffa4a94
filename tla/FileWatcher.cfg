SPECIFICATION FairSpec
CHECK_DEADLOCK FALSE
CONSTANTS
    MaxSize = 3
    MaxChanges = 2
    MaxFailures = 1
    MaxRestarts = 1
INVARIANTS
    TypeOK
    NoRepeatInPass
    NothingSkipped
PROPERTIES
    CatchesUp
