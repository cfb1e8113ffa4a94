SPECIFICATION FairSpec
CHECK_DEADLOCK FALSE
CONSTANTS
    t1 = t1
    t2 = t2
    Tasks = {t1, t2}
    Workloads <- AllWorkloads
    Numerals <- NumberTexts
    Written <- Spelled
    Worth <- Numbers
    Readable <- FloatTexts
    Overflowing <- Huge
    NoText = NoText
    JsonConditions <- AllConditions
    Nesting <- DepthOf
    Unparsable = Unparsable
    MinLevel <- Notifiers
    MaxFailures = 2
    MaxRestarts = 1
INVARIANTS
    EffectsOnce
    BatchAccounted
    EveryTargetTried
    AlertsFollowRules
    OperatorsFit
PROPERTIES
    TasksFinish
