SPECIFICATION Spec
CHECK_DEADLOCK FALSE
CONSTANTS
    t1 = t1
    t2 = t2
    Tasks = {t1, t2}
    Workloads <- NotWorkloads
    Numerals <- NumberTexts
    Written <- Spelled
    Worth <- Numbers
    Readable <- FloatTexts
    Overflowing <- Huge
    NoText = NoText
    JsonConditions <- AllConditions
    Nesting <- DepthOf
    Unparsable = Unparsable
    MinLevel <- Notifiers
    MaxFailures = 1
    MaxRestarts = 1
INVARIANTS
    NotGroupsNegate
