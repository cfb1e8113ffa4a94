SPECIFICATION Spec
CHECK_DEADLOCK FALSE
CONSTANTS
    Workers = {w1, w2}
    Rules = {1, 2}
    Windowed = {1}
    WindowLen = 1
    MaxTime = 1
    MaxEvents = 3
    MaxReloads = 1
    MaxEdits = 1
    MaxFailures = 1
INVARIANTS
    AlertsSpaced
    NeverOvercounts
    CountersSettled
