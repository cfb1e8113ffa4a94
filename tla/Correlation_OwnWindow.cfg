SPECIFICATION Spec
CHECK_DEADLOCK FALSE
CONSTANTS
    Workers = {w1, w2}
    Rules = {1}
    Windowed = {1}
    WindowLen = 1
    MaxTime = 2
    MaxEvents = 3
    MaxReloads = 0
    MaxEdits = 0
    MaxFailures = 0
INVARIANTS
    CountersStayInTheirWindow
