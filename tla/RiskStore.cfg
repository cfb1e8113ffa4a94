SPECIFICATION Spec
CHECK_DEADLOCK FALSE
SYMMETRY Symmetry
CONSTANTS
    Tasks = {t1, t2}
    Entities = {ip1, ip2}
    Increments = {1, 3}
    MaxRisk = 4
    Decay <- Halved
    MaxTime = 3
    MaxUpdates = 4
    MaxFailures = 1
    MaxRestarts = 2
INVARIANTS
    RiskJustified
    RestartForgetsOnly
