SPECIFICATION Spec
CHECK_DEADLOCK FALSE
CONSTANTS
    Admins = {a1, a2}
    Rules = {r1, r2}
    Referenced = {r1}
    Initially = {r1}
    MaxWrites = 3
    MaxFailures = 1
    MaxRestarts = 1
INVARIANTS
    EngineRunsCommittedRules
    StalenessExplained
