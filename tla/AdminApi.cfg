SPECIFICATION Spec
CHECK_DEADLOCK FALSE
CONSTANTS
    r1 = r1
    r2 = r2
    r3 = r3
    k1 = k1
    k2 = k2
    Requests = {r1, r2, r3}
    Workloads <- Kinds
    UserSpellings = {"root", "ana", "Ana"}
    UserName <- Users
    AgentSpellings = {"demo-agent", "web", " web"}
    AgentName <- Agents
    Root = "root"
    Demo = "demo-agent"
    EnvKeys = {k1, k2}
    MaxAgents = 2
    Timeout = 1
    MaxTime = 2
    MaxRestarts = 1
SYMMETRY Symmetry
INVARIANTS
    AdminRemains
    CommitsBind
    KeysIdentify
    RefusalsExplained
PROPERTIES
    DeactivationLasts
    SweepSparesLive
