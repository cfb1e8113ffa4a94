SPECIFICATION FairService
CHECK_DEADLOCK FALSE
CONSTANTS
    a1 = a1
    a2 = a2
    k1 = k1
    k2 = k2
    r1 = r1
    r2 = r2
    e1 = e1
    e2 = e2
    Alerts = {a1, a2}
    Rules = {k1, k2}
    RuleOf <- OneAlertEach
    Requests = {r1, r2}
    Nobody = Nobody
    Asked = {"open", "resolved", "false_positive", "deleted"}
    Scores = {7}
    NoScore = NoScore
    MaxFailures = 1
    Events = {e1, e2}
    MinEvents = 2
    Interval = 1
    MaxMLFailures = 1
    MinValues = 1
    Loads <- SmallLoads
INVARIANTS
    DecisionsStand
    ClosedAlertsStamped
    ClosedAlertsSettle
    ScoresOfOneTraining
PROPERTIES
    ActiveAlertsGrouped
    AnalysesEnd
    OutOfUseForGood
