----------------------------- MODULE MCAnalysis -----------------------------
(***************************************************************************)
(* AnalysisService on small instances: alerts and requests without events, *)
(* events without alerts, and a little of both.                            *)
(***************************************************************************)
EXTENDS AnalysisService

CONSTANTS a1, a2, k1, k2, r1, r2, e1, e2

\* One alert per rule, so that a pass has two groups.
OneAlertEach == [a \in {a1, a2} |-> IF a = a1 THEN k1 ELSE k2]

Load(alerts, requests, events, rows, failing, processes) ==
    [alerts |-> alerts, requests |-> requests, events |-> events, stored |-> rows,
     failing |-> failing, starts |-> processes]

SmallLoads == {
    Load({a1, a2}, {r1}, {}, 0, "database", 2),
    Load({a1}, {r1, r2}, {}, 0, "database", 2),
    Load({}, {}, {e1, e2}, 2, "scorer", 2),
    Load({}, {}, {e1, e2}, 1, "scorer", 2),
    Load({a1}, {r1}, {e1}, 2, "database", 2) }
=============================================================================
