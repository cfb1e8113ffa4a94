-------------------------- MODULE AnalysisService --------------------------
(***************************************************************************)
(* The analysis service whole (AnalysisService,                            *)
(* backend/app/services/analysis_service.py): it is initialized with the   *)
(* application, analyses every stored event in a task of its own, with the *)
(* scorer of MLEngine, and runs the grouping passes of AlertLifecycle, all *)
(* on the event loop that also answers the status requests.  A fit of the  *)
(* scorer holds that loop.                                                 *)
(***************************************************************************)
EXTENDS AlertLifecycle, MLEngine

CONSTANTS
    MinValues,   \* values of a field a baseline needs (10)
    Loads        \* what a behaviour is given: see ServiceAssumption

\* A load: the alerts, requests and events there may be, the events of the last
\* day at first, whether it is the scorer that may fail or the database calls of
\* everything else, and how often the process starts.
ASSUME ServiceAssumption ==
    /\ MinValues \in Nat
    /\ \A l \in Loads :
           /\ l.alerts \subseteq Alerts /\ l.requests \subseteq Requests
           /\ l.events \subseteq Events /\ l.stored \in Nat
           /\ l.failing \in {"database", "scorer"}
           /\ l.starts \in Nat \ {0}

VARIABLES
    load,       \* the one of Loads
    phase,      \* the process: "seeding" the baselines, "training", "up" or "down"
    baselines,  \* whether _baselines has any
    analysis,   \* the analysis task of each event
    starts      \* history, for the bound

serviceVars == <<load, phase, baselines, analysis, starts>>
allVars == <<vars, mlVars, serviceVars>>

lifecycleKept == UNCHANGED vars
mlKept == UNCHANGED mlVars

ServiceInit ==
    /\ load \in Loads
    /\ stored = load.stored
    /\ Init /\ MLInit
    /\ phase = "seeding"
    /\ baselines = FALSE
    /\ analysis = [e \in Events |-> "absent"]
    /\ starts = 1

-----------------------------------------------------------------------------
(* init_async: the baselines, the scorer, then the grouping task. *)

\* Baselines are computed here and nowhere else, if the rows have enough numbers
\* and can be read: "Error seeding baselines" leaves none.
SeedBaselines ==
    /\ phase = "seeding"
    /\ phase' = "training"
    /\ baselines' \in {FALSE, stored >= MinValues}
    /\ StartTraining
    /\ lifecycleKept
    /\ UNCHANGED <<load, analysis, starts>>

\* The first training is awaited, whatever came of it.
StartGrouping ==
    /\ phase = "training"
    /\ TrainingAt(1, "over")
    /\ phase' = "up"
    /\ lifecycleKept /\ mlKept
    /\ UNCHANGED <<load, baselines, analysis, starts>>

-----------------------------------------------------------------------------
(* analyze(): one task per event, scheduled when the event is stored. *)

OnLoop == phase = "up" /\ LoopIsFree

Goes(e, stage) == analysis' = [analysis EXCEPT ![e] = stage]

Analyzing(e, stage) ==
    /\ OnLoop
    /\ analysis[e] = stage
    /\ lifecycleKept
    /\ UNCHANGED <<load, phase, baselines, starts>>

Schedule(e) ==
    /\ e \in load.events
    /\ Analyzing(e, "absent")
    /\ StoreEvent
    /\ Goes(e, "scheduled")

\* Where the analysis goes on once it knows its scores: without any there is
\* nothing to persist.
Scored(e, mlScore) ==
    \/ (mlScore \/ baselines) /\ Goes(e, "persisting")
    \/ ~mlScore /\ Goes(e, "raising")

Analyze(e) == Analyzing(e, "scheduled") /\ Available /\ Score(e) /\ Goes(e, "scoring")
AnalyzeUnscored(e) == Analyzing(e, "scheduled") /\ ScoreNothing(e) /\ Scored(e, FALSE)
ScoreReturned(e) == Analyzing(e, "scoring") /\ CountScore(e) /\ Scored(e, TRUE)
NoneReturns(e) == Analyzing(e, "scoring") /\ ReturnNone(e) /\ Scored(e, FALSE)

\* analysis_data is written, or that fails and is logged.
Persist(e) == Analyzing(e, "persisting") /\ mlKept /\ Goes(e, "raising")

\* update_risk (RiskStore has what it does).
RaiseRisk(e) == Analyzing(e, "raising") /\ mlKept /\ Goes(e, "ended")

AnalysisStep(e) ==
    Analyze(e) \/ AnalyzeUnscored(e) \/ ScoreReturned(e) \/ NoneReturns(e) \/ Persist(e) \/ RaiseRisk(e)

-----------------------------------------------------------------------------
(* What runs next to it. *)

Training(step) == step /\ phase \in {"training", "up"} /\ lifecycleKept /\ UNCHANGED serviceVars

Retrain == \E k \in DOMAIN training : Training(TrainingStep(k))
RetrainFails == load.failing = "scorer" /\ \E k \in DOMAIN training : Training(TrainingFails(k))

Predict == WorkerStep /\ lifecycleKept /\ UNCHANGED serviceVars

OtherTask(step) ==
    /\ OnLoop
    /\ step
    /\ mlKept /\ UNCHANGED serviceVars

Engine == \E a \in load.alerts : OtherTask(InsertAlert(a))
Admins == \E r \in load.requests : OtherTask(RequestStep(r))
AdminsFail == load.failing = "database" /\ \E r \in load.requests : OtherTask(RequestFails(r))
Grouping == OtherTask(PassStep)
GroupingFails == load.failing = "database" /\ OtherTask(PassFails)

-----------------------------------------------------------------------------
(* The end of the process and a new one. *)

\* Shutdown or crash: requests, analyses and predictions are gone, and so is the
\* pass; shutdown() cancels it, and a cancelled pass has written nothing either.
Ends ==
    /\ phase # "down"
    /\ phase' = "down"
    /\ EndProcess /\ EndEngine
    /\ analysis' = [e \in Events |-> IF analysis[e] \in {"absent", "ended"} THEN analysis[e]
                                     ELSE "lost"]
    /\ UNCHANGED <<load, baselines, starts>>

Restart ==
    /\ phase = "down"
    /\ starts < load.starts
    /\ starts' = starts + 1
    /\ phase' = "seeding"
    /\ baselines' = FALSE
    /\ lifecycleKept /\ mlKept
    /\ UNCHANGED <<load, analysis>>

ServiceNext ==
    \/ SeedBaselines \/ StartGrouping
    \/ \E e \in Events : Schedule(e) \/ AnalysisStep(e)
    \/ Retrain \/ RetrainFails \/ Predict
    \/ Engine \/ Admins \/ AdminsFail \/ Grouping \/ GroupingFails
    \/ Ends \/ Restart

ServiceSpec == ServiceInit /\ [][ServiceNext]_allVars

\* The loop runs every task whose await is over, a fit and a prediction return,
\* and the grouping task wakes up.  Neither requests and events nor failures,
\* shutdowns and restarts are fair.
Fairness ==
    /\ WF_allVars(SeedBaselines) /\ WF_allVars(StartGrouping)
    /\ WF_allVars(Retrain) /\ WF_allVars(Predict)
    /\ \A e \in Events : WF_allVars(AnalysisStep(e))
    /\ WF_allVars(Grouping)

FairService == ServiceSpec /\ Fairness

-----------------------------------------------------------------------------
(* Properties. *)

\* An active alert is grouped eventually, unless it is closed first or the process
\* ends: no failing pass ends the grouping task, and no retraining starves it.
ActiveAlertsGrouped ==
    \A a \in Alerts : IsActive(a) ~> (alert[a].named \/ ~IsActive(a) \/ phase = "down")

\* Every analysis ends, or is lost with the process: no exception of a
\* prediction, in whichever thread it is raised, leaves it waiting.
AnalysesEnd ==
    \A e \in Events : analysis[e] = "scheduled" ~> analysis[e] \in {"ended", "lost"}
=============================================================================
