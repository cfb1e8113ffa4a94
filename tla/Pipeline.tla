------------------------------ MODULE Pipeline ------------------------------
(***************************************************************************)
(* The life of an event in the server: received as a datagram, a REST      *)
(* request or an item of an agent's batch, stored, evaluated against the   *)
(* rules, its alerts stored and handed to the notifiers, and analysed by a *)
(* task of its own (backend/app/services/pipeline.py, collector.py,        *)
(* notifier.py, analysis_service.py, api/events.py, api/agents.py and the  *)
(* callbacks and the lifespan of main.py).                                 *)
(*                                                                         *)
(* Every request and datagram is a task; an action is what a task does     *)
(* around one await.  The database answers or fails at every call, and the *)
(* process can be stopped or killed between any two of them.  Windows and  *)
(* reloads of rules are the business of CorrelationEngine and RuleSync:    *)
(* here rules have no correlation_window and stay as they are.  Whether an *)
(* event matches the conditions of a rule is the business of Conditions.   *)
(***************************************************************************)
EXTENDS Conditions, FiniteSets

CONSTANTS
    Tasks,           \* datagrams and requests
    Workloads,       \* sequence of what the server may be given: see WorkloadAssumption
    Unparsable,      \* a datagram _detectar_y_parsear makes nothing of
    MinLevel,        \* the notifiers in the order they were registered: the
                     \* lowest severity each is sent (5 critical ... 1 info)
    MaxFailures,     \* bound: failing database calls and notifiers
    MaxRestarts      \* bound: starts of the process after the first

\* A workload: the active rules in the order they are loaded, what each task
\* carries and how it came in, and whether the analysis service started.
ASSUME WorkloadAssumption ==
    /\ IsFiniteSet(Tasks)
    /\ MinLevel \in Seq(1..5)
    /\ MaxFailures \in Nat /\ MaxRestarts \in Nat
    /\ \A n \in DOMAIN Workloads : LET w == Workloads[n] IN
           /\ Len(w.rules) \in Nat /\ DOMAIN w.rules = 1..Len(w.rules)
           /\ \A k \in DOMAIN w.rules : /\ w.rules[k].level \in 1..5
                                        /\ w.rules[k].conditions \in JsonConditions
           /\ \A t \in Tasks : /\ w.via[t] \in {"udp", "rest", "batch"}
                               /\ Len(w.events[t]) \in Nat \ {0}
                               /\ DOMAIN w.events[t] = 1..Len(w.events[t])
                               /\ w.via[t] # "batch" => Len(w.events[t]) = 1
                               /\ \A i \in DOMAIN w.events[t] : LET event == w.events[t][i] IN
                                      \/ event = Unparsable /\ w.via[t] = "udp"
                                      \/ /\ event # Unparsable
                                         /\ \A field \in DOMAIN event : IsValue(event[field])
           /\ w.analysing \in BOOLEAN

VARIABLES
    load,      \* the workload of this behaviour
    phase,     \* the process: "up", "draining" after SIGTERM, or "down"
    task,      \* what each task is doing
    rows,      \* table events
    alerts,    \* table alerts
    missed,    \* history: <<row, rule>> of the alerts the database refused
    failures, restarts   \* histories, for the bounds

vars == <<load, phase, task, rows, alerts, missed, failures, restarts>>

\* at: the event of the request in hand; row: its row; rule: the first rule not
\* yet evaluated; alert: the alert being announced; channel: the first notifier
\* not yet tried; processed, failed: the counters of a batch.
Fresh == [pc |-> "absent", at |-> 1, row |-> 0, rule |-> 1, alert |-> 0, channel |-> 1,
          processed |-> 0, failed |-> 0]

Running == {"saving", "refreshing", "evaluating", "inserting", "rereading", "notifying",
            "fallback", "fallback_refreshing"}

Finished == {"answered", "ended", "failed", "lost"}

RuleNumbers == DOMAIN load.rules
Channels == DOMAIN MinLevel
Via(t) == load.via[t]
Events(t) == load.events[t]
Content(t) == Events(t)[task[t].at]
Is(t, pc) == phase # "down" /\ task[t].pc = pc

Init ==
    /\ \E n \in DOMAIN Workloads : load = Workloads[n]
    /\ phase = "up"
    /\ task = [t \in Tasks |-> Fresh]
    /\ rows = <<>> /\ alerts = <<>> /\ missed = {}
    /\ failures = 0 /\ restarts = 0

\* A database call or a notifier fails.
Fails == failures < MaxFailures /\ failures' = failures + 1
Works == UNCHANGED failures

-----------------------------------------------------------------------------
(* Receiving. *)

\* Requests are accepted until the process is told to stop, datagrams until
\* collector.stop() closes the socket.
Arrives(t) ==
    /\ task[t].pc = "absent"
    /\ \/ phase = "up"
       \/ phase = "draining" /\ Via(t) = "udp"

Accept(t) ==
    /\ Arrives(t)
    /\ Content(t) # Unparsable
    /\ task' = [task EXCEPT ![t].pc = "saving"]
    /\ UNCHANGED <<load, phase, rows, alerts, missed, failures, restarts>>

\* "Could not parse the log"
DropUnparsed(t) ==
    /\ Arrives(t)
    /\ Content(t) = Unparsable
    /\ task' = [task EXCEPT ![t].pc = "ended"]
    /\ UNCHANGED <<load, phase, rows, alerts, missed, failures, restarts>>

\* process() and process_from_dict() return: the event, or None.  The batch
\* counts it and goes on to its next event.
Return(t, isEvent) ==
    CASE Via(t) = "udp"   -> [task[t] EXCEPT !.pc = "ended"]
      [] Via(t) = "rest"  -> [task[t] EXCEPT !.pc = IF isEvent THEN "answered" ELSE "fallback"]
      [] Via(t) = "batch" ->
             LET last == task[t].at = Len(Events(t))
             IN  [Fresh EXCEPT !.pc = IF last THEN "answered" ELSE "saving",
                               !.at = IF last THEN task[t].at ELSE task[t].at + 1,
                               !.processed = task[t].processed + (IF isEvent THEN 1 ELSE 0),
                               !.failed = task[t].failed + (IF isEvent THEN 0 ELSE 1)]

-----------------------------------------------------------------------------
(* Storing: _guardar_evento, and crear_evento when it gave None. *)

\* A row: the event it stores, whether its caller got it back, how far its
\* evaluation came and where its analysis is.
NewRow(t) == [task |-> t, at |-> task[t].at, seen |-> FALSE, evaluation |-> "none",
              analysis |-> "none"]

Save(t) ==
    /\ Is(t, "saving")
    /\ rows' = Append(rows, NewRow(t))
    /\ task' = [task EXCEPT ![t].pc = "refreshing", ![t].row = Len(rows) + 1]
    /\ Works
    /\ UNCHANGED <<load, phase, alerts, missed, restarts>>

SaveFails(t) ==
    /\ Is(t, "saving")
    /\ task' = [task EXCEPT ![t] = Return(t, FALSE)]
    /\ Fails
    /\ UNCHANGED <<load, phase, rows, alerts, missed, restarts>>

\* The event is read back: its analysis is scheduled, its evaluation begins.
Refresh(t) ==
    /\ Is(t, "refreshing")
    /\ rows' = [rows EXCEPT ![task[t].row].seen = TRUE,
                            ![task[t].row].evaluation = "begun",
                            ![task[t].row].analysis = IF load.analysing THEN "scheduled" ELSE @]
    /\ task' = [task EXCEPT ![t].pc = "evaluating"]
    /\ Works
    /\ UNCHANGED <<load, phase, alerts, missed, restarts>>

\* refresh() that counts as an event what it could not read back.
RefreshFails_KeepsEvent(t) ==
    /\ Is(t, "refreshing")
    /\ task' = [task EXCEPT ![t] = Return(t, TRUE)]
    /\ Fails
    /\ UNCHANGED <<load, phase, rows, alerts, missed, restarts>>

\* The event is committed but reading it back fails: _guardar_evento gives None.
RefreshFails(t) ==
    /\ Is(t, "refreshing")
    /\ task' = [task EXCEPT ![t] = Return(t, FALSE)]
    /\ Fails
    /\ UNCHANGED <<load, phase, rows, alerts, missed, restarts>>

\* The fallback of POST /api/events: EventService.crear_evento commits, then
\* reads back; the request fails with 500 when either fails.
SaveFallback(t) ==
    /\ Is(t, "fallback")
    /\ rows' = Append(rows, NewRow(t))
    /\ task' = [task EXCEPT ![t].pc = "fallback_refreshing", ![t].row = Len(rows) + 1]
    /\ Works
    /\ UNCHANGED <<load, phase, alerts, missed, restarts>>

AnswerFallback(t) ==
    /\ Is(t, "fallback_refreshing")
    /\ rows' = [rows EXCEPT ![task[t].row].seen = TRUE]
    /\ task' = [task EXCEPT ![t].pc = "answered"]
    /\ Works
    /\ UNCHANGED <<load, phase, alerts, missed, restarts>>

FallbackFails(t) ==
    /\ Is(t, "fallback") \/ Is(t, "fallback_refreshing")
    /\ task' = [task EXCEPT ![t].pc = "failed"]
    /\ Fails
    /\ UNCHANGED <<load, phase, rows, alerts, missed, restarts>>

-----------------------------------------------------------------------------
(* Evaluating: evaluate(), with the callback that stores and announces an   *)
(* alert.                                                                   *)

VerdictOf(t, k) == EvaluateRule(load.rules[k].conditions, Content(t))

\* The rules from the one in hand on that do not simply say "no".
Deciding(t) == { k \in RuleNumbers : k >= task[t].rule /\ VerdictOf(t, k) # "no" }

\* The next of them is k.
Decides(t, k) ==
    /\ Is(t, "evaluating")
    /\ LET deciding == Deciding(t) IN k \in deciding /\ \A q \in deciding : k <= q

Match(t, k) ==
    /\ Decides(t, k)
    /\ VerdictOf(t, k) = "match"
    /\ task' = [task EXCEPT ![t].pc = "inserting", ![t].rule = k]
    /\ UNCHANGED <<load, phase, rows, alerts, missed, failures, restarts>>

\* evaluate() raises where nobody catches it: a REST request falls back to
\* storing the event itself, a batch counts the event as failed.
EvaluationRaises_Uncaught(t, k) ==
    /\ Decides(t, k)
    /\ VerdictOf(t, k) = "raises"
    /\ rows' = [rows EXCEPT ![task[t].row].evaluation = "raised"]
    /\ task' = [task EXCEPT ![t] = IF Via(t) = "udp" THEN [task[t] EXCEPT !.pc = "failed"]
                                   ELSE Return(t, FALSE)]
    /\ UNCHANGED <<load, phase, alerts, missed, failures, restarts>>

\* The conditions of rule k make evaluate() raise: the rules behind it are not
\* looked at.  process() dies of it, process_from_dict() logs it.
EvaluationRaises(t, k) ==
    /\ Decides(t, k)
    /\ VerdictOf(t, k) = "raises"
    /\ rows' = [rows EXCEPT ![task[t].row].evaluation = "raised"]
    /\ task' = [task EXCEPT ![t] = IF Via(t) = "udp" THEN [task[t] EXCEPT !.pc = "failed"]
                                   ELSE Return(t, TRUE)]
    /\ UNCHANGED <<load, phase, alerts, missed, failures, restarts>>

EvaluationEnds(t) ==
    /\ Is(t, "evaluating")
    /\ Deciding(t) = {}
    /\ rows' = [rows EXCEPT ![task[t].row].evaluation = "complete"]
    /\ task' = [task EXCEPT ![t] = Return(t, TRUE)]
    /\ UNCHANGED <<load, phase, alerts, missed, failures, restarts>>

\* The callback returned: on to the next rule.
NextRule(t) ==
    [task[t] EXCEPT !.pc = "evaluating", !.rule = @ + 1, !.alert = 0, !.channel = 1]

\* crear_alerta_desde_engine: insert the alert and read it back.
InsertAlert(t) ==
    /\ Is(t, "inserting")
    /\ alerts' = Append(alerts, [row |-> task[t].row, rule |-> task[t].rule,
                                 announced |-> FALSE, told |-> {}, refused |-> {}])
    /\ task' = [task EXCEPT ![t].pc = "rereading", ![t].alert = Len(alerts) + 1]
    /\ Works
    /\ UNCHANGED <<load, phase, rows, missed, restarts>>

\* "Error in alert callback" when the insert is refused: no alert.
InsertFails(t) ==
    /\ Is(t, "inserting")
    /\ missed' = missed \cup {<<task[t].row, task[t].rule>>}
    /\ task' = [task EXCEPT ![t] = NextRule(t)]
    /\ Fails
    /\ UNCHANGED <<load, phase, rows, alerts, restarts>>

RereadAlert(t) ==
    /\ Is(t, "rereading")
    /\ alerts' = [alerts EXCEPT ![task[t].alert].announced = TRUE]
    /\ task' = [task EXCEPT ![t].pc = "notifying"]
    /\ Works
    /\ UNCHANGED <<load, phase, rows, missed, restarts>>

\* The alert is committed but reading it back fails: nobody is told of it.
RereadFails(t) ==
    /\ Is(t, "rereading")
    /\ task' = [task EXCEPT ![t] = NextRule(t)]
    /\ Fails
    /\ UNCHANGED <<load, phase, rows, alerts, missed, restarts>>

-----------------------------------------------------------------------------
(* Announcing: MultiNotifier.send_all. *)

\* The notifiers an alert of rule k is for.
Targets(k) == { c \in Channels : load.rules[k].level >= MinLevel[c] }

\* Those the alert in hand has not been handed to yet.
Remaining(t) == { c \in Targets(task[t].rule) : c >= task[t].channel }

NextChannel(t, c) == Is(t, "notifying") /\ c \in Remaining(t) /\ \A d \in Remaining(t) : c <= d

Send(t, c) ==
    /\ NextChannel(t, c)
    /\ alerts' = [alerts EXCEPT ![task[t].alert].told = @ \cup {c}]
    /\ task' = [task EXCEPT ![t].channel = c + 1]
    /\ Works
    /\ UNCHANGED <<load, phase, rows, missed, restarts>>

\* A notifier whose failure ends the round.
SendFails_EndsRound(t, c) ==
    /\ NextChannel(t, c)
    /\ alerts' = [alerts EXCEPT ![task[t].alert].refused = @ \cup {c}]
    /\ task' = [task EXCEPT ![t].channel = Len(MinLevel) + 1]
    /\ Fails
    /\ UNCHANGED <<load, phase, rows, missed, restarts>>

\* "Error in notifier": on to the next one.
SendFails(t, c) ==
    /\ NextChannel(t, c)
    /\ alerts' = [alerts EXCEPT ![task[t].alert].refused = @ \cup {c}]
    /\ task' = [task EXCEPT ![t].channel = c + 1]
    /\ Fails
    /\ UNCHANGED <<load, phase, rows, missed, restarts>>

\* A round that never returns when the last notifier was skipped.
Announced_LastSkipped(t) ==
    /\ Is(t, "notifying")
    /\ Remaining(t) = {}
    /\ Len(MinLevel) \in Targets(task[t].rule)
    /\ task' = [task EXCEPT ![t] = NextRule(t)]
    /\ UNCHANGED <<load, phase, rows, alerts, missed, failures, restarts>>

Announced(t) ==
    /\ Is(t, "notifying")
    /\ Remaining(t) = {}
    /\ task' = [task EXCEPT ![t] = NextRule(t)]
    /\ UNCHANGED <<load, phase, rows, alerts, missed, failures, restarts>>

-----------------------------------------------------------------------------
(* Analysing: analyze(), a task of its own for every row its pipeline got   *)
(* back.                                                                    *)

Analysing(r, stage) == phase # "down" /\ rows[r].analysis = stage

\* The scores are computed: what is anomalous is written first, then the risk of
\* the entity is raised (RiskStore has what update_risk does).
Score(r) ==
    /\ Analysing(r, "scheduled")
    /\ \E stage \in {"persisting", "raising"} : rows' = [rows EXCEPT ![r].analysis = stage]
    /\ UNCHANGED <<load, phase, task, alerts, missed, failures, restarts>>

\* Written, or refused and logged: either way the risk comes next.
Persist(r) ==
    /\ Analysing(r, "persisting")
    /\ rows' = [rows EXCEPT ![r].analysis = "raising"]
    /\ UNCHANGED <<load, phase, task, alerts, missed, failures, restarts>>

RaiseRisk(r) ==
    /\ Analysing(r, "raising")
    /\ rows' = [rows EXCEPT ![r].analysis = "ended"]
    /\ UNCHANGED <<load, phase, task, alerts, missed, failures, restarts>>

-----------------------------------------------------------------------------
(* The process. *)

Requests == { t \in Tasks : task[t].pc \in Running /\ Via(t) # "udp" }

\* Everything the process was doing is gone.
Dies ==
    /\ phase' = "down"
    /\ task' = [t \in Tasks |-> IF task[t].pc \in Running THEN [task[t] EXCEPT !.pc = "lost"]
                                ELSE task[t]]
    /\ rows' = [r \in DOMAIN rows |->
                    IF rows[r].analysis \in {"scheduled", "persisting", "raising"}
                    THEN [rows[r] EXCEPT !.analysis = "lost"] ELSE rows[r]]
    /\ UNCHANGED <<load, alerts, missed, failures, restarts>>

\* SIGTERM: uvicorn accepts nothing more and waits for the requests it has.
Terminate ==
    /\ phase = "up"
    /\ phase' = "draining"
    /\ UNCHANGED <<load, task, rows, alerts, missed, failures, restarts>>

\* The shutdown part of lifespan, then the end of the event loop: collector.stop()
\* closes the socket and waits for nobody, shutdown() cancels the grouping task,
\* and the loop cancels the datagrams and analyses still under way.
Stop ==
    /\ phase = "draining"
    /\ Requests = {}
    /\ Dies

Crash ==
    /\ phase # "down"
    /\ Dies

\* A new process takes up nothing of the old one.
Restart ==
    /\ phase = "down"
    /\ restarts < MaxRestarts
    /\ restarts' = restarts + 1
    /\ phase' = "up"
    /\ UNCHANGED <<load, task, rows, alerts, missed, failures>>

-----------------------------------------------------------------------------
\* What a task does when nothing fails.
TaskStep(t) ==
    \/ Save(t) \/ Refresh(t) \/ SaveFallback(t) \/ AnswerFallback(t)
    \/ \E k \in RuleNumbers : Match(t, k) \/ EvaluationRaises(t, k)
    \/ EvaluationEnds(t)
    \/ InsertAlert(t) \/ RereadAlert(t)
    \/ \E c \in Channels : Send(t, c)
    \/ Announced(t)

TaskFails(t) ==
    \/ SaveFails(t) \/ RefreshFails(t) \/ FallbackFails(t)
    \/ InsertFails(t) \/ RereadFails(t)
    \/ \E c \in Channels : SendFails(t, c)

AnalysisStep(r) == Score(r) \/ Persist(r) \/ RaiseRisk(r)

Next ==
    \/ \E t \in Tasks : Accept(t) \/ DropUnparsed(t) \/ TaskStep(t) \/ TaskFails(t)
    \/ \E r \in DOMAIN rows : AnalysisStep(r)
    \/ Terminate \/ Stop \/ Crash \/ Restart

Spec == Init /\ [][Next]_vars

\* The event loop runs every task whose await is over, and every database call
\* and notifier returns in the end (both network notifiers have timeouts).
FairSpec == Spec /\ \A t \in Tasks : WF_vars(TaskStep(t))

-----------------------------------------------------------------------------
(* Properties. *)

\* The rows that store the i-th event of task t.
RowsOf(t, i) == { r \in DOMAIN rows : rows[r].task = t /\ rows[r].at = i }

StoredOnce ==
    \A t \in Tasks : \A i \in DOMAIN Events(t) :
        \/ Cardinality(RowsOf(t, i)) <= 1
        \/ /\ Via(t) = "rest" /\ Cardinality(RowsOf(t, i)) = 2
           /\ rows[Min(RowsOf(t, i))].evaluation = "none"

AlertedOnce ==
    \A a, b \in DOMAIN alerts :
        (alerts[a].row = alerts[b].row /\ alerts[a].rule = alerts[b].rule) => a = b

EvaluatedOnce ==
    \A p, q \in DOMAIN rows :
        (rows[p].task = rows[q].task /\ rows[p].at = rows[q].at /\ p # q)
        => \E r \in {p, q} : rows[r].evaluation = "none" /\ rows[r].analysis = "none"

\* An event is stored once; only POST /api/events may store it twice, and then
\* its pipeline committed the first row without getting it back.  A row raises
\* at most one alert per rule, and an event stored twice is evaluated and
\* analysed at most once.  Whatever goes wrong behind the commit (a broken rule,
\* an alert, a notifier) repeats nothing: process_from_dict swallows it.
EffectsOnce == StoredOnce /\ AlertedOnce /\ EvaluatedOnce

\* The answer to a batch adds up: every event counted as processed is stored,
\* read back and was evaluated to the end or to a broken rule; an event counted
\* as failed was never evaluated, though it may be stored.
BatchAccounted ==
    \A t \in Tasks : Via(t) = "batch" =>
        LET done == { i \in DOMAIN Events(t) :
                          i < task[t].at \/ (i = task[t].at /\ task[t].pc = "answered") }
            evaluated == { i \in done : \E r \in RowsOf(t, i) :
                               rows[r].seen /\ rows[r].evaluation \in {"complete", "raised"} }
        IN  /\ task[t].processed = Cardinality(evaluated)
            /\ task[t].failed = Cardinality(done \ evaluated)
            /\ \A i \in done \ evaluated : \A r \in RowsOf(t, i) : rows[r].evaluation = "none"

\* Once the round for an alert is over, every notifier its severity reaches was
\* tried once, whatever the others did; no other notifier ever hears of it.
EveryTargetTried ==
    \A a \in DOMAIN alerts :
        LET tried == alerts[a].told \cup alerts[a].refused
            over == \A t \in Tasks : task[t].alert # a
        IN  /\ tried \subseteq Targets(alerts[a].rule)
            /\ alerts[a].told \cap alerts[a].refused = {}
            /\ (over /\ alerts[a].announced) => tried = Targets(alerts[a].rule)

EventOf(r) == load.events[rows[r].task][rows[r].at]
ConditionsOf(k) == load.rules[k].conditions

\* The rules that raised an alert for row r, and those whose alert was refused.
AlertedFor(r) == { alerts[a].rule : a \in { b \in DOMAIN alerts : alerts[b].row = r } }
MissedFor(r) == { k \in RuleNumbers : <<r, k>> \in missed }

\* The rules evaluate() gets to: none behind the first that raises.
Reached(r) ==
    { k \in RuleNumbers : \A q \in 1..k : EvaluateRule(ConditionsOf(q), EventOf(r)) # "raises" }

\* The alerts follow the rules: a rule made of conditions and AND and OR groups
\* raises an alert for an event if and only if it holds of the event as the
\* documentation defines it, unless the database refused the alert or a rule
\* before it broke the evaluation; and events that were not read back raise none.
AlertsFollowRules ==
    \A r \in DOMAIN rows :
        IF rows[r].evaluation = "none" THEN AlertedFor(r) = {}
        ELSE LET alerted == AlertedFor(r)
                 reached == Reached(r)
                 plain == { k \in RuleNumbers : Plain(ConditionsOf(k)) }
                 holds == { k \in plain : Means(ConditionsOf(k), EventOf(r)) }
             IN  /\ alerted \subseteq reached
                 /\ alerted \cap plain \subseteq holds
                 /\ rows[r].evaluation \in {"complete", "raised"} =>
                        holds \cap reached \subseteq alerted \cup MissedFor(r)

\* The fields and values of the single conditions, in a group or not, that raise
\* nothing.
Comparisons == { <<c.field, c.value>> :
                     c \in { d \in JsonConditions : Simple(d) /\ d.value.kind # "list" } }

\* The operators of conditions fit together on every event that is stored and the
\* field and value of every single condition (FitOn says how).
OperatorsFit ==
    \A r \in DOMAIN rows, comparison \in Comparisons :
        FitOn(FieldValue(EventOf(r), comparison[1]), comparison[2])

\* fase-03-motor-de-correlacion.md:101-104: a NOT group holds when its condition
\* does not, however NOT is spelled.
NotGroupsNegate ==
    \A r \in DOMAIN rows : rows[r].evaluation = "complete" =>
        \A k \in RuleNumbers :
            WellFormed(ConditionsOf(k)) =>
                (Means(ConditionsOf(k), EventOf(r)) <=> k \in AlertedFor(r) \cup MissedFor(r))

\* Every task that was accepted finishes: it is answered, ends, fails or is lost
\* with the process.  No failure leaves it hanging.
TasksFinish == \A t \in Tasks : (task[t].pc \in Running) ~> (task[t].pc \in Finished)
=============================================================================
