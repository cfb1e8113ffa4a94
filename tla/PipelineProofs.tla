--------------------------- MODULE PipelineProofs ---------------------------
(***************************************************************************)
(* Proofs about Pipeline for any tasks, workloads, notifiers and           *)
(* conditions, and for any number of failures and restarts.                *)
(***************************************************************************)
EXTENDS Pipeline, FiniteSetTheorems, SequenceTheorems, WellFoundedInduction, TLAPS

Pos == Nat \ {0}

TaskStates == [pc : {"absent"} \cup Running \cup Finished, at : Pos, row : Nat, rule : Pos,
               alert : Nat, channel : Pos, processed : Nat, failed : Nat]

RowStates == [task : Tasks, at : Pos, seen : BOOLEAN,
              evaluation : {"none", "begun", "complete", "raised"},
              analysis : {"none", "scheduled", "persisting", "raising", "ended", "lost"}]

AlertStates == [row : Nat, rule : Pos, announced : BOOLEAN, told : SUBSET Channels, refused : SUBSET Channels]

\* A task that works on an event has its row in hand; one that stores an alert or
\* announces it has the alert too.
HoldsRow == {"refreshing", "evaluating", "inserting", "rereading", "notifying"}
HoldsAlert == {"rereading", "notifying"}

InHand(t) ==
    /\ task[t].pc \in HoldsRow \cup {"fallback_refreshing"} => task[t].row \in DOMAIN rows
    /\ task[t].pc \in HoldsAlert => task[t].alert \in DOMAIN alerts

TypeOK ==
    /\ load \in { Workloads[n] : n \in DOMAIN Workloads }
    /\ phase \in {"up", "draining", "down"}
    /\ task \in [Tasks -> TaskStates]
    /\ rows \in Seq(RowStates)
    /\ alerts \in Seq(AlertStates)
    /\ missed \subseteq Nat \X Nat
    /\ failures \in Nat /\ restarts \in Nat
    /\ \A t \in Tasks : InHand(t)

LEMMA LoadFacts ==
    ASSUME TypeOK
    PROVE  /\ RuleNumbers \subseteq Pos /\ Channels \subseteq Pos
           /\ \A t \in Tasks :
                  /\ Via(t) \in {"udp", "rest", "batch"}
                  /\ Len(Events(t)) \in Pos /\ DOMAIN Events(t) = 1..Len(Events(t))
                  /\ Via(t) # "batch" => Len(Events(t)) = 1
<1>1. PICK n \in DOMAIN Workloads : load = Workloads[n]
  BY DEF TypeOK
<1>2. Channels \subseteq Pos
  BY WorkloadAssumption DEF Channels, Pos
<1> QED BY <1>1, <1>2, WorkloadAssumption DEF RuleNumbers, Via, Events, Pos

\* Running and Finished are what they say.
LEMMA Stages ==
    /\ HoldsRow \subseteq Running /\ HoldsAlert \subseteq HoldsRow
    /\ Running \cap Finished = {} /\ "absent" \notin Running \cup Finished
BY DEF HoldsRow, HoldsAlert, Running, Finished

LEMMA TaskFields ==
    ASSUME TypeOK, NEW t \in Tasks
    PROVE  /\ task[t] \in TaskStates
           /\ task[t].pc \in {"absent"} \cup Running \cup Finished
           /\ task[t].at \in Pos /\ task[t].row \in Nat /\ task[t].rule \in Pos
           /\ task[t].alert \in Nat /\ task[t].channel \in Pos
           /\ task[t].processed \in Nat /\ task[t].failed \in Nat
BY DEF TypeOK, TaskStates

\* What process() and process_from_dict() leave in the hands of their caller.
LEMMA ReturnFields ==
    ASSUME TypeOK, NEW t \in Tasks, NEW isEvent \in BOOLEAN, task[t].pc \in HoldsRow \cup {"saving"},
           task[t].pc \notin HoldsAlert
    PROVE  /\ Return(t, isEvent) \in TaskStates
           /\ Return(t, isEvent).pc \in {"ended", "answered", "fallback", "saving"}
           /\ Return(t, isEvent).pc = "fallback" => Via(t) = "rest" /\ ~isEvent
           /\ Return(t, isEvent).at =
                  IF Return(t, isEvent).pc = "saving" THEN task[t].at + 1 ELSE task[t].at
           /\ Return(t, isEvent).alert \in {task[t].alert, 0}
           /\ Return(t, isEvent).channel \in {task[t].channel, 1}
           /\ Via(t) = "batch" =>
                  /\ Return(t, isEvent).pc = IF task[t].at = Len(Events(t)) THEN "answered" ELSE "saving"
                  /\ Return(t, isEvent).processed = task[t].processed + (IF isEvent THEN 1 ELSE 0)
                  /\ Return(t, isEvent).failed = task[t].failed + (IF isEvent THEN 0 ELSE 1)
<1>1. Fresh \in TaskStates /\ Fresh.alert = 0 /\ Fresh.channel = 1
  BY DEF Fresh, TaskStates, Running, Pos
<1>2. task[t] \in TaskStates /\ Via(t) \in {"udp", "rest", "batch"}
  BY TaskFields, LoadFacts
<1>3. CASE Via(t) = "udp"
  BY <1>2, <1>3 DEF Return, TaskStates, Finished
<1>4. CASE Via(t) = "rest"
  BY <1>2, <1>4 DEF Return, TaskStates, Finished, Running
<1>5. CASE Via(t) = "batch"
  <2> DEFINE pc == IF task[t].at = Len(Events(t)) THEN "answered" ELSE "saving"
             at == IF task[t].at = Len(Events(t)) THEN task[t].at ELSE task[t].at + 1
             processed == task[t].processed + (IF isEvent THEN 1 ELSE 0)
             failed == task[t].failed + (IF isEvent THEN 0 ELSE 1)
  <2>1. Return(t, isEvent) = [Fresh EXCEPT !.pc = pc, !.at = at, !.processed = processed, !.failed = failed]
    BY <1>5 DEF Return
  <2>2. /\ pc \in Running \cup Finished /\ at \in Pos /\ processed \in Nat /\ failed \in Nat
        /\ pc \in {"answered", "saving"} /\ at = IF pc = "saving" THEN task[t].at + 1 ELSE task[t].at
    BY <1>2 DEF TaskStates, Running, Finished, Pos
  <2> HIDE DEF pc, at, processed, failed
  <2> DEFINE y == Return(t, isEvent)
  <2>3. y \in TaskStates
    BY <1>1, <2>1, <2>2 DEF TaskStates
  <2>4. /\ y.pc = pc /\ y.at = at /\ y.alert = 0 /\ y.channel = 1
        /\ y.processed = processed /\ y.failed = failed
    BY <1>1, <2>1, <2>2 DEF TaskStates
  <2>5. Via(t) # "rest"
    BY <1>5
  <2>6. /\ pc = IF task[t].at = Len(Events(t)) THEN "answered" ELSE "saving"
        /\ processed = task[t].processed + (IF isEvent THEN 1 ELSE 0)
        /\ failed = task[t].failed + (IF isEvent THEN 0 ELSE 1)
    BY DEF pc, processed, failed
  <2> QED BY <2>2, <2>3, <2>4, <2>5, <2>6
<1> QED BY <1>2, <1>3, <1>4, <1>5

-----------------------------------------------------------------------------
(* What the actions do to the three tables. *)

\* Task t goes on, the others stay.
Moves(t) == task' \in [Tasks -> TaskStates] /\ \A s \in Tasks \ {t} : task'[s] = task[s]

\* A row is added for the event task t has in hand.
AddsRow(t) ==
    /\ rows' \in Seq(RowStates) /\ DOMAIN rows' = DOMAIN rows \cup {Len(rows) + 1}
    /\ Len(rows) + 1 \notin DOMAIN rows /\ Len(rows) + 1 \in Nat
    /\ \A r \in DOMAIN rows : rows'[r] = rows[r] /\ r < Len(rows) + 1
    /\ rows'[Len(rows) + 1] = NewRow(t)

\* Row r is written: it stays the row of its event.
EditsRow(r) ==
    /\ rows' \in Seq(RowStates) /\ DOMAIN rows' = DOMAIN rows
    /\ \A q \in DOMAIN rows \ {r} : rows'[q] = rows[q]
    /\ rows'[r].task = rows[r].task /\ rows'[r].at = rows[r].at

LEMMA AppendRow ==
    ASSUME TypeOK, NEW t \in Tasks, rows' = Append(rows, NewRow(t))
    PROVE  AddsRow(t)
<1>1. NewRow(t) \in RowStates /\ rows \in Seq(RowStates)
  BY TaskFields DEF NewRow, RowStates, TypeOK
<1> QED BY <1>1 DEF AddsRow

LEMMA WriteRow ==
    ASSUME TypeOK, NEW r \in DOMAIN rows, NEW x \in RowStates, x.task = rows[r].task, x.at = rows[r].at,
           rows' = [rows EXCEPT ![r] = x]
    PROVE  EditsRow(r) /\ rows'[r] = x
<1>1. rows \in Seq(RowStates)
  BY DEF TypeOK
<1> QED BY <1>1, ExceptSeq DEF EditsRow

LEMMA SaveMoves ==
    ASSUME TypeOK, NEW t \in Tasks, Save(t) \/ SaveFallback(t)
    PROVE  /\ Moves(t) /\ AddsRow(t)
           /\ Save(t) => task[t].pc = "saving" /\ task'[t].pc = "refreshing"
           /\ SaveFallback(t) => task[t].pc = "fallback" /\ task'[t].pc = "fallback_refreshing"
           /\ task'[t].row = Len(rows) + 1 /\ task'[t].at = task[t].at /\ task'[t].alert = task[t].alert
           /\ task'[t].channel = task[t].channel /\ task'[t].rule = task[t].rule
           /\ task'[t].processed = task[t].processed /\ task'[t].failed = task[t].failed
           /\ UNCHANGED <<load, alerts, missed>>
<1>1. AddsRow(t)
  BY AppendRow DEF Save, SaveFallback
<1>2. PICK pc \in {"refreshing", "fallback_refreshing"} :
          task' = [task EXCEPT ![t].pc = pc, ![t].row = Len(rows) + 1]
  BY DEF Save, SaveFallback
<1>3. Len(rows) + 1 \in Nat /\ pc \in Running
  BY <1>1 DEF AddsRow, Running
<1>4. task[t] \in TaskStates /\ task \in [Tasks -> TaskStates]
  BY DEF TypeOK
<1> QED BY <1>1, <1>2, <1>3, <1>4 DEF Moves, TaskStates, Save, SaveFallback, Is

\* The event, its row and the counters of the batch stay.
SameEvent(t) ==
    /\ task'[t].at = task[t].at /\ task'[t].row = task[t].row
    /\ task'[t].processed = task[t].processed /\ task'[t].failed = task[t].failed

SameAlert(t) == task'[t].alert = task[t].alert /\ task'[t].channel = task[t].channel

LEMMA PcMoves ==
    ASSUME TypeOK, NEW t \in Tasks, NEW pc \in Running \cup Finished, task' = [task EXCEPT ![t].pc = pc]
    PROVE  Moves(t) /\ task'[t].pc = pc /\ SameEvent(t) /\ SameAlert(t) /\ task'[t].rule = task[t].rule
<1>1. task[t] \in TaskStates /\ task \in [Tasks -> TaskStates]
  BY DEF TypeOK
<1> QED BY <1>1 DEF Moves, SameEvent, SameAlert, TaskStates

LEMMA ReturnMoves ==
    ASSUME TypeOK, NEW t \in Tasks, NEW isEvent \in BOOLEAN,
           task[t].pc \in {"saving", "refreshing", "evaluating"},
           task' = [task EXCEPT ![t] = Return(t, isEvent)]
    PROVE  Moves(t) /\ task'[t] = Return(t, isEvent)
<1>1. Return(t, isEvent) \in TaskStates
  BY ReturnFields DEF HoldsRow, HoldsAlert
<1>2. task \in [Tasks -> TaskStates]
  BY DEF TypeOK
<1> QED BY <1>1, <1>2 DEF Moves

LEMMA NextRuleMoves ==
    ASSUME TypeOK, NEW t \in Tasks, task' = [task EXCEPT ![t] = NextRule(t)]
    PROVE  /\ Moves(t) /\ SameEvent(t) /\ task'[t].pc = "evaluating" /\ task'[t].rule = task[t].rule + 1
           /\ task'[t].alert = 0 /\ task'[t].channel = 1
<1>1. task[t] \in TaskStates /\ task \in [Tasks -> TaskStates] /\ "evaluating" \in Running
  BY DEF TypeOK, Running
<1>2. NextRule(t) \in TaskStates
  <2>1. task[t].rule + 1 \in Pos /\ 1 \in Pos
    BY <1>1 DEF TaskStates, Pos
  <2> QED BY <1>1, <2>1 DEF NextRule, TaskStates
<1>3. task'[t] = NextRule(t) /\ Moves(t)
  BY <1>1, <1>2 DEF Moves
<1> QED BY <1>1, <1>3 DEF NextRule, SameEvent, TaskStates

LEMMA MatchMoves ==
    ASSUME TypeOK, NEW t \in Tasks, NEW k \in RuleNumbers, Match(t, k)
    PROVE  /\ Moves(t) /\ SameEvent(t) /\ SameAlert(t) /\ UNCHANGED <<load, rows, alerts, missed>>
           /\ task[t].pc = "evaluating" /\ task'[t].pc = "inserting"
           /\ task[t].rule <= k /\ task'[t].rule = k
<1>1. /\ task[t] \in TaskStates /\ task \in [Tasks -> TaskStates] /\ "inserting" \in Running
      /\ k \in Pos
  BY LoadFacts DEF TypeOK, Running
<1>2. task' = [task EXCEPT ![t].pc = "inserting", ![t].rule = k] /\ task[t].pc = "evaluating"
      /\ k >= task[t].rule
  BY DEF Match, Decides, Deciding, Is
<1>3. task[t].rule \in Nat /\ task[t].rule <= k
  BY <1>1, <1>2 DEF TaskStates, Pos
<1>4. [task[t] EXCEPT !.pc = "inserting", !.rule = k] \in TaskStates
  BY <1>1 DEF TaskStates
<1>5. Moves(t) /\ task'[t] = [task[t] EXCEPT !.pc = "inserting", !.rule = k]
  BY <1>1, <1>2, <1>4 DEF Moves
<1>6. UNCHANGED <<load, rows, alerts, missed>>
  BY DEF Match
<1> QED BY <1>1, <1>2, <1>3, <1>5, <1>6 DEF SameEvent, SameAlert, TaskStates

\* Alerts: one is added, or the one in hand is written.
AddsAlert(t) ==
    /\ alerts' \in Seq(AlertStates) /\ DOMAIN alerts' = DOMAIN alerts \cup {Len(alerts) + 1}
    /\ Len(alerts) + 1 \notin DOMAIN alerts /\ Len(alerts) + 1 \in Pos
    /\ \A a \in DOMAIN alerts : alerts'[a] = alerts[a]
    /\ alerts'[Len(alerts) + 1] =
           [row |-> task[t].row, rule |-> task[t].rule, announced |-> FALSE, told |-> {}, refused |-> {}]

EditsAlert(a) ==
    /\ alerts' \in Seq(AlertStates) /\ DOMAIN alerts' = DOMAIN alerts
    /\ \A b \in DOMAIN alerts \ {a} : alerts'[b] = alerts[b]
    /\ alerts'[a].row = alerts[a].row /\ alerts'[a].rule = alerts[a].rule

LEMMA InsertMoves ==
    ASSUME TypeOK, NEW t \in Tasks, InsertAlert(t)
    PROVE  /\ Moves(t) /\ SameEvent(t) /\ AddsAlert(t) /\ UNCHANGED <<load, rows, missed>>
           /\ task[t].pc = "inserting" /\ task'[t].pc = "rereading"
           /\ task'[t].rule = task[t].rule /\ task'[t].channel = task[t].channel
           /\ task'[t].alert = Len(alerts) + 1
<1>1. /\ task[t] \in TaskStates /\ task \in [Tasks -> TaskStates] /\ "rereading" \in Running
      /\ alerts \in Seq(AlertStates)
  BY DEF TypeOK, Running
<1> DEFINE new == [row |-> task[t].row, rule |-> task[t].rule, announced |-> FALSE, told |-> {}, refused |-> {}]
<1>2. new \in AlertStates /\ alerts' = Append(alerts, new)
  BY <1>1 DEF AlertStates, TaskStates, InsertAlert
<1>3. AddsAlert(t)
  <2> HIDE DEF new
  <2>1. /\ alerts' \in Seq(AlertStates) /\ DOMAIN alerts' = DOMAIN alerts \cup {Len(alerts) + 1}
        /\ Len(alerts) + 1 \notin DOMAIN alerts /\ Len(alerts) + 1 \in Pos
        /\ \A a \in DOMAIN alerts : alerts'[a] = alerts[a]
        /\ alerts'[Len(alerts) + 1] = new
    BY <1>1, <1>2 DEF Pos
  <2> QED BY <2>1 DEF AddsAlert, new
<1>4. task' = [task EXCEPT ![t].pc = "rereading", ![t].alert = Len(alerts) + 1] /\ task[t].pc = "inserting"
  BY DEF InsertAlert, Is
<1>5. Len(alerts) + 1 \in Nat
  BY <1>3 DEF AddsAlert
<1> HIDE DEF new
<1>6. [task[t] EXCEPT !.pc = "rereading", !.alert = Len(alerts) + 1] \in TaskStates
  BY <1>1, <1>5 DEF TaskStates
<1>7. Moves(t) /\ task'[t] = [task[t] EXCEPT !.pc = "rereading", !.alert = Len(alerts) + 1]
  BY <1>1, <1>4, <1>6 DEF Moves
<1>8. UNCHANGED <<load, rows, missed>>
  BY DEF InsertAlert
<1> QED BY <1>1, <1>3, <1>4, <1>7, <1>8 DEF SameEvent, TaskStates

LEMMA AcceptMoves ==
    ASSUME TypeOK, NEW t \in Tasks, Accept(t) \/ DropUnparsed(t)
    PROVE  /\ Moves(t) /\ SameEvent(t) /\ SameAlert(t) /\ UNCHANGED <<load, rows, alerts, missed>>
           /\ task[t].pc = "absent" /\ task'[t].pc \in {"saving", "ended"}
           /\ task'[t].rule = task[t].rule
<1>1. \A pc \in {"saving", "ended"} : pc \in Running \cup Finished
  BY DEF Running, Finished
<1>2. PICK pc \in {"saving", "ended"} : task' = [task EXCEPT ![t].pc = pc]
  BY DEF Accept, DropUnparsed
<1>3. task[t].pc = "absent" /\ UNCHANGED <<load, rows, alerts, missed>>
  BY DEF Accept, DropUnparsed, Arrives
<1> QED BY <1>1, <1>2, <1>3, PcMoves

LEMMA FailMoves ==
    ASSUME TypeOK, NEW t \in Tasks, SaveFails(t) \/ RefreshFails(t)
    PROVE  /\ Moves(t) /\ task'[t] = Return(t, FALSE) /\ UNCHANGED <<load, rows, alerts, missed>>
           /\ task[t].pc \in {"saving", "refreshing"}
<1>1. /\ task[t].pc \in {"saving", "refreshing"} /\ task' = [task EXCEPT ![t] = Return(t, FALSE)]
      /\ UNCHANGED <<load, rows, alerts, missed>>
  BY DEF SaveFails, RefreshFails, Is
<1> QED BY <1>1, ReturnMoves

LEMMA RowFields ==
    ASSUME TypeOK, NEW r \in DOMAIN rows
    PROVE  /\ rows[r] \in RowStates /\ r \in Nat
           /\ rows[r].task \in Tasks /\ rows[r].at \in Pos /\ rows[r].seen \in BOOLEAN
<1>1. rows \in Seq(RowStates)
  BY DEF TypeOK
<1>2. rows[r] \in RowStates /\ r \in Nat
  BY <1>1
<1> QED BY <1>2 DEF RowStates

LEMMA RefreshMoves ==
    ASSUME TypeOK, NEW t \in Tasks, Refresh(t)
    PROVE  /\ Moves(t) /\ SameEvent(t) /\ SameAlert(t) /\ UNCHANGED <<load, alerts, missed>>
           /\ task[t].pc = "refreshing" /\ task'[t].pc = "evaluating" /\ task'[t].rule = task[t].rule
           /\ task[t].row \in DOMAIN rows /\ EditsRow(task[t].row)
           /\ rows'[task[t].row].seen /\ rows'[task[t].row].evaluation = "begun"
<1> DEFINE r == task[t].row
           a == IF load.analysing THEN "scheduled" ELSE rows[r].analysis
           x == [rows[r] EXCEPT !.seen = TRUE, !.evaluation = "begun", !.analysis = a]
<1>1. /\ task[t].pc = "refreshing" /\ task' = [task EXCEPT ![t].pc = "evaluating"]
      /\ UNCHANGED <<load, alerts, missed>>
  BY DEF Refresh, Is
<1>2. r \in DOMAIN rows /\ "evaluating" \in Running
  BY <1>1 DEF TypeOK, InHand, HoldsRow, Running
<1>3. rows[r] \in RowStates
  BY <1>2, RowFields
<1>4. a \in {"none", "scheduled", "persisting", "raising", "ended", "lost"}
  BY <1>3 DEF RowStates
<1>5. rows' = [rows EXCEPT ![r] = x]
  BY DEF Refresh
<1> HIDE DEF r, a
<1>6. x \in RowStates /\ x.task = rows[r].task /\ x.at = rows[r].at /\ x.seen /\ x.evaluation = "begun"
  BY <1>3, <1>4 DEF RowStates
<1> HIDE DEF x
<1>7. EditsRow(r) /\ rows'[r] = x
  BY <1>2, <1>5, <1>6, WriteRow
<1> QED BY <1>1, <1>2, <1>6, <1>7, PcMoves DEF r

LEMMA FallbackMoves ==
    ASSUME TypeOK, NEW t \in Tasks, AnswerFallback(t) \/ FallbackFails(t)
    PROVE  /\ Moves(t) /\ SameEvent(t) /\ SameAlert(t) /\ UNCHANGED <<load, alerts, missed>>
           /\ task[t].pc \in {"fallback", "fallback_refreshing"} /\ task'[t].pc \in {"answered", "failed"}
           /\ \/ rows' = rows
              \/ /\ task[t].row \in DOMAIN rows /\ EditsRow(task[t].row) /\ task[t].pc = "fallback_refreshing"
                 /\ rows'[task[t].row].evaluation = rows[task[t].row].evaluation
                 /\ rows'[task[t].row].analysis = rows[task[t].row].analysis
<1>0. \A pc \in {"answered", "failed"} : pc \in Running \cup Finished
  BY DEF Finished
<1>1. CASE FallbackFails(t)
  <2>1. /\ task[t].pc \in {"fallback", "fallback_refreshing"} /\ task' = [task EXCEPT ![t].pc = "failed"]
        /\ UNCHANGED <<load, rows, alerts, missed>>
    BY <1>1 DEF FallbackFails, Is
  <2> QED BY <1>0, <2>1, PcMoves
<1>2. CASE AnswerFallback(t)
  <2> DEFINE r == task[t].row
             x == [rows[r] EXCEPT !.seen = TRUE]
  <2>1. /\ task[t].pc = "fallback_refreshing" /\ task' = [task EXCEPT ![t].pc = "answered"]
        /\ UNCHANGED <<load, alerts, missed>> /\ rows' = [rows EXCEPT ![r] = x]
    BY <1>2 DEF AnswerFallback, Is
  <2>2. r \in DOMAIN rows
    BY <2>1 DEF TypeOK, InHand
  <2>3. rows[r] \in RowStates
    BY <2>2, RowFields
  <2> HIDE DEF r
  <2>4. /\ x \in RowStates /\ x.task = rows[r].task /\ x.at = rows[r].at
        /\ x.evaluation = rows[r].evaluation /\ x.analysis = rows[r].analysis
    BY <2>3 DEF RowStates
  <2> HIDE DEF x
  <2>5. EditsRow(r) /\ rows'[r] = x
    BY <2>1, <2>2, <2>4, WriteRow
  <2> QED BY <1>0, <2>1, <2>2, <2>4, <2>5, PcMoves DEF r
<1> QED BY <1>1, <1>2

LEMMA EndMoves ==
    ASSUME TypeOK, NEW t \in Tasks, EvaluationEnds(t) \/ \E k \in RuleNumbers : EvaluationRaises(t, k)
    PROVE  /\ Moves(t) /\ UNCHANGED <<load, alerts, missed>> /\ task[t].pc = "evaluating"
           /\ \/ task'[t] = Return(t, TRUE)
              \/ SameEvent(t) /\ SameAlert(t) /\ task'[t].pc = "failed" /\ Via(t) = "udp"
           /\ task[t].row \in DOMAIN rows /\ EditsRow(task[t].row)
           /\ rows'[task[t].row].evaluation \in {"complete", "raised"}
           /\ rows'[task[t].row].seen = rows[task[t].row].seen
<1> DEFINE r == task[t].row
<1>1. PICK e \in {"complete", "raised"} : rows' = [rows EXCEPT ![r].evaluation = e]
  BY DEF EvaluationEnds, EvaluationRaises
<1>2. /\ task[t].pc = "evaluating" /\ UNCHANGED <<load, alerts, missed>>
      /\ \/ task' = [task EXCEPT ![t] = Return(t, TRUE)]
         \/ Via(t) = "udp" /\ task' = [task EXCEPT ![t].pc = "failed"]
  BY DEF EvaluationEnds, EvaluationRaises, Decides, Is
<1>3. r \in DOMAIN rows /\ "failed" \in Finished
  BY <1>2 DEF TypeOK, InHand, HoldsRow, Finished
<1>4. rows[r] \in RowStates
  BY <1>3, RowFields
<1> DEFINE x == [rows[r] EXCEPT !.evaluation = e]
<1>5. rows' = [rows EXCEPT ![r] = x]
  BY <1>1
<1> HIDE DEF r
<1>6. x \in RowStates /\ x.task = rows[r].task /\ x.at = rows[r].at /\ x.seen = rows[r].seen /\ x.evaluation = e
  BY <1>4 DEF RowStates
<1> HIDE DEF x
<1>7. EditsRow(r) /\ rows'[r] = x
  BY <1>3, <1>5, <1>6, WriteRow
<1>8. \/ Moves(t) /\ task'[t] = Return(t, TRUE)
      \/ Via(t) = "udp" /\ Moves(t) /\ SameEvent(t) /\ SameAlert(t) /\ task'[t].pc = "failed"
  BY <1>2, <1>3, PcMoves, ReturnMoves
<1> QED BY <1>2, <1>3, <1>6, <1>7, <1>8 DEF r

LEMMA RuleMoves ==
    ASSUME TypeOK, NEW t \in Tasks, InsertFails(t) \/ RereadFails(t) \/ Announced(t)
    PROVE  /\ Moves(t) /\ SameEvent(t) /\ task'[t].pc = "evaluating" /\ task'[t].rule = task[t].rule + 1
           /\ task'[t].alert = 0 /\ task'[t].channel = 1 /\ UNCHANGED <<load, rows, alerts>>
           /\ InsertFails(t) => task[t].pc = "inserting"
           /\ RereadFails(t) => task[t].pc = "rereading"
           /\ Announced(t) => task[t].pc = "notifying" /\ Remaining(t) = {}
           /\ task[t].pc \in {"inserting", "rereading", "notifying"}
<1>1. task' = [task EXCEPT ![t] = NextRule(t)] /\ UNCHANGED <<load, rows, alerts>>
  BY DEF InsertFails, RereadFails, Announced
<1>2. /\ InsertFails(t) => task[t].pc = "inserting"
      /\ RereadFails(t) => task[t].pc = "rereading"
      /\ Announced(t) => task[t].pc = "notifying" /\ Remaining(t) = {}
  BY DEF InsertFails, RereadFails, Announced, Is
<1> QED BY <1>1, <1>2, NextRuleMoves

LEMMA WriteAlert ==
    ASSUME TypeOK, NEW a \in DOMAIN alerts, NEW x \in AlertStates, x.row = alerts[a].row,
           x.rule = alerts[a].rule, alerts' = [alerts EXCEPT ![a] = x]
    PROVE  EditsAlert(a) /\ alerts'[a] = x
<1>1. alerts \in Seq(AlertStates)
  BY DEF TypeOK
<1> QED BY <1>1, ExceptSeq DEF EditsAlert

LEMMA AlertFields ==
    ASSUME TypeOK, NEW a \in DOMAIN alerts
    PROVE  /\ alerts[a] \in AlertStates /\ a \in Nat
           /\ alerts[a].told \subseteq Channels /\ alerts[a].refused \subseteq Channels
<1>1. alerts \in Seq(AlertStates)
  BY DEF TypeOK
<1>2. alerts[a] \in AlertStates /\ a \in Nat
  BY <1>1
<1> QED BY <1>2 DEF AlertStates

LEMMA RereadMoves ==
    ASSUME TypeOK, NEW t \in Tasks, RereadAlert(t)
    PROVE  /\ Moves(t) /\ SameEvent(t) /\ SameAlert(t) /\ UNCHANGED <<load, rows, missed>>
           /\ task[t].pc = "rereading" /\ task'[t].pc = "notifying" /\ task'[t].rule = task[t].rule
           /\ task[t].alert \in DOMAIN alerts /\ EditsAlert(task[t].alert)
           /\ alerts'[task[t].alert].announced
           /\ alerts'[task[t].alert].told = alerts[task[t].alert].told
           /\ alerts'[task[t].alert].refused = alerts[task[t].alert].refused
<1> DEFINE a == task[t].alert
           x == [alerts[a] EXCEPT !.announced = TRUE]
<1>1. /\ task[t].pc = "rereading" /\ task' = [task EXCEPT ![t].pc = "notifying"]
      /\ UNCHANGED <<load, rows, missed>> /\ alerts' = [alerts EXCEPT ![a] = x]
  BY DEF RereadAlert, Is
<1>2. a \in DOMAIN alerts /\ "notifying" \in Running
  BY <1>1 DEF TypeOK, InHand, HoldsAlert, Running
<1>3. alerts[a] \in AlertStates
  BY <1>2, AlertFields
<1> HIDE DEF a
<1>4. /\ x \in AlertStates /\ x.row = alerts[a].row /\ x.rule = alerts[a].rule /\ x.announced
      /\ x.told = alerts[a].told /\ x.refused = alerts[a].refused
  BY <1>3 DEF AlertStates
<1> HIDE DEF x
<1>5. EditsAlert(a) /\ alerts'[a] = x
  BY <1>1, <1>2, <1>4, WriteAlert
<1> QED BY <1>1, <1>2, <1>4, <1>5, PcMoves DEF a

LEMMA SendMoves ==
    ASSUME TypeOK, NEW t \in Tasks, NEW c \in Channels, Send(t, c) \/ SendFails(t, c)
    PROVE  /\ Moves(t) /\ SameEvent(t) /\ UNCHANGED <<load, rows, missed>>
           /\ task[t].pc = "notifying" /\ task'[t].pc = "notifying" /\ task'[t].rule = task[t].rule
           /\ task'[t].alert = task[t].alert /\ task'[t].channel = c + 1 /\ NextChannel(t, c)
           /\ task[t].alert \in DOMAIN alerts /\ EditsAlert(task[t].alert)
           /\ alerts'[task[t].alert].announced = alerts[task[t].alert].announced
           /\ \/ /\ alerts'[task[t].alert].told = alerts[task[t].alert].told \cup {c}
                 /\ alerts'[task[t].alert].refused = alerts[task[t].alert].refused
              \/ /\ alerts'[task[t].alert].told = alerts[task[t].alert].told
                 /\ alerts'[task[t].alert].refused = alerts[task[t].alert].refused \cup {c}
<1> DEFINE a == task[t].alert
           told == [alerts[a] EXCEPT !.told = @ \cup {c}]
           refused == [alerts[a] EXCEPT !.refused = @ \cup {c}]
<1>1. /\ task[t].pc = "notifying" /\ NextChannel(t, c) /\ UNCHANGED <<load, rows, missed>>
      /\ task' = [task EXCEPT ![t].channel = c + 1]
      /\ alerts' = [alerts EXCEPT ![a] = told] \/ alerts' = [alerts EXCEPT ![a] = refused]
  BY DEF Send, SendFails, NextChannel, Is
<1>2. /\ a \in DOMAIN alerts /\ c + 1 \in Pos
      /\ task[t] \in TaskStates /\ task \in [Tasks -> TaskStates]
  BY <1>1, LoadFacts DEF TypeOK, InHand, HoldsAlert, Pos
<1>3. alerts[a] \in AlertStates
  BY <1>2, AlertFields
<1>4. [task[t] EXCEPT !.channel = c + 1] \in TaskStates
  BY <1>2 DEF TaskStates
<1>5. Moves(t) /\ task'[t] = [task[t] EXCEPT !.channel = c + 1]
  BY <1>1, <1>2, <1>4 DEF Moves
<1>6. /\ SameEvent(t) /\ task'[t].pc = "notifying" /\ task'[t].rule = task[t].rule
      /\ task'[t].alert = a /\ task'[t].channel = c + 1
  BY <1>1, <1>2, <1>5 DEF SameEvent, TaskStates
<1> HIDE DEF a
<1>7. /\ \A x \in {told, refused} :
             /\ x \in AlertStates /\ x.row = alerts[a].row /\ x.rule = alerts[a].rule
             /\ x.announced = alerts[a].announced
      /\ told.told = alerts[a].told \cup {c} /\ told.refused = alerts[a].refused
      /\ refused.told = alerts[a].told /\ refused.refused = alerts[a].refused \cup {c}
  BY <1>3 DEF AlertStates
<1> HIDE DEF told, refused
<1>8. EditsAlert(a) /\ (alerts'[a] = told \/ alerts'[a] = refused)
  BY <1>1, <1>2, <1>7, WriteAlert
<1> QED BY <1>1, <1>2, <1>5, <1>6, <1>7, <1>8 DEF a

LEMMA AnalysisMoves ==
    ASSUME TypeOK, NEW r \in DOMAIN rows, AnalysisStep(r)
    PROVE  /\ UNCHANGED <<load, task, alerts, missed>> /\ EditsRow(r)
           /\ rows'[r].seen = rows[r].seen /\ rows'[r].evaluation = rows[r].evaluation
           /\ rows[r].analysis # "none"
<1>1. PICK stage \in {"persisting", "raising", "ended"} : rows' = [rows EXCEPT ![r].analysis = stage]
  BY DEF AnalysisStep, Score, Persist, RaiseRisk
<1>2. UNCHANGED <<load, task, alerts, missed>> /\ rows[r].analysis # "none"
  BY DEF AnalysisStep, Score, Persist, RaiseRisk, Analysing
<1>3. rows[r] \in RowStates
  BY RowFields
<1> DEFINE x == [rows[r] EXCEPT !.analysis = stage]
<1>4. /\ x \in RowStates /\ x.task = rows[r].task /\ x.at = rows[r].at
      /\ x.seen = rows[r].seen /\ x.evaluation = rows[r].evaluation
  BY <1>3 DEF RowStates
<1>5. rows' = [rows EXCEPT ![r] = x]
  BY <1>1
<1> HIDE DEF x
<1>6. EditsRow(r) /\ rows'[r] = x
  BY <1>4, <1>5, WriteRow
<1> QED BY <1>2, <1>4, <1>6

\* What a task or a row is after the process is gone.
LostTask(s) == /\ task'[s].pc = IF task[s].pc \in Running THEN "lost" ELSE task[s].pc
               /\ SameEvent(s) /\ SameAlert(s) /\ task'[s].rule = task[s].rule

LostRow(r) ==
    /\ rows'[r].task = rows[r].task /\ rows'[r].at = rows[r].at /\ rows'[r].seen = rows[r].seen
    /\ rows'[r].evaluation = rows[r].evaluation
    /\ rows[r].analysis = "none" => rows'[r].analysis = "none"

LEMMA DiesMoves ==
    ASSUME TypeOK, Dies
    PROVE  /\ UNCHANGED <<load, alerts, missed>> /\ phase' = "down"
           /\ task' \in [Tasks -> TaskStates] /\ \A s \in Tasks : LostTask(s)
           /\ rows' \in Seq(RowStates) /\ DOMAIN rows' = DOMAIN rows /\ \A r \in DOMAIN rows : LostRow(r)
<1>1. /\ task' = [t \in Tasks |-> IF task[t].pc \in Running THEN [task[t] EXCEPT !.pc = "lost"] ELSE task[t]]
      /\ rows' = [r \in DOMAIN rows |-> IF rows[r].analysis \in {"scheduled", "persisting", "raising"}
                                        THEN [rows[r] EXCEPT !.analysis = "lost"] ELSE rows[r]]
      /\ UNCHANGED <<load, alerts, missed>> /\ phase' = "down"
  BY DEF Dies
<1>2. ASSUME NEW s \in Tasks
      PROVE  task'[s] \in TaskStates /\ LostTask(s)
  <2>1. task[s] \in TaskStates /\ "lost" \in Finished
    BY TaskFields DEF Finished
  <2>2. task'[s] = IF task[s].pc \in Running THEN [task[s] EXCEPT !.pc = "lost"] ELSE task[s]
    BY <1>1
  <2> QED BY <2>1, <2>2 DEF LostTask, SameEvent, SameAlert, TaskStates
<1>3. ASSUME NEW r \in DOMAIN rows
      PROVE  rows'[r] \in RowStates /\ LostRow(r)
  <2>1. rows[r] \in RowStates
    BY RowFields
  <2>2. rows'[r] = IF rows[r].analysis \in {"scheduled", "persisting", "raising"}
                   THEN [rows[r] EXCEPT !.analysis = "lost"] ELSE rows[r]
    BY <1>1
  <2> QED BY <2>1, <2>2 DEF LostRow, RowStates
<1>4. task' \in [Tasks -> TaskStates]
  BY <1>1, <1>2
<1>5. DOMAIN rows' = DOMAIN rows /\ rows' \in Seq(RowStates)
  <2>1. rows \in Seq(RowStates)
    BY DEF TypeOK
  <2>2. DOMAIN rows = 1..Len(rows) /\ Len(rows) \in Nat
    BY <2>1
  <2>3. rows' \in [1..Len(rows) -> RowStates]
    BY <1>1, <1>3, <2>2
  <2>4. rows' \in Seq(RowStates)
    BY <2>2, <2>3, SeqDef
  <2> QED BY <1>1, <2>4
<1> QED BY <1>1, <1>2, <1>3, <1>4, <1>5

-----------------------------------------------------------------------------
(* Type correctness. *)

LEMMA InitTyped == Init => TypeOK
<1> SUFFICES ASSUME Init PROVE TypeOK
  OBVIOUS
<1>1. PICK n \in DOMAIN Workloads : load = Workloads[n]
  BY DEF Init
<1>2. Fresh \in TaskStates /\ Fresh.pc = "absent"
  BY DEF Fresh, TaskStates, Pos
<1>3. task \in [Tasks -> TaskStates] /\ \A t \in Tasks : InHand(t)
  BY <1>2, Stages DEF Init, InHand, HoldsRow, HoldsAlert
<1>4. rows \in Seq(RowStates) /\ alerts \in Seq(AlertStates)
  BY DEF Init
<1> QED BY <1>1, <1>3, <1>4 DEF Init, TypeOK

\* One task goes on, no row and no alert is ever taken away.
LEMMA TaskTyped ==
    ASSUME TypeOK, NEW t \in Tasks, Moves(t), load' = load, phase' = phase, restarts' = restarts,
           failures' \in Nat, missed' \subseteq Nat \X Nat,
           rows' \in Seq(RowStates), DOMAIN rows \subseteq DOMAIN rows',
           alerts' \in Seq(AlertStates), DOMAIN alerts \subseteq DOMAIN alerts', InHand(t)'
    PROVE  TypeOK'
<1>1. ASSUME NEW s \in Tasks PROVE InHand(s)'
  <2>1. CASE s = t
    BY <2>1
  <2>2. CASE s # t
    BY <2>2 DEF TypeOK, Moves, InHand
  <2> QED BY <2>1, <2>2
<1> QED BY <1>1 DEF TypeOK, Moves

LEMMA RowsOnly ==
    ASSUME TypeOK, NEW r \in DOMAIN rows, EditsRow(r)
    PROVE  rows' \in Seq(RowStates) /\ DOMAIN rows' = DOMAIN rows
BY DEF EditsRow

\* The bounds and the history are touched by failures alone.
LEMMA TaskBounds ==
    ASSUME TypeOK, NEW t \in Tasks, Accept(t) \/ DropUnparsed(t) \/ TaskStep(t) \/ TaskFails(t)
    PROVE  phase' = phase /\ restarts' = restarts /\ failures' \in Nat /\ missed' \subseteq Nat \X Nat
<1>1. failures \in Nat /\ missed \subseteq Nat \X Nat /\ failures + 1 \in Nat
  BY DEF TypeOK
<1>2. CASE Accept(t) \/ DropUnparsed(t)
  BY <1>1, <1>2 DEF Accept, DropUnparsed
<1>3. CASE TaskStep(t)
  BY <1>1, <1>3 DEF TaskStep, Save, Refresh, SaveFallback, AnswerFallback, Match, EvaluationRaises,
                    EvaluationEnds, InsertAlert, RereadAlert, Send, Announced, Works
<1>4. CASE InsertFails(t)
  <2>1. <<task[t].row, task[t].rule>> \in Nat \X Nat
    BY TaskFields DEF Pos
  <2> QED BY <1>1, <1>4, <2>1 DEF InsertFails, Fails
<1>5. CASE \/ SaveFails(t) \/ RefreshFails(t) \/ FallbackFails(t) \/ RereadFails(t)
           \/ \E c \in Channels : SendFails(t, c)
  BY <1>1, <1>5 DEF SaveFails, RefreshFails, FallbackFails, RereadFails, SendFails, Fails
<1> QED BY <1>2, <1>3, <1>4, <1>5 DEF TaskFails

LEMMA NextTyped == TypeOK /\ [Next]_vars => TypeOK'
<1> SUFFICES ASSUME TypeOK, [Next]_vars PROVE TypeOK'
  OBVIOUS
<1>0. rows \in Seq(RowStates) /\ alerts \in Seq(AlertStates)
  BY DEF TypeOK
<1>1. ASSUME NEW t \in Tasks, Accept(t) \/ DropUnparsed(t) \/ TaskStep(t) \/ TaskFails(t)
      PROVE  TypeOK'
  <2>0. phase' = phase /\ restarts' = restarts /\ failures' \in Nat /\ missed' \subseteq Nat \X Nat
    BY <1>1, TaskBounds
  <2>1. CASE Accept(t) \/ DropUnparsed(t)
    <3>1. InHand(t)'
      BY <2>1, AcceptMoves DEF InHand, HoldsRow, HoldsAlert
    <3> QED BY <1>0, <2>0, <2>1, <3>1, AcceptMoves, TaskTyped
  <2>2. CASE Save(t) \/ SaveFallback(t)
    <3>1. InHand(t)'
      BY <2>2, SaveMoves DEF InHand, HoldsRow, HoldsAlert, AddsRow
    <3> QED BY <1>0, <2>0, <2>2, <3>1, SaveMoves, TaskTyped DEF AddsRow
  <2>3. CASE Refresh(t)
    <3>1. InHand(t)'
      BY <2>3, RefreshMoves DEF InHand, HoldsRow, HoldsAlert, EditsRow, SameEvent
    <3> QED BY <1>0, <2>0, <2>3, <3>1, RefreshMoves, RowsOnly, TaskTyped
  <2>4. CASE AnswerFallback(t) \/ FallbackFails(t)
    <3>1. InHand(t)'
      BY <2>4, FallbackMoves DEF InHand, HoldsRow, HoldsAlert
    <3>2. rows' \in Seq(RowStates) /\ DOMAIN rows' = DOMAIN rows
      BY <1>0, <2>4, FallbackMoves, RowsOnly
    <3> QED BY <1>0, <2>0, <2>4, <3>1, <3>2, FallbackMoves, TaskTyped
  <2>5. CASE SaveFails(t) \/ RefreshFails(t)
    <3>1. task'[t].pc \in {"ended", "answered", "fallback", "saving"}
      BY <2>5, FailMoves, ReturnFields DEF HoldsRow, HoldsAlert
    <3>2. InHand(t)'
      BY <3>1 DEF InHand, HoldsRow, HoldsAlert
    <3> QED BY <1>0, <2>0, <2>5, <3>2, FailMoves, TaskTyped
  <2>6. ASSUME NEW k \in RuleNumbers, Match(t, k) PROVE TypeOK'
    <3>1. InHand(t)
      BY DEF TypeOK
    <3>2. InHand(t)'
      BY <2>6, <3>1, MatchMoves DEF InHand, HoldsRow, HoldsAlert, SameEvent
    <3> QED BY <1>0, <2>0, <2>6, <3>2, MatchMoves, TaskTyped
  <2>7. CASE EvaluationEnds(t) \/ \E k \in RuleNumbers : EvaluationRaises(t, k)
    <3>1. task'[t].pc \in {"ended", "answered", "fallback", "saving", "failed"}
      BY <2>7, EndMoves, ReturnFields DEF HoldsRow, HoldsAlert
    <3>2. InHand(t)'
      BY <3>1 DEF InHand, HoldsRow, HoldsAlert
    <3> QED BY <1>0, <2>0, <2>7, <3>2, EndMoves, RowsOnly, TaskTyped
  <2>8. CASE InsertAlert(t)
    <3>1. InHand(t)
      BY DEF TypeOK
    <3>2. InHand(t)'
      BY <2>8, <3>1, InsertMoves DEF InHand, HoldsRow, HoldsAlert, SameEvent, AddsAlert
    <3> QED BY <1>0, <2>0, <2>8, <3>2, InsertMoves, TaskTyped DEF AddsAlert
  <2>9. CASE RereadAlert(t)
    <3>1. InHand(t)
      BY DEF TypeOK
    <3>2. InHand(t)'
      BY <2>9, <3>1, RereadMoves DEF InHand, HoldsRow, HoldsAlert, SameEvent, SameAlert, EditsAlert
    <3> QED BY <1>0, <2>0, <2>9, <3>2, RereadMoves, TaskTyped DEF EditsAlert
  <2>10. ASSUME NEW c \in Channels, Send(t, c) \/ SendFails(t, c) PROVE TypeOK'
    <3>1. InHand(t)
      BY DEF TypeOK
    <3>2. InHand(t)'
      BY <2>10, <3>1, SendMoves DEF InHand, HoldsRow, HoldsAlert, SameEvent, EditsAlert
    <3> QED BY <1>0, <2>0, <2>10, <3>2, SendMoves, TaskTyped DEF EditsAlert
  <2>11. CASE InsertFails(t) \/ RereadFails(t) \/ Announced(t)
    <3>1. InHand(t)
      BY DEF TypeOK
    <3>2. InHand(t)'
      BY <2>11, <3>1, RuleMoves DEF InHand, HoldsRow, HoldsAlert, SameEvent
    <3> QED BY <1>0, <2>0, <2>11, <3>2, RuleMoves, TaskTyped
  <2> QED BY <1>1, <2>1, <2>2, <2>3, <2>4, <2>5, <2>6, <2>7, <2>8, <2>9, <2>10, <2>11 DEF TaskStep, TaskFails
<1>2. ASSUME NEW r \in DOMAIN rows, AnalysisStep(r) PROVE TypeOK'
  <2>1. phase' = phase /\ failures' = failures /\ restarts' = restarts
    BY <1>2 DEF AnalysisStep, Score, Persist, RaiseRisk
  <2>2. UNCHANGED <<load, task, alerts, missed>> /\ rows' \in Seq(RowStates) /\ DOMAIN rows' = DOMAIN rows
    BY <1>2, AnalysisMoves, RowsOnly
  <2> QED BY <2>1, <2>2 DEF TypeOK, InHand
<1>3. CASE Stop \/ Crash
  <2>1. Dies /\ failures' = failures /\ restarts' = restarts
    BY <1>3 DEF Stop, Crash, Dies
  <2>2. ASSUME NEW t \in Tasks PROVE InHand(t)'
    <3>1. task'[t].pc \notin Running /\ LostTask(t)
      BY <2>1, DiesMoves, Stages DEF LostTask, Finished
    <3> QED BY <3>1 DEF InHand, HoldsRow, HoldsAlert, Running
  <2> QED BY <2>1, <2>2, DiesMoves DEF TypeOK
<1>4. CASE Terminate \/ Restart
  BY <1>4 DEF Terminate, Restart, TypeOK, InHand
<1>5. CASE UNCHANGED vars
  BY <1>5 DEF TypeOK, InHand, vars
<1> QED BY <1>1, <1>2, <1>3, <1>4, <1>5 DEF Next

\* The tables hold what they are declared to, and whoever works on a row or
\* announces an alert has one that exists: what pipeline.py relies on when it
\* hands db_evento.id to the callbacks.
THEOREM TypeCorrect == Spec => []TypeOK
<1>1. Init => TypeOK
  BY InitTyped
<1>2. TypeOK /\ [Next]_vars => TypeOK'
  BY NextTyped
<1> QED BY <1>1, <1>2, PTL DEF Spec

-----------------------------------------------------------------------------
(* EffectsOnce.  What makes it inductive is what a task may find in the      *)
(* table at each of its awaits: nothing of its event before the commit, the  *)
(* one row in its hands afterwards, and before the fallback at most one row, *)
(* that nobody has evaluated.  Alerts follow the rules in their order.       *)

\* Neither evaluated nor analysed.
Untouched(r) == rows[r].evaluation = "none" /\ rows[r].analysis = "none"

\* The rows of an event: none, one, or the second one of the fallback.
Shape(t, i) ==
    \/ RowsOf(t, i) = {}
    \/ \E p \in DOMAIN rows : RowsOf(t, i) = {p}
    \/ /\ Via(t) = "rest"
       /\ \E p, q \in DOMAIN rows : p < q /\ RowsOf(t, i) = {p, q} /\ Untouched(p)

\* The rows of the event in hand.
Hands(t, i) ==
    /\ task[t].pc \in {"absent", "saving"} => RowsOf(t, i) = {}
    /\ task[t].pc \in HoldsRow => RowsOf(t, i) = {task[t].row}
    /\ task[t].pc = "refreshing" => Untouched(task[t].row)
    /\ task[t].pc = "fallback" =>
           /\ Via(t) = "rest"
           /\ \/ RowsOf(t, i) = {}
              \/ \E p \in DOMAIN rows : RowsOf(t, i) = {p} /\ Untouched(p)

RowsFit(t) ==
    \A i \in Pos : /\ Shape(t, i)
                   /\ i > task[t].at => RowsOf(t, i) = {}
                   /\ i = task[t].at => Hands(t, i)

\* The alerts of the row in hand are those of the rules before the one in hand.
AlertsFit(t) ==
    task[t].pc \in HoldsRow \ {"refreshing"} =>
        /\ rows[task[t].row].evaluation # "none"
        /\ \A a \in DOMAIN alerts : alerts[a].row = task[t].row =>
               /\ alerts[a].rule <= task[t].rule
               /\ task[t].pc \in {"evaluating", "inserting"} => alerts[a].rule < task[t].rule

AlertsOfRows ==
    \A a \in DOMAIN alerts : alerts[a].row \in DOMAIN rows /\ rows[alerts[a].row].evaluation # "none"

Once ==
    /\ TypeOK
    /\ \A t \in Tasks : RowsFit(t) /\ AlertsFit(t)
    /\ AlertsOfRows /\ AlertedOnce

\* What a step does to the rows of task s: it adds none to them and touches none
\* that nobody touched before.
KeepsRows(s) ==
    /\ DOMAIN rows \subseteq DOMAIN rows'
    /\ \A r \in DOMAIN rows' \ DOMAIN rows : rows'[r].task # s
    /\ \A r \in DOMAIN rows :
           /\ rows'[r].task = rows[r].task /\ rows'[r].at = rows[r].at
           /\ rows[r].evaluation # "none" => rows'[r].evaluation # "none"
           /\ rows[r].task = s /\ Untouched(r) => Untouched(r)'

\* No row goes, and none that was evaluated is as if it never was.
KeepsEvaluations ==
    \A r \in DOMAIN rows :
        r \in DOMAIN rows' /\ (rows[r].evaluation # "none" => rows'[r].evaluation # "none")

LEMMA RowsKept ==
    ASSUME TypeOK, TypeOK', load' = load, NEW s \in Tasks, KeepsRows(s), NEW i \in Pos
    PROVE  RowsOf(s, i)' = RowsOf(s, i) /\ (Shape(s, i) => Shape(s, i)')
<1>1. RowsOf(s, i)' = RowsOf(s, i)
  BY DEF RowsOf, KeepsRows
<1>2. \A p \in RowsOf(s, i) : p \in DOMAIN rows' /\ (Untouched(p) => Untouched(p)')
  BY DEF RowsOf, KeepsRows
<1>3. Via(s)' = Via(s)
  BY DEF Via
<1> QED BY <1>1, <1>2, <1>3 DEF Shape, KeepsRows

\* A task that stays where it is keeps what it knows.
LEMMA OthersKeep ==
    ASSUME Once, TypeOK', load' = load, NEW s \in Tasks, KeepsRows(s),
           SameEvent(s), task'[s].rule = task[s].rule,
           task'[s].pc = task[s].pc \/ task'[s].pc = "lost",
           \A a \in DOMAIN alerts' :
               \/ /\ a \in DOMAIN alerts
                  /\ alerts'[a].row = alerts[a].row /\ alerts'[a].rule = alerts[a].rule
               \/ alerts'[a].row \in DOMAIN rows /\ rows[alerts'[a].row].task # s
    PROVE  RowsFit(s)' /\ AlertsFit(s)'
<1>1. TypeOK /\ RowsFit(s) /\ AlertsFit(s)
  BY DEF Once
<1>2. \A i \in Pos : RowsOf(s, i)' = RowsOf(s, i) /\ (Shape(s, i) => Shape(s, i)')
  BY <1>1, RowsKept
<1>3. task'[s].at = task[s].at /\ task'[s].row = task[s].row /\ task[s].at \in Pos
  BY <1>1, TaskFields DEF SameEvent
<1>4. ASSUME NEW i \in Pos, i = task[s].at PROVE Hands(s, i)'
  <2>1. Hands(s, i)
    BY <1>1, <1>4 DEF RowsFit
  <2>2. \A p \in RowsOf(s, i) : p \in DOMAIN rows' /\ (Untouched(p) => Untouched(p)')
    BY DEF RowsOf, KeepsRows
  <2>3. CASE task'[s].pc = "lost"
    BY <2>3 DEF Hands, HoldsRow
  <2>4. CASE task'[s].pc = task[s].pc
    <3>1. Via(s)' = Via(s)
      BY DEF Via
    <3>2. task[s].pc = "refreshing" => task[s].pc \in HoldsRow
      BY DEF HoldsRow
    <3> QED BY <1>2, <1>3, <2>1, <2>2, <2>4, <3>1, <3>2 DEF Hands
  <2> QED BY <2>3, <2>4
<1>5. RowsFit(s)'
  BY <1>1, <1>2, <1>3, <1>4 DEF RowsFit
<1>6. AlertsFit(s)'
  <2>1. CASE task'[s].pc = "lost"
    BY <2>1 DEF AlertsFit, HoldsRow
  <2>2. CASE task'[s].pc = task[s].pc /\ task[s].pc \in HoldsRow \ {"refreshing"}
    <3>1. RowsOf(s, task[s].at) = {task[s].row}
      BY <1>1, <1>3, <2>2 DEF RowsFit, Hands
    <3>2. task[s].row \in DOMAIN rows /\ rows[task[s].row].task = s
      BY <3>1 DEF RowsOf
    <3>3. rows'[task[s].row].evaluation # "none"
      BY <1>1, <2>2, <3>2 DEF AlertsFit, KeepsRows
    <3> QED BY <1>1, <1>3, <2>2, <3>2, <3>3 DEF AlertsFit
  <2>3. CASE task'[s].pc = task[s].pc /\ task[s].pc \notin HoldsRow \ {"refreshing"}
    BY <2>3 DEF AlertsFit
  <2> QED BY <2>1, <2>2, <2>3
<1> QED BY <1>5, <1>6

LEMMA InitOnce == Init => Once
<1> SUFFICES ASSUME Init PROVE Once
  OBVIOUS
<1>1. TypeOK
  BY InitTyped
<1>2. rows = <<>> /\ alerts = <<>> /\ \A t \in Tasks : task[t].pc = "absent"
  BY DEF Init, Fresh
<1>3. DOMAIN rows = {} /\ DOMAIN alerts = {}
  BY <1>2
<1>4. \A t \in Tasks, i \in Pos : RowsOf(t, i) = {}
  BY <1>3 DEF RowsOf
<1>5. \A t \in Tasks : RowsFit(t) /\ AlertsFit(t)
  BY <1>2, <1>4 DEF RowsFit, AlertsFit, Shape, Hands, HoldsRow
<1> QED BY <1>1, <1>3, <1>5 DEF Once, AlertsOfRows, AlertedOnce

LEMMA OnceImpliesEffects == Once => EffectsOnce
<1> SUFFICES ASSUME Once PROVE EffectsOnce
  OBVIOUS
<1>1. TypeOK /\ AlertedOnce /\ \A t \in Tasks, i \in Pos : Shape(t, i)
  BY DEF Once, RowsFit
<1>2. StoredOnce
  <2> SUFFICES ASSUME NEW t \in Tasks, NEW i \in DOMAIN Events(t)
               PROVE  \/ Cardinality(RowsOf(t, i)) <= 1
                      \/ /\ Via(t) = "rest" /\ Cardinality(RowsOf(t, i)) = 2
                         /\ rows[Min(RowsOf(t, i))].evaluation = "none"
    BY DEF StoredOnce
  <2>1. i \in Pos
    BY <1>1, LoadFacts DEF Pos
  <2>2. CASE RowsOf(t, i) = {}
    BY <2>2, FS_EmptySet
  <2>3. CASE \E p \in DOMAIN rows : RowsOf(t, i) = {p}
    BY <2>3, FS_Singleton
  <2>4. ASSUME NEW p \in DOMAIN rows, NEW q \in DOMAIN rows, Via(t) = "rest",
               p < q, RowsOf(t, i) = {p, q}, Untouched(p)
        PROVE  /\ Via(t) = "rest" /\ Cardinality(RowsOf(t, i)) = 2
               /\ rows[Min(RowsOf(t, i))].evaluation = "none"
    <3>1. p \in Nat /\ q \in Nat
      BY <1>1, RowFields
    <3>2. Cardinality({p, q}) = 2
      <4>1. IsFiniteSet({p}) /\ Cardinality({p}) = 1
        BY FS_Singleton
      <4>2. q \notin {p} /\ {p} \cup {q} = {p, q}
        BY <2>4, <3>1
      <4>3. Cardinality({p} \cup {q}) = Cardinality({p}) + 1
        BY <4>1, <4>2, FS_AddElement
      <4> QED BY <4>1, <4>2, <4>3
    <3>3. Min({p, q}) = p
      BY <2>4, <3>1 DEF Min
    <3> QED BY <2>4, <3>2, <3>3 DEF Untouched
  <2> QED BY <1>1, <2>1, <2>2, <2>3, <2>4 DEF Shape
<1>3. EvaluatedOnce
  <2> SUFFICES ASSUME NEW p \in DOMAIN rows, NEW q \in DOMAIN rows, p # q,
                      rows[p].task = rows[q].task, rows[p].at = rows[q].at
               PROVE  \E r \in {p, q} : Untouched(r)
    BY DEF EvaluatedOnce, Untouched
  <2> DEFINE t == rows[p].task
             i == rows[p].at
  <2>1. t \in Tasks /\ i \in Pos
    BY <1>1, RowFields
  <2>2. p \in RowsOf(t, i) /\ q \in RowsOf(t, i)
    BY DEF RowsOf
  <2>3. Shape(t, i)
    BY <1>1, <2>1
  <2> HIDE DEF t, i
  <2> QED BY <2>2, <2>3 DEF Shape
<1> QED BY <1>1, <1>2, <1>3 DEF EffectsOnce

KeepsAlerts ==
    /\ DOMAIN alerts' = DOMAIN alerts
    /\ \A a \in DOMAIN alerts : alerts'[a].row = alerts[a].row /\ alerts'[a].rule = alerts[a].rule

\* One task goes on and no alert is added: only what that task knows is left to see.
LEMMA TaskOnce ==
    ASSUME Once, TypeOK', NEW t \in Tasks, Moves(t), load' = load, KeepsAlerts,
           \A s \in Tasks \ {t} : KeepsRows(s),
           KeepsEvaluations,
           RowsFit(t)', AlertsFit(t)'
    PROVE  Once'
<1>1. ASSUME NEW s \in Tasks, s # t PROVE RowsFit(s)' /\ AlertsFit(s)'
  <2>1. KeepsRows(s) /\ task'[s] = task[s]
    BY <1>1 DEF Moves
  <2> QED BY <2>1, OthersKeep DEF SameEvent, KeepsAlerts
<1>2. AlertsOfRows' /\ AlertedOnce'
  BY DEF Once, AlertsOfRows, AlertedOnce, KeepsAlerts, KeepsEvaluations
<1> QED BY <1>1, <1>2 DEF Once

LEMMA SameRowsKept ==
    ASSUME rows' = rows
    PROVE  /\ \A s \in Tasks : KeepsRows(s)
           /\ KeepsEvaluations
BY DEF KeepsRows, KeepsEvaluations, Untouched

LEMMA AddedRowKept ==
    ASSUME NEW t \in Tasks, AddsRow(t)
    PROVE  /\ \A s \in Tasks \ {t} : KeepsRows(s)
           /\ KeepsEvaluations
<1>1. NewRow(t).task = t
  BY DEF NewRow
<1> QED BY <1>1 DEF AddsRow, KeepsRows, KeepsEvaluations, Untouched

\* A row written without touching it.
LEMMA QuietRowKept ==
    ASSUME NEW r \in DOMAIN rows, EditsRow(r), rows'[r].evaluation = rows[r].evaluation,
           rows[r].analysis = "none" => rows'[r].analysis = "none"
    PROVE  /\ \A s \in Tasks : KeepsRows(s)
           /\ KeepsEvaluations
BY DEF EditsRow, KeepsRows, KeepsEvaluations, Untouched

\* The row in hand is the only one of its event: touching it disturbs no other.
LEMMA TouchedRowKept ==
    ASSUME Once, TypeOK', load' = load, NEW t \in Tasks, task[t].pc \in HoldsRow, task[t].row \in DOMAIN rows,
           EditsRow(task[t].row), rows'[task[t].row].evaluation # "none"
    PROVE  /\ \A s \in Tasks \ {t} : KeepsRows(s)
           /\ KeepsEvaluations
           /\ \A i \in Pos : RowsOf(t, i)' = RowsOf(t, i) /\ Shape(t, i)'
<1> DEFINE h == task[t].row
<1>1. TypeOK /\ RowsFit(t) /\ task[t].at \in Pos
  BY TaskFields DEF Once
<1>2. RowsOf(t, task[t].at) = {h}
  BY <1>1 DEF RowsFit, Hands
<1>3. rows[h].task = t /\ rows[h].at = task[t].at
  BY <1>2 DEF RowsOf
<1>4. /\ \A s \in Tasks \ {t} : KeepsRows(s)
      /\ KeepsEvaluations
  BY <1>3 DEF EditsRow, KeepsRows, KeepsEvaluations, Untouched
<1>5. ASSUME NEW i \in Pos PROVE RowsOf(t, i)' = RowsOf(t, i) /\ Shape(t, i)'
  <2>1. RowsOf(t, i)' = RowsOf(t, i)
    BY DEF RowsOf, EditsRow
  <2>2. CASE i = task[t].at
    BY <1>2, <2>1, <2>2 DEF Shape, EditsRow
  <2>3. CASE i # task[t].at
    <3>1. \A p \in RowsOf(t, i) : p \in DOMAIN rows' /\ (Untouched(p) => Untouched(p)')
      BY <1>3, <2>3 DEF RowsOf, EditsRow, Untouched
    <3>2. Shape(t, i) /\ Via(t)' = Via(t)
      BY <1>1 DEF RowsFit, Via
    <3> QED BY <2>1, <3>1, <3>2 DEF Shape, EditsRow
  <2> QED BY <2>1, <2>2, <2>3
<1> QED BY <1>4, <1>5

\* The rows of a task whose rows are kept still fit when what it has in hand does.
LEMMA RowsFitKept ==
    ASSUME Once, TypeOK', load' = load, NEW t \in Tasks, KeepsRows(t),
           task'[t].at \in {task[t].at, task[t].at + 1}, NEW at \in Pos, at = task'[t].at, Hands(t, at)'
    PROVE  RowsFit(t)'
<1>1. TypeOK /\ RowsFit(t) /\ task[t].at \in Pos
  BY TaskFields DEF Once
<1>2. \A i \in Pos : RowsOf(t, i)' = RowsOf(t, i) /\ (Shape(t, i) => Shape(t, i)')
  BY <1>1, RowsKept
<1>3. \A i \in Pos : i > task'[t].at => i > task[t].at
  BY <1>1 DEF Pos
<1> QED BY <1>1, <1>2, <1>3 DEF RowsFit

\* Between the refresh and the end of the evaluation the row stays in hand.
LEMMA StaysInHand ==
    ASSUME Once, TypeOK', load' = load, NEW t \in Tasks, rows' = rows, SameEvent(t),
           task[t].pc \in HoldsRow, task'[t].pc \in HoldsRow \ {"refreshing"}
    PROVE  RowsFit(t)'
<1>1. TypeOK /\ RowsFit(t)
  BY DEF Once
<1>2. PICK at \in Pos : at = task[t].at
  BY <1>1, TaskFields
<1>3. RowsOf(t, at) = {task[t].row}
  BY <1>1, <1>2 DEF RowsFit, Hands
<1>4. Hands(t, at)'
  BY <1>3 DEF Hands, SameEvent, RowsOf, HoldsRow
<1>5. KeepsRows(t) /\ task'[t].at = at
  BY <1>2, SameRowsKept DEF SameEvent
<1> QED BY <1>2, <1>4, <1>5, RowsFitKept

LEMMA OnceAccept ==
    ASSUME Once, TypeOK', NEW t \in Tasks, Accept(t) \/ DropUnparsed(t)
    PROVE  Once'
<1>0. TypeOK /\ RowsFit(t)
  BY DEF Once
<1>1. PICK at \in Pos : at = task[t].at
  BY <1>0, TaskFields
<1>2. /\ Moves(t) /\ SameEvent(t) /\ UNCHANGED <<load, rows, alerts>>
      /\ task[t].pc = "absent" /\ task'[t].pc \in {"saving", "ended"}
  BY <1>0, AcceptMoves
<1>3. RowsOf(t, at) = {}
  BY <1>0, <1>1, <1>2 DEF RowsFit, Hands
<1>4. Hands(t, at)'
  BY <1>2, <1>3 DEF Hands, HoldsRow, RowsOf
<1>5. RowsFit(t)'
  BY <1>1, <1>2, <1>4, SameRowsKept, RowsFitKept DEF SameEvent
<1>6. AlertsFit(t)' /\ KeepsAlerts
  BY <1>2 DEF AlertsFit, HoldsRow, KeepsAlerts
<1> QED BY <1>2, <1>5, <1>6, SameRowsKept, TaskOnce

LEMMA OnceSave ==
    ASSUME Once, TypeOK', NEW t \in Tasks, Save(t) \/ SaveFallback(t)
    PROVE  Once'
<1>1. TypeOK /\ RowsFit(t)
  BY DEF Once
<1>2. PICK at \in Pos : at = task[t].at
  BY <1>1, TaskFields
<1>3. PICK new \in Nat : new = Len(rows) + 1
  BY <1>1, SaveMoves DEF AddsRow
<1>4. /\ Moves(t) /\ AddsRow(t) /\ UNCHANGED <<load, alerts>>
      /\ task'[t].row = new /\ task'[t].at = at
      /\ \/ task[t].pc = "saving" /\ task'[t].pc = "refreshing"
         \/ task[t].pc = "fallback" /\ task'[t].pc = "fallback_refreshing"
  BY <1>1, <1>2, <1>3, SaveMoves
<1>5. /\ NewRow(t).task = t /\ NewRow(t).at = at /\ NewRow(t).evaluation = "none" /\ NewRow(t).analysis = "none"
  BY <1>2 DEF NewRow
<1>6. /\ new \in DOMAIN rows' /\ new \notin DOMAIN rows /\ new \in Nat /\ Untouched(new)'
      /\ \A p \in DOMAIN rows : p < new /\ p \in DOMAIN rows' /\ (Untouched(p) => Untouched(p)')
  BY <1>4, <1>5, <1>3 DEF AddsRow, Untouched
<1>7. /\ RowsOf(t, at)' = RowsOf(t, at) \cup {new}
      /\ \A i \in Pos \ {at} : RowsOf(t, i)' = RowsOf(t, i)
  BY <1>4, <1>5, <1>3 DEF RowsOf, AddsRow
<1>8. Hands(t, at) /\ Via(t)' = Via(t)
  BY <1>1, <1>4, <1>2 DEF RowsFit, Via
<1>9. Shape(t, at)' /\ Hands(t, at)'
  <2>1. CASE task[t].pc = "saving"
    <3>1. RowsOf(t, at)' = {new}
      BY <1>7, <1>8, <2>1 DEF Hands
    <3> QED BY <1>4, <1>6, <2>1, <3>1 DEF Shape, Hands, HoldsRow
  <2>2. CASE task[t].pc = "fallback"
    <3>1. Hands(t, at)'
      BY <1>4, <2>2 DEF Hands, HoldsRow
    <3>2. /\ Via(t) = "rest"
          /\ \/ RowsOf(t, at) = {}
             \/ \E p \in DOMAIN rows : RowsOf(t, at) = {p} /\ Untouched(p)
      BY <1>8, <2>2 DEF Hands
    <3>3. CASE RowsOf(t, at) = {}
      <4>1. RowsOf(t, at)' = {new}
        BY <1>7, <3>3
      <4> QED BY <1>6, <3>1, <4>1 DEF Shape
    <3>4. ASSUME NEW p \in DOMAIN rows, RowsOf(t, at) = {p}, Untouched(p) PROVE Shape(t, at)'
      <4>1. RowsOf(t, at)' = {p, new}
        BY <1>7, <3>4
      <4> QED BY <1>6, <1>8, <3>2, <3>4, <4>1 DEF Shape
    <3> QED BY <3>1, <3>2, <3>3, <3>4
  <2> QED BY <1>4, <2>1, <2>2
<1>10. \A i \in Pos \ {at} : Shape(t, i)'
  BY <1>1, <1>6, <1>7, <1>8 DEF RowsFit, Shape
<1>11. RowsFit(t)'
  BY <1>1, <1>4, <1>7, <1>9, <1>10, <1>2 DEF RowsFit, Pos
<1>12. AlertsFit(t)' /\ KeepsAlerts
  BY <1>4 DEF AlertsFit, HoldsRow, KeepsAlerts
<1> QED BY <1>4, <1>11, <1>12, AddedRowKept, TaskOnce

LEMMA OnceRefresh ==
    ASSUME Once, TypeOK', NEW t \in Tasks, Refresh(t)
    PROVE  Once'
<1>1. TypeOK /\ RowsFit(t) /\ AlertsOfRows
  BY DEF Once
<1>2. PICK at \in Pos : at = task[t].at
  BY <1>1, TaskFields
<1>3. PICK row \in DOMAIN rows : row = task[t].row
  BY <1>1, RefreshMoves
<1>4. /\ Moves(t) /\ SameEvent(t) /\ UNCHANGED <<load, alerts>>
      /\ task[t].pc = "refreshing" /\ task'[t].pc = "evaluating"
      /\ EditsRow(row) /\ rows'[row].evaluation = "begun"
  BY <1>1, <1>3, RefreshMoves
<1>5. RowsOf(t, at) = {row} /\ rows[row].evaluation = "none"
  BY <1>1, <1>2, <1>3, <1>4 DEF RowsFit, Hands, HoldsRow, Untouched
<1>6. /\ \A s \in Tasks \ {t} : KeepsRows(s)
      /\ KeepsEvaluations
      /\ \A i \in Pos : RowsOf(t, i)' = RowsOf(t, i) /\ Shape(t, i)'
  BY <1>3, <1>4, TouchedRowKept DEF HoldsRow
<1>7. RowsFit(t)'
  <2>1. Hands(t, at)'
    BY <1>3, <1>4, <1>5, <1>6 DEF Hands, HoldsRow, SameEvent
  <2>2. task'[t].at = at
    BY <1>2, <1>4 DEF SameEvent
  <2> QED BY <1>1, <1>2, <1>6, <2>1, <2>2 DEF RowsFit
<1>8. AlertsFit(t)'
  <2>1. \A a \in DOMAIN alerts : alerts[a].row # row
    BY <1>1, <1>5 DEF AlertsOfRows
  <2>2. task'[t].row = row
    BY <1>3, <1>4 DEF SameEvent
  <2> QED BY <1>4, <2>1, <2>2 DEF AlertsFit
<1>9. KeepsAlerts
  BY <1>4 DEF KeepsAlerts
<1> QED BY <1>4, <1>6, <1>7, <1>8, <1>9, TaskOnce

LEMMA OnceEnd ==
    ASSUME Once, TypeOK', NEW t \in Tasks, EvaluationEnds(t) \/ \E k \in RuleNumbers : EvaluationRaises(t, k)
    PROVE  Once'
<1>1. TypeOK /\ RowsFit(t)
  BY DEF Once
<1>2. PICK at \in Pos : at = task[t].at
  BY <1>1, TaskFields
<1>3. PICK row \in DOMAIN rows : row = task[t].row
  BY <1>1, EndMoves
<1>4. /\ Moves(t) /\ UNCHANGED <<load, alerts>> /\ task[t].pc = "evaluating"
      /\ EditsRow(row) /\ rows'[row].evaluation # "none"
      /\ \/ task'[t] = Return(t, TRUE)
         \/ SameEvent(t) /\ task'[t].pc = "failed"
  BY <1>1, <1>3, EndMoves
<1>5. /\ task'[t].pc \in {"ended", "answered", "saving", "failed"}
      /\ task'[t].at = IF task'[t].pc = "saving" THEN at + 1 ELSE at
  BY <1>1, <1>2, <1>4, ReturnFields DEF SameEvent, HoldsRow, HoldsAlert
<1>6. /\ \A s \in Tasks \ {t} : KeepsRows(s)
      /\ KeepsEvaluations
      /\ \A i \in Pos : RowsOf(t, i)' = RowsOf(t, i) /\ Shape(t, i)'
  BY <1>3, <1>4, TouchedRowKept DEF HoldsRow
<1>7. RowsFit(t)'
  <2>1. \A i \in Pos : i > task'[t].at => i > at
    BY <1>5 DEF Pos
  <2>2. ASSUME NEW i \in Pos, i = task'[t].at PROVE Hands(t, i)'
    <3>1. CASE task'[t].pc = "saving"
      <4>1. i > at
        BY <1>5, <2>2, <3>1 DEF Pos
      <4>2. RowsOf(t, i)' = {}
        BY <1>1, <1>2, <1>6, <4>1 DEF RowsFit
      <4> QED BY <3>1, <4>2 DEF Hands, HoldsRow
    <3>2. CASE task'[t].pc # "saving"
      BY <1>5, <3>2 DEF Hands, HoldsRow
    <3> QED BY <3>1, <3>2
  <2> QED BY <1>1, <1>2, <1>6, <2>1, <2>2 DEF RowsFit
<1>8. AlertsFit(t)' /\ KeepsAlerts
  BY <1>4, <1>5 DEF AlertsFit, HoldsRow, KeepsAlerts
<1> QED BY <1>4, <1>6, <1>7, <1>8, TaskOnce

LEMMA OnceFail ==
    ASSUME Once, TypeOK', NEW t \in Tasks, SaveFails(t) \/ RefreshFails(t)
    PROVE  Once'
<1>1. TypeOK /\ RowsFit(t)
  BY DEF Once
<1>2. PICK at \in Pos : at = task[t].at
  BY <1>1, TaskFields
<1>3. /\ Moves(t) /\ UNCHANGED <<load, rows, alerts>> /\ task[t].pc \in {"saving", "refreshing"}
      /\ task'[t] = Return(t, FALSE)
  BY <1>1, FailMoves
<1>4. /\ task'[t].pc \in {"ended", "answered", "fallback", "saving"}
      /\ task'[t].pc = "fallback" => Via(t) = "rest"
      /\ task'[t].at = IF task'[t].pc = "saving" THEN at + 1 ELSE at
  BY <1>1, <1>2, <1>3, ReturnFields DEF HoldsRow, HoldsAlert
<1>5. PICK i \in Pos : i = task'[t].at
  BY <1>2, <1>4 DEF Pos
<1>6. \/ RowsOf(t, at) = {}
      \/ \E p \in DOMAIN rows : RowsOf(t, at) = {p} /\ Untouched(p)
  <2>1. Hands(t, at)
    BY <1>1, <1>2 DEF RowsFit
  <2>2. CASE task[t].pc = "saving"
    BY <2>1, <2>2 DEF Hands
  <2>3. CASE task[t].pc = "refreshing"
    <3>1. task[t].row \in DOMAIN rows
      BY <1>1, <2>3 DEF TypeOK, InHand, HoldsRow
    <3> QED BY <2>1, <2>3, <3>1 DEF Hands, HoldsRow
  <2> QED BY <1>3, <2>2, <2>3
<1>7. Hands(t, i)'
  <2>1. CASE task'[t].pc = "saving"
    <3>1. i > at
      BY <1>4, <1>5, <2>1 DEF Pos
    <3>2. RowsOf(t, i)' = {}
      BY <1>1, <1>2, <1>3, <3>1 DEF RowsFit, RowsOf
    <3> QED BY <2>1, <3>2 DEF Hands, HoldsRow
  <2>2. CASE task'[t].pc = "fallback"
    <3>1. i = at /\ Via(t)' = "rest"
      BY <1>3, <1>4, <1>5, <2>2 DEF Via
    <3>2. RowsOf(t, i)' = RowsOf(t, at) /\ \A p \in DOMAIN rows : Untouched(p)' = Untouched(p)
      BY <1>3, <3>1 DEF RowsOf, Untouched
    <3> QED BY <1>3, <1>6, <2>2, <3>1, <3>2 DEF Hands, HoldsRow
  <2>3. CASE task'[t].pc \in {"ended", "answered"}
    BY <2>3 DEF Hands, HoldsRow
  <2> QED BY <1>4, <2>1, <2>2, <2>3
<1>8. RowsFit(t)'
  BY <1>2, <1>3, <1>4, <1>5, <1>7, SameRowsKept, RowsFitKept
<1>9. AlertsFit(t)' /\ KeepsAlerts
  BY <1>3, <1>4 DEF AlertsFit, HoldsRow, KeepsAlerts
<1> QED BY <1>3, <1>8, <1>9, SameRowsKept, TaskOnce

LEMMA OnceFallback ==
    ASSUME Once, TypeOK', NEW t \in Tasks, AnswerFallback(t) \/ FallbackFails(t)
    PROVE  Once'
<1>1. TypeOK
  BY DEF Once
<1>2. PICK at \in Pos : at = task[t].at
  BY <1>1, TaskFields
<1>3. /\ Moves(t) /\ SameEvent(t) /\ UNCHANGED <<load, alerts>> /\ task'[t].pc \in {"answered", "failed"}
  BY <1>1, FallbackMoves
<1>4. /\ \A s \in Tasks : KeepsRows(s)
      /\ KeepsEvaluations
  <2>1. CASE rows' = rows
    BY <2>1, SameRowsKept
  <2>2. CASE rows' # rows
    <3>1. PICK r \in DOMAIN rows : /\ EditsRow(r) /\ rows'[r].evaluation = rows[r].evaluation
                                   /\ rows'[r].analysis = rows[r].analysis
      BY <1>1, <2>2, FallbackMoves
    <3> QED BY <3>1, QuietRowKept
  <2> QED BY <2>1, <2>2
<1>5. Hands(t, at)' /\ AlertsFit(t)'
  BY <1>3 DEF Hands, AlertsFit, HoldsRow
<1>6. RowsFit(t)'
  BY <1>2, <1>3, <1>4, <1>5, RowsFitKept DEF SameEvent
<1>7. KeepsAlerts
  BY <1>3 DEF KeepsAlerts
<1> QED BY <1>3, <1>4, <1>5, <1>6, <1>7, TaskOnce

\* The steps between the refresh and the end of the evaluation that add no alert.
LEMMA OnceInHand ==
    ASSUME Once, TypeOK', NEW t \in Tasks, Moves(t), SameEvent(t), UNCHANGED <<load, rows>>, KeepsAlerts,
           task[t].pc \in HoldsRow \ {"refreshing"}, task'[t].pc \in HoldsRow \ {"refreshing"},
           \/ task'[t].rule > task[t].rule
           \/ /\ task'[t].rule = task[t].rule
              /\ task'[t].pc \in {"evaluating", "inserting"} => task[t].pc \in {"evaluating", "inserting"}
    PROVE  Once'
<1>1. RowsFit(t)'
  BY StaysInHand
<1>2. /\ rows[task[t].row].evaluation # "none"
      /\ \A a \in DOMAIN alerts : alerts[a].row = task[t].row =>
               /\ alerts[a].rule <= task[t].rule
               /\ task[t].pc \in {"evaluating", "inserting"} => alerts[a].rule < task[t].rule
  BY DEF Once, AlertsFit
<1>3. /\ task[t].rule \in Nat /\ task'[t].rule \in Nat
      /\ \A a \in DOMAIN alerts : alerts[a].rule \in Nat
  <2>1. TypeOK /\ task' \in [Tasks -> TaskStates] /\ \A a \in DOMAIN alerts : alerts[a] \in AlertStates
    BY AlertFields DEF Once, TypeOK
  <2> QED BY <2>1, TaskFields DEF TaskStates, AlertStates, Pos
<1>4. ASSUME NEW a \in DOMAIN alerts, alerts[a].row = task[t].row
      PROVE  /\ alerts[a].rule <= task'[t].rule
             /\ task'[t].pc \in {"evaluating", "inserting"} => alerts[a].rule < task'[t].rule
  BY <1>2, <1>3, <1>4
<1>5. AlertsFit(t)'
  BY <1>2, <1>4 DEF AlertsFit, KeepsAlerts, SameEvent
<1> QED BY <1>1, <1>5, SameRowsKept, TaskOnce

LEMMA OnceInsert ==
    ASSUME Once, TypeOK', NEW t \in Tasks, InsertAlert(t)
    PROVE  Once'
<1>1. TypeOK /\ RowsFit(t) /\ AlertsFit(t) /\ AlertsOfRows /\ AlertedOnce
  BY DEF Once
<1>2. PICK at \in Pos : at = task[t].at
  BY <1>1, TaskFields
<1>3. PICK new \in Nat : new = Len(alerts) + 1
  BY <1>1, InsertMoves DEF AddsAlert, Pos
<1>4. /\ Moves(t) /\ SameEvent(t) /\ UNCHANGED <<load, rows>>
      /\ task[t].pc = "inserting" /\ task'[t].pc = "rereading" /\ task'[t].rule = task[t].rule
      /\ DOMAIN alerts' = DOMAIN alerts \cup {new} /\ new \notin DOMAIN alerts
      /\ \A a \in DOMAIN alerts : alerts'[a] = alerts[a]
      /\ alerts'[new].row = task[t].row /\ alerts'[new].rule = task[t].rule
  <2>1. AddsAlert(t)
    BY <1>1, InsertMoves
  <2>2. alerts'[new].row = task[t].row /\ alerts'[new].rule = task[t].rule
    BY <1>3, <2>1 DEF AddsAlert
  <2>3. /\ DOMAIN alerts' = DOMAIN alerts \cup {new} /\ new \notin DOMAIN alerts
        /\ \A a \in DOMAIN alerts : alerts'[a] = alerts[a]
    BY <1>3, <2>1 DEF AddsAlert
  <2> QED BY <1>1, <2>2, <2>3, InsertMoves
<1>5. RowsOf(t, at) = {task[t].row}
  BY <1>1, <1>2, <1>4 DEF RowsFit, Hands, HoldsRow
<1>6. task[t].row \in DOMAIN rows /\ rows[task[t].row].task = t /\ rows[task[t].row].evaluation # "none"
  BY <1>1, <1>4, <1>5 DEF RowsOf, AlertsFit, HoldsRow
<1>7. \A a \in DOMAIN alerts : alerts[a].row = task[t].row => alerts[a].rule < task[t].rule
  BY <1>1, <1>4 DEF AlertsFit, HoldsRow
<1>8. /\ task[t].rule \in Nat
      /\ \A a \in DOMAIN alerts : alerts[a].rule \in Nat
  <2>1. \A a \in DOMAIN alerts : alerts[a] \in AlertStates
    BY <1>1, AlertFields
  <2> QED BY <1>1, <2>1, TaskFields DEF AlertStates, Pos
<1>9. ASSUME NEW s \in Tasks, s # t PROVE RowsFit(s)' /\ AlertsFit(s)'
  <2>1. KeepsRows(s) /\ task'[s] = task[s]
    BY <1>4, <1>9, SameRowsKept DEF Moves
  <2>2. ASSUME NEW a \in DOMAIN alerts'
        PROVE  \/ /\ a \in DOMAIN alerts
                  /\ alerts'[a].row = alerts[a].row /\ alerts'[a].rule = alerts[a].rule
               \/ alerts'[a].row \in DOMAIN rows /\ rows[alerts'[a].row].task # s
    BY <1>4, <1>6, <1>9, <2>2
  <2> QED BY <1>4, <2>1, <2>2, OthersKeep DEF SameEvent
<1>10. RowsFit(t)'
  BY <1>4, StaysInHand DEF HoldsRow
<1>11. AlertsFit(t)'
  BY <1>4, <1>6, <1>7, <1>8 DEF AlertsFit, SameEvent, HoldsRow
<1>12. AlertsOfRows'
  BY <1>1, <1>4, <1>6 DEF AlertsOfRows
<1>13. AlertedOnce'
  <2> SUFFICES ASSUME NEW a \in DOMAIN alerts', NEW b \in DOMAIN alerts',
                      alerts'[a].row = alerts'[b].row, alerts'[a].rule = alerts'[b].rule
               PROVE  a = b
    BY DEF AlertedOnce
  <2>1. CASE a \in DOMAIN alerts /\ b \in DOMAIN alerts
    BY <1>1, <1>4, <2>1 DEF AlertedOnce
  <2>2. CASE a = new /\ b \in DOMAIN alerts
    BY <1>4, <1>7, <1>8, <2>2
  <2>3. CASE b = new /\ a \in DOMAIN alerts
    BY <1>4, <1>7, <1>8, <2>3
  <2> QED BY <1>4, <2>1, <2>2, <2>3
<1> QED BY <1>9, <1>10, <1>11, <1>12, <1>13 DEF Once

LEMMA OnceTask ==
    ASSUME Once, TypeOK', NEW t \in Tasks, Accept(t) \/ DropUnparsed(t) \/ TaskStep(t) \/ TaskFails(t)
    PROVE  Once'
<1>0. TypeOK
  BY DEF Once
<1>1. ASSUME NEW k \in RuleNumbers, Match(t, k) PROVE Once'
  <2>1. /\ Moves(t) /\ SameEvent(t) /\ UNCHANGED <<load, rows, alerts>>
        /\ task[t].pc = "evaluating" /\ task'[t].pc = "inserting" /\ task[t].rule <= k /\ task'[t].rule = k
    BY <1>0, <1>1, MatchMoves
  <2>2. k \in Nat /\ task[t].rule \in Nat
    BY <1>0, LoadFacts, TaskFields DEF Pos
  <2> QED BY <2>1, <2>2, OnceInHand DEF HoldsRow, KeepsAlerts
<1>2. CASE RereadAlert(t)
  BY <1>0, <1>2, RereadMoves, OnceInHand DEF HoldsRow, KeepsAlerts, EditsAlert
<1>3. ASSUME NEW c \in Channels, Send(t, c) \/ SendFails(t, c) PROVE Once'
  BY <1>0, <1>3, SendMoves, OnceInHand DEF HoldsRow, KeepsAlerts, EditsAlert
<1>4. CASE InsertFails(t) \/ RereadFails(t) \/ Announced(t)
  <2>1. /\ Moves(t) /\ SameEvent(t) /\ UNCHANGED <<load, rows, alerts>>
        /\ task'[t].pc = "evaluating" /\ task[t].pc \in {"inserting", "rereading", "notifying"}
        /\ task'[t].rule = task[t].rule + 1
    BY <1>0, <1>4, RuleMoves
  <2>2. task'[t].rule > task[t].rule
    BY <1>0, <2>1, TaskFields DEF Pos
  <2> QED BY <2>1, <2>2, OnceInHand DEF HoldsRow, KeepsAlerts
<1> QED BY <1>1, <1>2, <1>3, <1>4, OnceAccept, OnceSave, OnceRefresh, OnceEnd, OnceFail, OnceFallback,
           OnceInsert DEF TaskStep, TaskFails

LEMMA OnceNext == Once /\ [Next]_vars => Once'
<1> SUFFICES ASSUME Once, [Next]_vars PROVE Once'
  OBVIOUS
<1>0. TypeOK /\ TypeOK'
  BY NextTyped DEF Once
<1>1. ASSUME NEW t \in Tasks, Accept(t) \/ DropUnparsed(t) \/ TaskStep(t) \/ TaskFails(t) PROVE Once'
  BY <1>0, <1>1, OnceTask
<1>2. ASSUME load' = load, alerts' = alerts, \A s \in Tasks : KeepsRows(s),
             \A s \in Tasks : SameEvent(s) /\ task'[s].rule = task[s].rule
                              /\ (task'[s].pc = task[s].pc \/ task'[s].pc = "lost"),
             KeepsEvaluations
      PROVE  Once'
  <2>1. \A s \in Tasks : RowsFit(s)' /\ AlertsFit(s)'
    BY <1>0, <1>2, OthersKeep
  <2>2. AlertsOfRows' /\ AlertedOnce'
    BY <1>2 DEF Once, AlertsOfRows, AlertedOnce, KeepsEvaluations
  <2> QED BY <1>0, <2>1, <2>2 DEF Once
<1>3. ASSUME NEW r \in DOMAIN rows, AnalysisStep(r) PROVE Once'
  <2>1. /\ UNCHANGED <<load, task, alerts>> /\ EditsRow(r) /\ rows'[r].evaluation = rows[r].evaluation
        /\ rows[r].analysis # "none"
    BY <1>0, <1>3, AnalysisMoves
  <2>2. /\ \A s \in Tasks : KeepsRows(s)
        /\ KeepsEvaluations
    BY <2>1, QuietRowKept
  <2> QED BY <1>2, <2>1, <2>2 DEF SameEvent
<1>4. CASE Stop \/ Crash
  <2>1. /\ UNCHANGED <<load, alerts>> /\ \A s \in Tasks : LostTask(s)
        /\ DOMAIN rows' = DOMAIN rows /\ \A r \in DOMAIN rows : LostRow(r)
    BY <1>0, <1>4, DiesMoves DEF Stop, Crash
  <2>2. \A s \in Tasks : KeepsRows(s)
    BY <2>1 DEF KeepsRows, LostRow, Untouched
  <2> QED BY <1>2, <2>1, <2>2 DEF LostTask, LostRow, KeepsEvaluations
<1>5. CASE Terminate \/ Restart \/ UNCHANGED vars
  <2>1. UNCHANGED <<load, task, rows, alerts>>
    BY <1>5 DEF Terminate, Restart, vars
  <2> QED BY <1>2, <2>1, SameRowsKept DEF SameEvent
<1> QED BY <1>1, <1>3, <1>4, <1>5 DEF Next

\* Every event is stored once, or a second time by the fallback of POST /api/events
\* when the pipeline could not read the first row back; no row raises two alerts of
\* one rule and no event is evaluated or analysed through two rows, however often
\* the database fails and the process restarts.
THEOREM EffectsNeverDouble == Spec => []EffectsOnce
<1>1. Init => Once
  BY InitOnce
<1>2. Once /\ [Next]_vars => Once'
  BY OnceNext
<1>3. Once => EffectsOnce
  BY OnceImpliesEffects
<1> QED BY <1>1, <1>2, <1>3, PTL DEF Spec

-----------------------------------------------------------------------------
(* EveryTargetTried.  An alert belongs to the task that stored it until the  *)
(* callback returns; while it is announced, the notifiers tried are the      *)
(* targets before the channel in hand.                                       *)

Tried(a) == alerts[a].told \cup alerts[a].refused
TargetsBelow(k, channel) == { c \in Targets(k) : c < channel }

Telling(t) ==
    /\ task[t].pc \notin HoldsAlert \cup {"lost"} => task[t].alert = 0 /\ task[t].channel = 1
    /\ task[t].alert \in {0} \cup DOMAIN alerts
    /\ task[t].pc \in HoldsAlert => alerts[task[t].alert].rule = task[t].rule
    /\ task[t].pc = "rereading" =>
           /\ ~ alerts[task[t].alert].announced
           /\ Tried(task[t].alert) = {} /\ task[t].channel = 1
    /\ task[t].pc = "notifying" =>
           \A k, c \in Pos : k = task[t].rule /\ c = task[t].channel =>
               Tried(task[t].alert) = TargetsBelow(k, c)

Told(a) ==
    \A k \in Pos : k = alerts[a].rule =>
        /\ Tried(a) \subseteq Targets(k)
        /\ alerts[a].told \cap alerts[a].refused = {}
        /\ ((\A t \in Tasks : task[t].alert # a) /\ alerts[a].announced) => Tried(a) = Targets(k)

OwnAlerts == \A s, t \in Tasks : s # t /\ task[s].alert = task[t].alert => task[s].alert = 0

Heard ==
    /\ TypeOK /\ OwnAlerts
    /\ \A t \in Tasks : Telling(t)
    /\ \A a \in DOMAIN alerts : Told(a)

LEMMA TargetsStay ==
    ASSUME load' = load
    PROVE  \A k, c \in Pos : Targets(k)' = Targets(k) /\ TargetsBelow(k, c)' = TargetsBelow(k, c)
BY DEF Targets, TargetsBelow, Channels

\* A task whose alert nobody writes.
LEMMA TellingKept ==
    ASSUME Heard, load' = load, NEW s \in Tasks, SameAlert(s), task'[s].rule = task[s].rule,
           task'[s].pc = task[s].pc \/ (task'[s].pc = "lost"),
           DOMAIN alerts \subseteq DOMAIN alerts',
           task[s].alert # 0 => alerts'[task[s].alert] = alerts[task[s].alert]
    PROVE  Telling(s)'
<1>1. Telling(s) /\ InHand(s)
  BY DEF Heard, TypeOK
<1>2. 0 \notin DOMAIN alerts
  BY DEF Heard, TypeOK
<1>3. task[s].pc \in HoldsAlert => task[s].alert # 0
  BY <1>1, <1>2 DEF InHand
<1>4. "lost" \notin HoldsAlert /\ "lost" # "rereading" /\ "lost" # "notifying"
      /\ "rereading" \in HoldsAlert /\ "notifying" \in HoldsAlert
  BY DEF HoldsAlert
<1> QED BY <1>1, <1>3, <1>4, TargetsStay DEF Telling, Tried, SameAlert

\* An alert nobody writes and nobody lets go.
LEMMA ToldKept ==
    ASSUME Heard, load' = load, NEW a \in DOMAIN alerts, alerts'[a] = alerts[a],
           (\A t \in Tasks : task'[t].alert # a) => \A t \in Tasks : task[t].alert # a
    PROVE  Told(a)'
<1>1. Told(a)
  BY DEF Heard
<1> QED BY <1>1, TargetsStay DEF Told, Tried

\* The steps of a task that announces nothing.
LEMMA QuietHeard ==
    ASSUME Heard, TypeOK', load' = load, alerts' = alerts, NEW t \in Tasks, Moves(t),
           task[t].pc \notin HoldsAlert \cup {"lost"}, task'[t].pc \notin HoldsAlert \cup {"lost"},
           task'[t].alert \in {task[t].alert, 0}, task'[t].channel \in {task[t].channel, 1}
    PROVE  Heard'
<1>1. task[t].alert = 0 /\ task[t].channel = 1
  BY DEF Heard, Telling
<1>2. \A s \in Tasks : SameAlert(s) /\ (s # t => task'[s] = task[s])
  BY <1>1 DEF SameAlert, Moves
<1>3. ASSUME NEW s \in Tasks PROVE Telling(s)'
  <2>1. CASE s = t
    BY <1>1, <1>2, <2>1 DEF Telling, SameAlert, HoldsAlert
  <2>2. CASE s # t
    BY <1>2, <2>2, TellingKept
  <2> QED BY <2>1, <2>2
<1>4. \A a \in DOMAIN alerts : Told(a)'
  BY <1>2, ToldKept DEF SameAlert
<1>5. OwnAlerts'
  BY <1>2 DEF Heard, OwnAlerts, SameAlert
<1> QED BY <1>3, <1>4, <1>5 DEF Heard

\* The alert is stored.
LEMMA HeardInsert ==
    ASSUME Heard, TypeOK', NEW t \in Tasks, InsertAlert(t)
    PROVE  Heard'
<1>1. TypeOK /\ Telling(t) /\ OwnAlerts
  BY DEF Heard
<1>2. PICK new \in Pos : new = Len(alerts) + 1
  BY <1>1, InsertMoves DEF AddsAlert
<1>3. /\ Moves(t) /\ load' = load /\ task[t].pc = "inserting" /\ task'[t].pc = "rereading"
      /\ task'[t].rule = task[t].rule /\ task'[t].channel = task[t].channel /\ task'[t].alert = new
  BY <1>1, <1>2, InsertMoves
<1>4. /\ DOMAIN alerts' = DOMAIN alerts \cup {new} /\ new \notin DOMAIN alerts
      /\ \A a \in DOMAIN alerts : alerts'[a] = alerts[a]
      /\ alerts'[new].rule = task[t].rule /\ ~ alerts'[new].announced
      /\ alerts'[new].told = {} /\ alerts'[new].refused = {}
  <2>1. AddsAlert(t)
    BY <1>1, InsertMoves
  <2>2. /\ alerts'[new].rule = task[t].rule /\ ~ alerts'[new].announced
        /\ alerts'[new].told = {} /\ alerts'[new].refused = {}
    BY <1>2, <2>1 DEF AddsAlert
  <2>3. /\ DOMAIN alerts' = DOMAIN alerts \cup {new} /\ new \notin DOMAIN alerts
        /\ \A a \in DOMAIN alerts : alerts'[a] = alerts[a]
    BY <1>2, <2>1 DEF AddsAlert
  <2> QED BY <2>2, <2>3
<1>5. /\ task[t].alert = 0 /\ task[t].channel = 1 /\ 0 \notin DOMAIN alerts
      /\ \A s \in Tasks : task[s].alert \in {0} \cup DOMAIN alerts
  BY <1>1, <1>3 DEF Heard, Telling, HoldsAlert, TypeOK
<1>6. ASSUME NEW s \in Tasks, s # t PROVE Telling(s)' /\ task'[s] = task[s]
  <2>1. task'[s] = task[s] /\ SameAlert(s)
    BY <1>3, <1>6 DEF Moves, SameAlert
  <2>2. task[s].alert # 0 => alerts'[task[s].alert] = alerts[task[s].alert]
    BY <1>4, <1>5
  <2> QED BY <1>3, <1>4, <2>1, <2>2, TellingKept
<1>7. Telling(t)'
  BY <1>3, <1>4, <1>5 DEF Telling, HoldsAlert, Tried
<1>8. OwnAlerts'
  BY <1>1, <1>3, <1>4, <1>5, <1>6 DEF OwnAlerts
<1>9. \A a \in DOMAIN alerts : Told(a)'
  <2> TAKE a \in DOMAIN alerts
  <2>1. (\A s \in Tasks : task'[s].alert # a) => \A s \in Tasks : task[s].alert # a
    BY <1>5, <1>6
  <2> QED BY <1>3, <1>4, <2>1, ToldKept
<1>10. Told(new)'
  BY <1>3, <1>4 DEF Told, Tried
<1> QED BY <1>4, <1>6, <1>7, <1>8, <1>9, <1>10 DEF Heard

\* A task writes the alert it announces: no other task has it.
LEMMA AnnouncingHeard ==
    ASSUME Heard, TypeOK', load' = load, NEW t \in Tasks, Moves(t),
           NEW a \in DOMAIN alerts, a = task[t].alert, task'[t].alert = a, EditsAlert(a),
           Telling(t)', Told(a)'
    PROVE  Heard'
<1>1. a # 0 /\ OwnAlerts
  BY DEF Heard, TypeOK
<1>2. ASSUME NEW s \in Tasks, s # t PROVE Telling(s)' /\ task'[s] = task[s]
  <2>1. task'[s] = task[s] /\ SameAlert(s)
    BY <1>2 DEF Moves, SameAlert
  <2>2. task[s].alert # a
    BY <1>1, <1>2 DEF OwnAlerts
  <2>3. task[s].alert \in {0} \cup DOMAIN alerts
    BY DEF Heard, Telling
  <2> QED BY <2>1, <2>2, <2>3, TellingKept DEF EditsAlert
<1>3. ASSUME NEW b \in DOMAIN alerts, b # a PROVE Told(b)'
  <2>1. (\A s \in Tasks : task'[s].alert # b) => \A s \in Tasks : task[s].alert # b
    BY <1>2, <1>3
  <2> QED BY <1>3, <2>1, ToldKept DEF EditsAlert
<1>4. OwnAlerts'
  BY <1>1, <1>2 DEF OwnAlerts
<1> QED BY <1>2, <1>3, <1>4 DEF Heard, EditsAlert

LEMMA HeardReread ==
    ASSUME Heard, TypeOK', NEW t \in Tasks, RereadAlert(t)
    PROVE  Heard'
<1>1. TypeOK /\ Telling(t)
  BY DEF Heard
<1>2. PICK a \in DOMAIN alerts : a = task[t].alert
  BY <1>1, RereadMoves
<1>3. /\ Moves(t) /\ load' = load /\ task[t].pc = "rereading" /\ task'[t].pc = "notifying"
      /\ task'[t].rule = task[t].rule /\ task'[t].alert = a /\ task'[t].channel = task[t].channel
      /\ EditsAlert(a) /\ alerts'[a].announced
      /\ alerts'[a].told = alerts[a].told /\ alerts'[a].refused = alerts[a].refused
  BY <1>1, <1>2, RereadMoves DEF SameAlert
<1>4. /\ Tried(a) = {} /\ task[t].channel = 1 /\ alerts[a].rule = task[t].rule
  BY <1>1, <1>2, <1>3 DEF Telling, HoldsAlert
<1>5. Tried(a)' = {} /\ alerts'[a].rule = task[t].rule /\ DOMAIN alerts' = DOMAIN alerts
  BY <1>3, <1>4 DEF Tried, EditsAlert
<1>6. Telling(t)'
  <2>1. \A k \in Pos : TargetsBelow(k, 1)' = {}
    <3>1. \A c \in Channels : c \in Nat \ {0}
      BY <1>1, LoadFacts DEF Pos
    <3>2. Channels' = Channels
      BY DEF Channels
    <3> QED BY <3>1, <3>2 DEF TargetsBelow, Targets
  <2> QED BY <1>3, <1>4, <1>5, <2>1 DEF Telling, HoldsAlert
<1>7. Told(a)'
  <2>1. task'[t].alert = a /\ alerts[a].told \cap alerts[a].refused = {}
    BY <1>3, <1>4 DEF Tried
  <2> QED BY <1>3, <1>5, <2>1 DEF Told
<1> QED BY <1>2, <1>3, <1>6, <1>7, AnnouncingHeard

LEMMA HeardSend ==
    ASSUME Heard, TypeOK', NEW t \in Tasks, NEW c \in Channels, Send(t, c) \/ SendFails(t, c)
    PROVE  Heard'
<1>1. TypeOK /\ Telling(t)
  BY DEF Heard
<1>2. PICK a \in DOMAIN alerts : a = task[t].alert
  BY <1>1, SendMoves
<1>3. /\ Moves(t) /\ load' = load /\ task[t].pc = "notifying" /\ task'[t].pc = "notifying"
      /\ task'[t].rule = task[t].rule /\ task'[t].alert = a /\ task'[t].channel = c + 1
      /\ NextChannel(t, c) /\ EditsAlert(a) /\ alerts'[a].announced = alerts[a].announced
      /\ \/ alerts'[a].told = alerts[a].told \cup {c} /\ alerts'[a].refused = alerts[a].refused
         \/ alerts'[a].told = alerts[a].told /\ alerts'[a].refused = alerts[a].refused \cup {c}
  BY <1>1, <1>2, SendMoves
<1>4. PICK k, d \in Pos : k = task[t].rule /\ d = task[t].channel
  BY <1>1, TaskFields
<1>5. /\ Tried(a) = TargetsBelow(k, d) /\ alerts[a].rule = k
      /\ alerts[a].told \cap alerts[a].refused = {}
  <2>1. Tried(a) = TargetsBelow(k, d) /\ alerts[a].rule = k
    BY <1>1, <1>2, <1>3, <1>4 DEF Telling, HoldsAlert
  <2>2. Told(a)
    BY DEF Heard
  <2> QED BY <1>4, <2>1, <2>2 DEF Told
<1>6. /\ c \in Targets(k) /\ c >= d /\ \A e \in Targets(k) : e >= d => c <= e
      /\ c \in Nat /\ d \in Nat /\ Targets(k) \subseteq Nat /\ c + 1 \in Pos
  <2>1. \A e \in Channels : e \in Nat
    BY <1>1, LoadFacts DEF Pos
  <2>2. c \in Targets(k) /\ c >= d /\ \A e \in Targets(k) : e >= d => c <= e
    BY <1>3, <1>4 DEF NextChannel, Remaining
  <2> QED BY <1>4, <2>1, <2>2 DEF Targets, Pos
<1>7. /\ TargetsBelow(k, c + 1) = TargetsBelow(k, d) \cup {c} /\ c \notin TargetsBelow(k, d)
  BY <1>6 DEF TargetsBelow
<1>8. /\ Tried(a)' = TargetsBelow(k, c + 1) /\ alerts'[a].told \cap alerts'[a].refused = {}
      /\ alerts'[a].rule = k /\ DOMAIN alerts' = DOMAIN alerts
  <2>1. Tried(a)' = Tried(a) \cup {c}
    BY <1>3 DEF Tried
  <2>2. c \notin alerts[a].told /\ c \notin alerts[a].refused
    BY <1>5, <1>7 DEF Tried
  <2> QED BY <1>3, <1>5, <1>7, <2>1, <2>2 DEF EditsAlert
<1>9. TargetsBelow(k, c + 1)' = TargetsBelow(k, c + 1) /\ Targets(k)' = Targets(k)
  BY <1>3, <1>6, TargetsStay
<1>10. Telling(t)'
  BY <1>3, <1>4, <1>8, <1>9 DEF Telling, HoldsAlert
<1>11. Told(a)'
  <2>1. Tried(a)' \subseteq Targets(k)'
    BY <1>8, <1>9 DEF TargetsBelow
  <2> QED BY <1>3, <1>8, <2>1 DEF Told
<1> QED BY <1>2, <1>3, <1>10, <1>11, AnnouncingHeard

\* The callback returns: the task lets its alert go.
LEMMA HeardRule ==
    ASSUME Heard, TypeOK', NEW t \in Tasks, RereadFails(t) \/ Announced(t)
    PROVE  Heard'
<1>1. TypeOK /\ Telling(t) /\ OwnAlerts
  BY DEF Heard
<1>2. /\ Moves(t) /\ UNCHANGED <<load, alerts>> /\ task'[t].pc = "evaluating"
      /\ task'[t].alert = 0 /\ task'[t].channel = 1
      /\ \/ task[t].pc = "rereading"
         \/ task[t].pc = "notifying" /\ Remaining(t) = {}
  BY <1>1, RuleMoves
<1>3. PICK a \in DOMAIN alerts : a = task[t].alert
  BY <1>1, <1>2 DEF TypeOK, InHand, HoldsAlert
<1>4. ASSUME NEW s \in Tasks, s # t PROVE Telling(s)' /\ task'[s] = task[s]
  <2>1. task'[s] = task[s] /\ SameAlert(s)
    BY <1>2, <1>4 DEF Moves, SameAlert
  <2> QED BY <1>2, <2>1, TellingKept
<1>5. Telling(t)'
  BY <1>2 DEF Telling, HoldsAlert
<1>6. ASSUME NEW b \in DOMAIN alerts, b # a PROVE Told(b)'
  <2>1. (\A s \in Tasks : task'[s].alert # b) => \A s \in Tasks : task[s].alert # b
    BY <1>3, <1>4, <1>6
  <2> QED BY <1>2, <2>1, ToldKept
<1>7. Told(a)'
  <2>1. PICK k, d \in Pos : k = task[t].rule /\ d = task[t].channel
    BY <1>1, TaskFields
  <2>2. alerts[a].rule = k
    BY <1>1, <1>2, <1>3, <2>1 DEF Telling, HoldsAlert
  <2>3. Tried(a) \subseteq Targets(k) /\ alerts[a].told \cap alerts[a].refused = {}
    BY <2>2 DEF Heard, Told
  <2>4. alerts[a].announced => Tried(a) = Targets(k)
    <3>1. CASE task[t].pc = "rereading"
      BY <1>1, <1>3, <3>1 DEF Telling
    <3>2. CASE task[t].pc = "notifying" /\ Remaining(t) = {}
      <4>1. Tried(a) = TargetsBelow(k, d)
        BY <1>1, <1>3, <2>1, <3>2 DEF Telling
      <4>2. \A c \in Targets(k) : c \in Nat /\ ~(c >= d)
        BY <1>1, <2>1, <3>2, LoadFacts DEF Remaining, Targets, Pos
      <4>3. \A c \in Targets(k) : c < d
        BY <2>1, <4>2 DEF Pos
      <4> QED BY <4>1, <4>3 DEF TargetsBelow
    <3> QED BY <1>2, <3>1, <3>2
  <2> QED BY <1>2, <2>1, <2>2, <2>3, <2>4, TargetsStay DEF Told, Tried
<1>8. OwnAlerts'
  BY <1>1, <1>2, <1>4 DEF OwnAlerts
<1> QED BY <1>2, <1>4, <1>5, <1>6, <1>7, <1>8 DEF Heard

LEMMA HeardTask ==
    ASSUME Heard, TypeOK', NEW t \in Tasks, Accept(t) \/ DropUnparsed(t) \/ TaskStep(t) \/ TaskFails(t)
    PROVE  Heard'
<1>0. TypeOK
  BY DEF Heard
<1>1. CASE Accept(t) \/ DropUnparsed(t)
  BY <1>0, <1>1, AcceptMoves, QuietHeard DEF SameAlert, HoldsAlert
<1>2. CASE Save(t) \/ SaveFallback(t)
  BY <1>0, <1>2, SaveMoves, QuietHeard DEF HoldsAlert
<1>3. CASE Refresh(t)
  BY <1>0, <1>3, RefreshMoves, QuietHeard DEF SameAlert, HoldsAlert
<1>4. CASE AnswerFallback(t) \/ FallbackFails(t)
  BY <1>0, <1>4, FallbackMoves, QuietHeard DEF SameAlert, HoldsAlert
<1>5. CASE SaveFails(t) \/ RefreshFails(t)
  <2>1. /\ Moves(t) /\ UNCHANGED <<load, alerts>> /\ task[t].pc \in {"saving", "refreshing"}
        /\ task'[t] = Return(t, FALSE)
    BY <1>0, <1>5, FailMoves
  <2>2. /\ task'[t].pc \in {"ended", "answered", "fallback", "saving"}
        /\ task'[t].alert \in {task[t].alert, 0} /\ task'[t].channel \in {task[t].channel, 1}
    BY <1>0, <2>1, ReturnFields DEF HoldsRow, HoldsAlert
  <2> QED BY <2>1, <2>2, QuietHeard DEF HoldsAlert
<1>6. ASSUME NEW k \in RuleNumbers, Match(t, k) PROVE Heard'
  BY <1>0, <1>6, MatchMoves, QuietHeard DEF SameAlert, HoldsAlert
<1>7. CASE EvaluationEnds(t) \/ \E k \in RuleNumbers : EvaluationRaises(t, k)
  <2>1. /\ Moves(t) /\ UNCHANGED <<load, alerts>> /\ task[t].pc = "evaluating"
        /\ \/ task'[t] = Return(t, TRUE)
           \/ SameAlert(t) /\ task'[t].pc = "failed"
    BY <1>0, <1>7, EndMoves
  <2>2. /\ task'[t].pc \in {"ended", "answered", "fallback", "saving", "failed"}
        /\ task'[t].alert \in {task[t].alert, 0} /\ task'[t].channel \in {task[t].channel, 1}
    BY <1>0, <2>1, ReturnFields DEF HoldsRow, HoldsAlert, SameAlert
  <2> QED BY <2>1, <2>2, QuietHeard DEF HoldsAlert
<1>8. CASE InsertFails(t)
  BY <1>0, <1>8, RuleMoves, QuietHeard DEF HoldsAlert
<1> QED BY <1>1, <1>2, <1>3, <1>4, <1>5, <1>6, <1>7, <1>8, HeardInsert, HeardReread, HeardSend, HeardRule
        DEF TaskStep, TaskFails

LEMMA InitHeard == Init => Heard
<1> SUFFICES ASSUME Init PROVE Heard
  OBVIOUS
<1>1. TypeOK
  BY InitTyped
<1>2. DOMAIN alerts = {}
  BY DEF Init
<1>3. \A t \in Tasks : task[t].pc = "absent" /\ task[t].alert = 0 /\ task[t].channel = 1
  BY DEF Init, Fresh
<1> QED BY <1>1, <1>2, <1>3 DEF Heard, OwnAlerts, Telling, HoldsAlert

LEMMA HeardNext == Heard /\ [Next]_vars => Heard'
<1> SUFFICES ASSUME Heard, [Next]_vars PROVE Heard'
  OBVIOUS
<1>0. TypeOK /\ TypeOK'
  BY NextTyped DEF Heard
<1>1. ASSUME NEW t \in Tasks, Accept(t) \/ DropUnparsed(t) \/ TaskStep(t) \/ TaskFails(t) PROVE Heard'
  BY <1>0, <1>1, HeardTask
<1>2. ASSUME load' = load, alerts' = alerts,
             \A s \in Tasks : SameAlert(s) /\ task'[s].rule = task[s].rule
                              /\ (task'[s].pc = task[s].pc \/ task'[s].pc = "lost")
      PROVE  Heard'
  <2>1. \A s \in Tasks : Telling(s)'
    BY <1>2, TellingKept
  <2>2. \A a \in DOMAIN alerts : Told(a)'
    BY <1>2, ToldKept DEF SameAlert
  <2>3. OwnAlerts'
    BY <1>2 DEF Heard, OwnAlerts, SameAlert
  <2> QED BY <1>0, <1>2, <2>1, <2>2, <2>3 DEF Heard
<1>3. ASSUME NEW r \in DOMAIN rows, AnalysisStep(r) PROVE Heard'
  BY <1>0, <1>2, <1>3, AnalysisMoves DEF SameAlert
<1>4. CASE Stop \/ Crash
  <2>1. UNCHANGED <<load, alerts>> /\ \A s \in Tasks : LostTask(s)
    BY <1>0, <1>4, DiesMoves DEF Stop, Crash
  <2> QED BY <1>2, <2>1 DEF LostTask
<1>5. CASE Terminate \/ Restart \/ UNCHANGED vars
  BY <1>2, <1>5 DEF Terminate, Restart, vars, SameAlert
<1> QED BY <1>1, <1>3, <1>4, <1>5 DEF Next

\* When the round of MultiNotifier.send_all for an alert is over, every notifier its
\* severity reaches was tried exactly once, whatever the others did.
THEOREM TargetsAlwaysTried == Spec => []EveryTargetTried
<1>1. Init => Heard
  BY InitHeard
<1>2. Heard /\ [Next]_vars => Heard'
  BY HeardNext
<1>3. Heard => EveryTargetTried
  <2> SUFFICES ASSUME Heard, NEW a \in DOMAIN alerts
               PROVE  /\ Tried(a) \subseteq Targets(alerts[a].rule)
                      /\ alerts[a].told \cap alerts[a].refused = {}
                      /\ ((\A t \in Tasks : task[t].alert # a) /\ alerts[a].announced)
                             => Tried(a) = Targets(alerts[a].rule)
    BY DEF EveryTargetTried, Tried
  <2>1. alerts[a].rule \in Pos
    BY AlertFields DEF Heard, AlertStates
  <2> QED BY <2>1 DEF Heard, Told
<1> QED BY <1>1, <1>2, <1>3, PTL DEF Spec

-----------------------------------------------------------------------------
(* BatchAccounted.  The counters change when an event of the batch is done   *)
(* with, and nobody writes the rows of an event that is.                     *)

Evaluated(r) == rows[r].seen /\ rows[r].evaluation \in {"complete", "raised"}

Done(t) ==
    { i \in DOMAIN Events(t) : i < task[t].at \/ (i = task[t].at /\ task[t].pc = "answered") }

DoneWell(t) == { i \in Done(t) : \E r \in RowsOf(t, i) : Evaluated(r) }

Accounts(t) ==
    /\ task[t].processed = Cardinality(DoneWell(t))
    /\ task[t].failed = Cardinality(Done(t) \ DoneWell(t))
    /\ \A i \in Done(t) \ DoneWell(t) : \A r \in RowsOf(t, i) : rows[r].evaluation = "none"

Counts(t) ==
    /\ task[t].pc = "fallback_refreshing" => Via(t) = "rest" /\ rows[task[t].row].task = t
    /\ task[t].pc \in HoldsRow \ {"refreshing"} => rows[task[t].row].seen
    /\ Via(t) = "batch" => task[t].at <= Len(Events(t)) /\ Accounts(t)

Counted == Once /\ \A t \in Tasks : Counts(t)

\* A step that writes nothing about the events of task s that are done with.
KeepsDone(s) ==
    \A i \in Done(s) :
        /\ RowsOf(s, i)' = RowsOf(s, i)
        /\ \A r \in RowsOf(s, i) :
               rows'[r].seen = rows[r].seen /\ rows'[r].evaluation = rows[r].evaluation

KeepsEffects(s) ==
    /\ DOMAIN rows \subseteq DOMAIN rows'
    /\ \A r \in DOMAIN rows' \ DOMAIN rows : rows'[r].task # s
    /\ \A r \in DOMAIN rows :
           /\ rows'[r].task = rows[r].task /\ rows'[r].at = rows[r].at
           /\ rows[r].task = s => rows'[r].seen = rows[r].seen /\ rows'[r].evaluation = rows[r].evaluation

LEMMA EffectsKeepDone ==
    ASSUME NEW s \in Tasks, KeepsEffects(s)
    PROVE  KeepsDone(s)
BY DEF KeepsEffects, KeepsDone, RowsOf

LEMMA AccountsKept ==
    ASSUME load' = load, NEW s \in Tasks, Accounts(s), KeepsDone(s), SameEvent(s),
           (task'[s].pc = "answered") <=> (task[s].pc = "answered")
    PROVE  Accounts(s)'
<1>1. Done(s)' = Done(s)
  BY DEF Done, SameEvent, Events
<1>2. DoneWell(s)' = DoneWell(s)
  BY <1>1 DEF DoneWell, KeepsDone, Evaluated
<1>3. \A i \in Done(s) : \A r \in RowsOf(s, i)' : r \in RowsOf(s, i) /\ rows'[r].evaluation = rows[r].evaluation
  BY DEF KeepsDone
<1> QED BY <1>1, <1>2, <1>3 DEF Accounts, SameEvent

\* The next event of the batch is done with.
LEMMA AccountsGrow ==
    ASSUME TypeOK, load' = load, NEW t \in Tasks, Accounts(t), KeepsDone(t), task[t].pc # "answered",
           NEW at \in Pos, at = task[t].at, at <= Len(Events(t)),
           \/ task'[t].at = at /\ task'[t].pc = "answered"
           \/ task'[t].at = at + 1 /\ task'[t].pc # "answered",
           \/ /\ task'[t].processed = task[t].processed + 1 /\ task'[t].failed = task[t].failed
              /\ \E r \in RowsOf(t, at)' : Evaluated(r)'
           \/ /\ task'[t].processed = task[t].processed /\ task'[t].failed = task[t].failed + 1
              /\ \A r \in RowsOf(t, at)' : rows'[r].evaluation = "none"
    PROVE  Accounts(t)'
<1>1. DOMAIN Events(t) = 1..Len(Events(t)) /\ Len(Events(t)) \in Nat /\ Events(t)' = Events(t)
  BY LoadFacts DEF Events, Pos
<1>2. Done(t)' = Done(t) \cup {at} /\ at \notin Done(t)
  BY <1>1 DEF Done, Pos
<1>3. IsFiniteSet(Done(t))
  <2>1. Done(t) \subseteq 1..Len(Events(t)) /\ IsFiniteSet(1..Len(Events(t)))
    BY <1>1, FS_Interval DEF Done
  <2> QED BY <2>1, FS_Subset
<1>4. IsFiniteSet(DoneWell(t)) /\ IsFiniteSet(Done(t) \ DoneWell(t)) /\ DoneWell(t) \subseteq Done(t)
  BY <1>3, FS_Subset DEF DoneWell
<1>5. /\ Cardinality(DoneWell(t) \cup {at}) = Cardinality(DoneWell(t)) + 1
      /\ Cardinality((Done(t) \ DoneWell(t)) \cup {at}) = Cardinality(Done(t) \ DoneWell(t)) + 1
  BY <1>2, <1>4, FS_AddElement
<1>6. \A i \in Done(t) : (\E r \in RowsOf(t, i)' : Evaluated(r)') <=> (\E r \in RowsOf(t, i) : Evaluated(r))
  BY DEF KeepsDone, Evaluated
<1>7. \A i \in Done(t) : \A r \in RowsOf(t, i)' : r \in RowsOf(t, i) /\ rows'[r].evaluation = rows[r].evaluation
  BY DEF KeepsDone
<1>8. CASE /\ task'[t].processed = task[t].processed + 1 /\ task'[t].failed = task[t].failed
           /\ \E r \in RowsOf(t, at)' : Evaluated(r)'
  <2>1. DoneWell(t)' = DoneWell(t) \cup {at}
    BY <1>2, <1>6, <1>8 DEF DoneWell
  <2>2. Done(t)' \ DoneWell(t)' = Done(t) \ DoneWell(t)
    BY <1>2, <2>1
  <2> QED BY <1>5, <1>7, <1>8, <2>1, <2>2 DEF Accounts
<1>9. CASE /\ task'[t].processed = task[t].processed /\ task'[t].failed = task[t].failed + 1
           /\ \A r \in RowsOf(t, at)' : rows'[r].evaluation = "none"
  <2>1. DoneWell(t)' = DoneWell(t)
    BY <1>2, <1>6, <1>9 DEF DoneWell, Evaluated
  <2>2. Done(t)' \ DoneWell(t)' = (Done(t) \ DoneWell(t)) \cup {at}
    BY <1>2, <1>4, <2>1
  <2> QED BY <1>5, <1>7, <1>9, <2>1, <2>2 DEF Accounts
<1> QED BY <1>8, <1>9

LEMMA CountsKept ==
    ASSUME Counted, Once', load' = load, NEW s \in Tasks, KeepsEffects(s), SameEvent(s),
           task'[s].pc = task[s].pc \/ (task'[s].pc = "lost" /\ task[s].pc \in Running)
    PROVE  Counts(s)'
<1>1. Counts(s) /\ RowsFit(s) /\ TypeOK
  BY DEF Counted, Once
<1>2. (task'[s].pc = "answered") <=> (task[s].pc = "answered")
  BY DEF Running
<1>3. Via(s)' = Via(s) /\ Events(s)' = Events(s)
  BY DEF Via, Events
<1>4. Via(s) = "batch" => task'[s].at <= Len(Events(s)) /\ Accounts(s)'
  BY <1>1, <1>2, EffectsKeepDone, AccountsKept DEF Counts, SameEvent
<1>5. task'[s].pc = "fallback_refreshing" => Via(s) = "rest" /\ rows'[task'[s].row].task = s
  <2> SUFFICES ASSUME task'[s].pc = "fallback_refreshing"
               PROVE  Via(s) = "rest" /\ rows'[task'[s].row].task = s
    OBVIOUS
  <2>1. task[s].row \in DOMAIN rows /\ task'[s].row = task[s].row
    BY <1>1 DEF TypeOK, InHand, SameEvent
  <2> QED BY <1>1, <2>1 DEF Counts, KeepsEffects
<1>6. task'[s].pc \in HoldsRow \ {"refreshing"} => rows'[task'[s].row].seen
  <2> SUFFICES ASSUME task'[s].pc \in HoldsRow \ {"refreshing"} PROVE rows'[task'[s].row].seen
    OBVIOUS
  <2>1. PICK at \in Pos : at = task[s].at
    BY <1>1, TaskFields
  <2>2. task[s].pc = task'[s].pc
    BY DEF HoldsRow
  <2>3. RowsOf(s, at) = {task[s].row}
    BY <1>1, <2>1, <2>2 DEF RowsFit, Hands
  <2>4. task[s].row \in DOMAIN rows /\ rows[task[s].row].task = s
    BY <2>3 DEF RowsOf
  <2> QED BY <1>1, <2>2, <2>4 DEF Counts, KeepsEffects, SameEvent
<1> QED BY <1>3, <1>4, <1>5, <1>6 DEF Counts

LEMMA TaskCounted ==
    ASSUME Counted, Once', load' = load, NEW t \in Tasks, Moves(t),
           \A s \in Tasks \ {t} : KeepsEffects(s), Counts(t)'
    PROVE  Counted'
<1>1. ASSUME NEW s \in Tasks, s # t PROVE Counts(s)'
  BY <1>1, CountsKept DEF Moves, SameEvent
<1> QED BY <1>1 DEF Counted

\* Whose effects a step on the rows keeps.
LEMMA EffectsOfSteps ==
    ASSUME NEW t \in Tasks
    PROVE  /\ rows' = rows => \A s \in Tasks : KeepsEffects(s)
           /\ AddsRow(t) => \A s \in Tasks \ {t} : KeepsEffects(s)
           /\ \A r \in DOMAIN rows : EditsRow(r) /\ rows[r].task = t => \A s \in Tasks \ {t} : KeepsEffects(s)
<1>1. NewRow(t).task = t
  BY DEF NewRow
<1> QED BY <1>1 DEF KeepsEffects, AddsRow, EditsRow

\* The steps on the event in hand that do not end it.
LEMMA CountedQuiet ==
    ASSUME Counted, Once', load' = load, NEW t \in Tasks, Moves(t), SameEvent(t), rows' = rows,
           task[t].pc # "answered", task'[t].pc \notin {"answered", "fallback_refreshing"},
           task'[t].pc \in HoldsRow \ {"refreshing"} => task[t].pc \in HoldsRow \ {"refreshing"}
    PROVE  Counted'
<1>1. \A s \in Tasks : KeepsEffects(s)
  BY EffectsOfSteps
<1>2. Counts(t)
  BY DEF Counted
<1>3. Via(t)' = Via(t) /\ Events(t)' = Events(t)
  BY DEF Via, Events
<1>4. Via(t) = "batch" => Accounts(t)'
  BY <1>1, <1>2, EffectsKeepDone, AccountsKept DEF Counts
<1>5. Counts(t)'
  BY <1>2, <1>3, <1>4 DEF Counts, SameEvent
<1> QED BY <1>1, <1>5, TaskCounted

LEMMA CountedSave ==
    ASSUME Counted, Once', NEW t \in Tasks, Save(t) \/ SaveFallback(t)
    PROVE  Counted'
<1>1. TypeOK /\ RowsFit(t) /\ Counts(t)
  BY DEF Counted, Once
<1>2. PICK at \in Pos : at = task[t].at
  BY <1>1, TaskFields
<1>3. PICK new \in Nat : new = Len(rows) + 1
  BY <1>1, SaveMoves DEF AddsRow
<1>4. /\ Moves(t) /\ AddsRow(t) /\ load' = load /\ task'[t].row = new /\ task'[t].at = at
      /\ task'[t].processed = task[t].processed /\ task'[t].failed = task[t].failed
      /\ \/ task[t].pc = "saving" /\ task'[t].pc = "refreshing"
         \/ task[t].pc = "fallback" /\ task'[t].pc = "fallback_refreshing"
  BY <1>1, <1>2, <1>3, SaveMoves
<1>5. /\ rows'[new].task = t /\ rows'[new].at = at /\ new \notin DOMAIN rows
      /\ DOMAIN rows' = DOMAIN rows \cup {new} /\ \A r \in DOMAIN rows : rows'[r] = rows[r]
  BY <1>2, <1>3, <1>4 DEF AddsRow, NewRow
<1>6. Via(t)' = Via(t) /\ Events(t)' = Events(t)
  BY <1>4 DEF Via, Events
<1>7. Via(t) = "batch" => Accounts(t)'
  <2> SUFFICES ASSUME Via(t) = "batch" PROVE Accounts(t)'
    OBVIOUS
  <2>1. Done(t)' = Done(t) /\ \A i \in Done(t) : i # at
    BY <1>2, <1>4, <1>6, LoadFacts, <1>1 DEF Done, Pos
  <2>2. \A i \in Done(t) : RowsOf(t, i)' = RowsOf(t, i)
    BY <1>5, <2>1 DEF RowsOf
  <2>3. DoneWell(t)' = DoneWell(t)
    BY <1>5, <2>1, <2>2 DEF DoneWell, Evaluated, RowsOf
  <2>4. Accounts(t)
    BY <1>1 DEF Counts
  <2> QED BY <1>4, <1>5, <2>1, <2>2, <2>3, <2>4 DEF Accounts, RowsOf
<1>8. Counts(t)'
  <2>1. task[t].pc = "fallback" => Via(t) = "rest"
    BY <1>1, <1>2 DEF RowsFit, Hands
  <2> QED BY <1>1, <1>2, <1>4, <1>5, <1>6, <1>7, <2>1 DEF Counts, HoldsRow
<1>9. \A s \in Tasks \ {t} : KeepsEffects(s)
  BY <1>4, EffectsOfSteps
<1> QED BY <1>4, <1>8, <1>9, TaskCounted

\* Writing the row in hand leaves what is done with alone.
LEMMA WritingInHand ==
    ASSUME Counted, NEW t \in Tasks, task[t].pc \in HoldsRow,
           NEW row \in DOMAIN rows, row = task[t].row, EditsRow(row)
    PROVE  /\ rows[row].task = t /\ rows[row].at = task[t].at /\ KeepsDone(t)
           /\ RowsOf(t, task[t].at) = {row} /\ \A i \in Pos : RowsOf(t, i)' = RowsOf(t, i)
           /\ \A s \in Tasks \ {t} : KeepsEffects(s)
<1>1. TypeOK /\ RowsFit(t)
  BY DEF Counted, Once
<1>2. PICK at \in Pos : at = task[t].at
  BY <1>1, TaskFields
<1>3. RowsOf(t, at) = {row}
  BY <1>1, <1>2 DEF RowsFit, Hands
<1>4. rows[row].task = t /\ rows[row].at = at
  BY <1>3 DEF RowsOf
<1>5. \A i \in Done(t) : i # at
  BY <1>1, <1>2, LoadFacts DEF Done, Pos, HoldsRow
<1>6. KeepsDone(t)
  BY <1>4, <1>5 DEF KeepsDone, EditsRow, RowsOf
<1>7. \A i \in Pos : RowsOf(t, i)' = RowsOf(t, i)
  BY DEF EditsRow, RowsOf
<1> QED BY <1>2, <1>3, <1>4, <1>6, <1>7, EffectsOfSteps

LEMMA CountedRefresh ==
    ASSUME Counted, Once', NEW t \in Tasks, Refresh(t)
    PROVE  Counted'
<1>1. TypeOK /\ Counts(t)
  BY DEF Counted, Once
<1>2. PICK row \in DOMAIN rows : row = task[t].row
  BY <1>1, RefreshMoves
<1>3. /\ Moves(t) /\ SameEvent(t) /\ load' = load /\ task[t].pc = "refreshing" /\ task'[t].pc = "evaluating"
      /\ EditsRow(row) /\ rows'[row].seen
  BY <1>1, <1>2, RefreshMoves
<1>4. KeepsDone(t) /\ \A s \in Tasks \ {t} : KeepsEffects(s)
  BY <1>2, <1>3, WritingInHand DEF HoldsRow
<1>5. Via(t)' = Via(t) /\ Events(t)' = Events(t)
  BY <1>3 DEF Via, Events
<1>6. Via(t) = "batch" => Accounts(t)'
  BY <1>1, <1>3, <1>4, AccountsKept DEF Counts
<1>7. Counts(t)'
  BY <1>1, <1>2, <1>3, <1>5, <1>6 DEF Counts, SameEvent
<1> QED BY <1>3, <1>4, <1>7, TaskCounted

LEMMA CountedFallback ==
    ASSUME Counted, Once', NEW t \in Tasks, AnswerFallback(t) \/ FallbackFails(t)
    PROVE  Counted'
<1>1. TypeOK /\ RowsFit(t) /\ Counts(t)
  BY DEF Counted, Once
<1>2. PICK at \in Pos : at = task[t].at
  BY <1>1, TaskFields
<1>3. /\ Moves(t) /\ load' = load
      /\ task[t].pc \in {"fallback", "fallback_refreshing"} /\ task'[t].pc \in {"answered", "failed"}
  BY <1>1, FallbackMoves
<1>4. \A s \in Tasks \ {t} : KeepsEffects(s)
  <2>1. CASE rows' = rows
    BY <2>1, EffectsOfSteps
  <2>2. CASE rows' # rows
    <3>1. PICK r \in DOMAIN rows : EditsRow(r) /\ r = task[t].row /\ task[t].pc = "fallback_refreshing"
      BY <1>1, <2>2, FallbackMoves
    <3> QED BY <1>1, <3>1, EffectsOfSteps DEF Counts
  <2> QED BY <2>1, <2>2
<1>5. Via(t) = "rest"
  <2>1. CASE task[t].pc = "fallback"
    BY <1>1, <1>2, <2>1 DEF RowsFit, Hands
  <2>2. CASE task[t].pc = "fallback_refreshing"
    BY <1>1, <2>2 DEF Counts
  <2> QED BY <1>3, <2>1, <2>2
<1>6. Counts(t)'
  <2>1. Via(t)' = "rest"
    BY <1>3, <1>5 DEF Via
  <2> QED BY <1>3, <2>1 DEF Counts, HoldsRow
<1> QED BY <1>3, <1>4, <1>6, TaskCounted

LEMMA CountedFail ==
    ASSUME Counted, Once', NEW t \in Tasks, SaveFails(t) \/ RefreshFails(t)
    PROVE  Counted'
<1>1. TypeOK /\ RowsFit(t) /\ Counts(t)
  BY DEF Counted, Once
<1>2. PICK at \in Pos : at = task[t].at
  BY <1>1, TaskFields
<1>3. /\ Moves(t) /\ load' = load /\ rows' = rows /\ task[t].pc \in {"saving", "refreshing"}
      /\ task'[t] = Return(t, FALSE)
  BY <1>1, FailMoves
<1>4. \A s \in Tasks : KeepsEffects(s)
  BY <1>3, EffectsOfSteps
<1>5. /\ task'[t].pc \in {"ended", "answered", "fallback", "saving"}
      /\ task'[t].at = IF task'[t].pc = "saving" THEN at + 1 ELSE at
      /\ Via(t) = "batch" =>
             /\ task'[t].pc = IF at = Len(Events(t)) THEN "answered" ELSE "saving"
             /\ task'[t].processed = task[t].processed /\ task'[t].failed = task[t].failed + 1
  <2>1. task[t].processed \in Nat /\ task[t].failed \in Nat
    BY <1>1, TaskFields
  <2> DEFINE y == Return(t, FALSE)
  <2>2. /\ y.pc \in {"ended", "answered", "fallback", "saving"}
        /\ y.at = IF y.pc = "saving" THEN at + 1 ELSE at
        /\ Via(t) = "batch" =>
               /\ y.pc = IF at = Len(Events(t)) THEN "answered" ELSE "saving"
               /\ y.processed = task[t].processed + 0
               /\ y.failed = task[t].failed + 1
    BY <1>1, <1>2, <1>3, ReturnFields DEF HoldsRow, HoldsAlert
  <2>3. task'[t] = y
    BY <1>3
  <2> HIDE DEF y
  <2> QED BY <2>1, <2>2, <2>3
<1>6. \A r \in RowsOf(t, at)' : rows'[r].evaluation = "none"
  <2>1. RowsOf(t, at)' = RowsOf(t, at)
    BY <1>3 DEF RowsOf
  <2>2. Hands(t, at)
    BY <1>1, <1>2 DEF RowsFit
  <2> QED BY <1>3, <2>1, <2>2 DEF Hands, HoldsRow, Untouched
<1>7. Via(t)' = Via(t) /\ Events(t)' = Events(t)
  BY <1>3 DEF Via, Events
<1>8. Via(t) = "batch" => Accounts(t)' /\ task'[t].at <= Len(Events(t))
  <2> SUFFICES ASSUME Via(t) = "batch" PROVE Accounts(t)' /\ task'[t].at <= Len(Events(t))
    OBVIOUS
  <2>1. at <= Len(Events(t)) /\ Accounts(t)
    BY <1>1, <1>2 DEF Counts
  <2>2. Accounts(t)'
    BY <1>1, <1>2, <1>3, <1>4, <1>5, <1>6, <2>1, EffectsKeepDone, AccountsGrow
  <2> QED BY <1>1, <1>2, <1>5, <2>1, <2>2, LoadFacts DEF Pos
<1>9. Counts(t)'
  BY <1>5, <1>7, <1>8 DEF Counts, HoldsRow
<1> QED BY <1>3, <1>4, <1>9, TaskCounted

LEMMA CountedEnd ==
    ASSUME Counted, Once', NEW t \in Tasks, EvaluationEnds(t) \/ \E k \in RuleNumbers : EvaluationRaises(t, k)
    PROVE  Counted'
<1>1. TypeOK /\ Counts(t)
  BY DEF Counted, Once
<1>2. PICK at \in Pos : at = task[t].at
  BY <1>1, TaskFields
<1>3. PICK row \in DOMAIN rows : row = task[t].row
  BY <1>1, EndMoves
<1>4. /\ Moves(t) /\ load' = load /\ task[t].pc = "evaluating" /\ EditsRow(row)
      /\ rows'[row].evaluation \in {"complete", "raised"} /\ rows'[row].seen = rows[row].seen
      /\ \/ task'[t] = Return(t, TRUE)
         \/ SameEvent(t) /\ task'[t].pc = "failed" /\ Via(t) = "udp"
  BY <1>1, <1>3, EndMoves
<1>5. /\ KeepsDone(t) /\ RowsOf(t, at)' = {row} /\ \A s \in Tasks \ {t} : KeepsEffects(s)
  BY <1>2, <1>3, <1>4, WritingInHand DEF HoldsRow
<1>6. /\ task'[t].pc \in {"ended", "answered", "saving", "failed"}
      /\ Via(t) = "batch" =>
             /\ task'[t].pc = IF at = Len(Events(t)) THEN "answered" ELSE "saving"
             /\ task'[t].at = IF task'[t].pc = "saving" THEN at + 1 ELSE at
             /\ task'[t].processed = task[t].processed + 1 /\ task'[t].failed = task[t].failed
  <2>1. task[t].processed \in Nat /\ task[t].failed \in Nat
    BY <1>1, TaskFields
  <2> DEFINE y == Return(t, TRUE)
  <2>2. /\ y.pc \in {"ended", "answered", "fallback", "saving"}
        /\ y.pc # "fallback"
        /\ y.at = IF y.pc = "saving" THEN at + 1 ELSE at
        /\ Via(t) = "batch" =>
               /\ y.pc = IF at = Len(Events(t)) THEN "answered" ELSE "saving"
               /\ y.processed = task[t].processed + 1
               /\ y.failed = task[t].failed + 0
    BY <1>1, <1>2, <1>4, ReturnFields DEF HoldsRow, HoldsAlert
  <2> HIDE DEF y
  <2>3. CASE task'[t] = y
    BY <2>1, <2>2, <2>3
  <2>4. CASE SameEvent(t) /\ task'[t].pc = "failed" /\ Via(t) = "udp"
    BY <2>4
  <2> QED BY <1>4, <2>3, <2>4 DEF y
<1>7. \E r \in RowsOf(t, at)' : Evaluated(r)'
  <2>1. rows[row].seen
    BY <1>1, <1>3, <1>4 DEF Counts, HoldsRow
  <2> QED BY <1>4, <1>5, <2>1 DEF Evaluated
<1>8. Via(t)' = Via(t) /\ Events(t)' = Events(t)
  BY <1>4 DEF Via, Events
<1>9. Via(t) = "batch" => Accounts(t)' /\ task'[t].at <= Len(Events(t))
  <2> SUFFICES ASSUME Via(t) = "batch" PROVE Accounts(t)' /\ task'[t].at <= Len(Events(t))
    OBVIOUS
  <2>1. at <= Len(Events(t)) /\ Accounts(t)
    BY <1>1, <1>2 DEF Counts
  <2>2. Accounts(t)'
    BY <1>1, <1>2, <1>4, <1>5, <1>6, <1>7, <2>1, AccountsGrow
  <2> QED BY <1>1, <1>2, <1>6, <2>1, <2>2, LoadFacts DEF Pos
<1>10. Counts(t)'
  BY <1>6, <1>8, <1>9 DEF Counts, HoldsRow
<1> QED BY <1>4, <1>5, <1>10, TaskCounted

LEMMA CountedTask ==
    ASSUME Counted, Once', NEW t \in Tasks, Accept(t) \/ DropUnparsed(t) \/ TaskStep(t) \/ TaskFails(t)
    PROVE  Counted'
<1>0. TypeOK
  BY DEF Counted, Once
<1>1. CASE Accept(t) \/ DropUnparsed(t)
  BY <1>0, <1>1, AcceptMoves, CountedQuiet DEF HoldsRow
<1>2. ASSUME NEW k \in RuleNumbers, Match(t, k) PROVE Counted'
  BY <1>0, <1>2, MatchMoves, CountedQuiet DEF HoldsRow
<1>3. CASE InsertAlert(t)
  BY <1>0, <1>3, InsertMoves, CountedQuiet DEF HoldsRow
<1>4. CASE RereadAlert(t)
  BY <1>0, <1>4, RereadMoves, CountedQuiet DEF HoldsRow
<1>5. ASSUME NEW c \in Channels, Send(t, c) \/ SendFails(t, c) PROVE Counted'
  BY <1>0, <1>5, SendMoves, CountedQuiet DEF HoldsRow
<1>6. CASE InsertFails(t) \/ RereadFails(t) \/ Announced(t)
  BY <1>0, <1>6, RuleMoves, CountedQuiet DEF HoldsRow
<1> QED BY <1>1, <1>2, <1>3, <1>4, <1>5, <1>6,
           CountedSave, CountedRefresh, CountedFallback, CountedFail, CountedEnd
        DEF TaskStep, TaskFails

LEMMA InitCounted == Init => Counted
<1> SUFFICES ASSUME Init PROVE Counted
  OBVIOUS
<1>1. Once /\ TypeOK
  BY InitOnce, InitTyped
<1>2. \A t \in Tasks : /\ task[t].pc = "absent" /\ task[t].at = 1
                       /\ task[t].processed = 0 /\ task[t].failed = 0
  BY DEF Init, Fresh
<1>3. ASSUME NEW t \in Tasks PROVE Counts(t)
  <2>1. DOMAIN Events(t) = 1..Len(Events(t)) /\ Len(Events(t)) \in Nat /\ 1 <= Len(Events(t))
    BY <1>1, LoadFacts DEF Pos
  <2>2. Done(t) = {} /\ DoneWell(t) = {} /\ Done(t) \ DoneWell(t) = {}
    BY <1>2, <2>1 DEF Done, DoneWell
  <2>3. Accounts(t)
    BY <1>2, <2>2, FS_EmptySet DEF Accounts
  <2> QED BY <1>2, <2>1, <2>3 DEF Counts, HoldsRow
<1> QED BY <1>1, <1>3 DEF Counted

LEMMA CountedNext == Counted /\ [Next]_vars => Counted'
<1> SUFFICES ASSUME Counted, [Next]_vars PROVE Counted'
  OBVIOUS
<1>0. TypeOK /\ Once'
  BY OnceNext DEF Counted, Once
<1>1. ASSUME NEW t \in Tasks, Accept(t) \/ DropUnparsed(t) \/ TaskStep(t) \/ TaskFails(t) PROVE Counted'
  BY <1>0, <1>1, CountedTask
<1>2. ASSUME load' = load, \A s \in Tasks : KeepsEffects(s),
             \A s \in Tasks : SameEvent(s) /\ (task'[s].pc = task[s].pc
                                               \/ (task'[s].pc = "lost" /\ task[s].pc \in Running))
      PROVE  Counted'
  BY <1>0, <1>2, CountsKept DEF Counted
<1>3. ASSUME NEW r \in DOMAIN rows, AnalysisStep(r) PROVE Counted'
  <2>1. /\ UNCHANGED <<load, task>> /\ EditsRow(r)
        /\ rows'[r].seen = rows[r].seen /\ rows'[r].evaluation = rows[r].evaluation
    BY <1>0, <1>3, AnalysisMoves
  <2>2. \A s \in Tasks : KeepsEffects(s)
    BY <2>1 DEF KeepsEffects, EditsRow
  <2> QED BY <1>2, <2>1, <2>2 DEF SameEvent
<1>4. CASE Stop \/ Crash
  <2>1. /\ load' = load /\ \A s \in Tasks : LostTask(s)
        /\ DOMAIN rows' = DOMAIN rows /\ \A r \in DOMAIN rows : LostRow(r)
    BY <1>0, <1>4, DiesMoves DEF Stop, Crash
  <2>2. \A s \in Tasks : KeepsEffects(s)
    BY <2>1 DEF KeepsEffects, LostRow
  <2> QED BY <1>2, <2>1, <2>2 DEF LostTask
<1>5. CASE Terminate \/ Restart \/ UNCHANGED vars
  <2>1. UNCHANGED <<load, task, rows>>
    BY <1>5 DEF Terminate, Restart, vars
  <2>2. \A s \in Tasks : KeepsEffects(s)
    BY <2>1 DEF KeepsEffects
  <2> QED BY <1>2, <2>1, <2>2 DEF SameEvent
<1> QED BY <1>1, <1>3, <1>4, <1>5 DEF Next

\* The two counters of the answer to a batch add up at every moment: processed
\* counts the events that were stored, read back and evaluated, failed those that
\* were not, and none of the latter was evaluated behind the agent's back.
THEOREM BatchesAlwaysAccounted == Spec => []BatchAccounted
<1>1. Init => Counted
  BY InitCounted
<1>2. Counted /\ [Next]_vars => Counted'
  BY CountedNext
<1>3. Counted => BatchAccounted
  <2> SUFFICES ASSUME Counted, NEW t \in Tasks, Via(t) = "batch" PROVE Accounts(t)
    BY DEF BatchAccounted, Accounts, Done, DoneWell, Evaluated
  <2> QED BY DEF Counted, Counts
<1> QED BY <1>1, <1>2, <1>3, PTL DEF Spec

-----------------------------------------------------------------------------
(* Rule conditions: what Conditions computes by recursion is proved by       *)
(* taking, of the conditions for which it would not hold, one nested least.  *)

Below == { ss \in Nat \X Nat : ss[1] < ss[2] }

\* A set of natural numbers that is not empty has a least one.
LEMMA LeastNatural ==
    ASSUME NEW T, T \subseteq Nat, T # {}
    PROVE  \E x \in T : \A y \in T : x <= y
<1>1. IsWellFoundedOn(Below, Nat)
  BY NatLessThanWellFounded DEF OpToRel, Below
<1>2. PICK x \in T : \A y \in T : ~ (<<y, x>> \in Below)
  BY <1>1, WFMin, Zenon
<1>3. \A y \in T : ~ (y < x)
  BY <1>2 DEF Below
<1> QED BY <1>3

\* Of the conditions in S one is nested least.
LEMMA LeastNested ==
    ASSUME NEW S, S \subseteq JsonConditions, S # {}
    PROVE  \E c \in S : \A d \in S : ~ (Nesting[d] < Nesting[c])
<1>1. Nesting \in [JsonConditions -> Nat]
  BY ConditionsAssumption
<1> DEFINE T == { Nesting[c] : c \in S }
<1>2. T \subseteq Nat /\ T # {}
  BY <1>1
<1>3. PICK n \in T : \A m \in T : n <= m
  <2> HIDE DEF T
  <2> QED BY <1>2, LeastNatural
<1>4. PICK c \in S : n = Nesting[c]
  BY <1>3
<1>5. \A d \in S : Nesting[c] <= Nesting[d] /\ Nesting[c] \in Nat /\ Nesting[d] \in Nat
  BY <1>1, <1>3, <1>4
<1> QED BY <1>5

\* A function over conditions may be defined by what it is on the conditions
\* inside: there is one that F maps to itself when F looks no further.
LEMMA RecursionDefines ==
    ASSUME NEW V, NEW v \in V,
           NEW F \in [[JsonConditions -> V] -> [JsonConditions -> V]],
           \A f, g \in [JsonConditions -> V] : \A c \in JsonConditions :
               (\A d \in JsonConditions : Nesting[d] < Nesting[c] => f[d] = g[d]) => F[f][c] = F[g][c]
    PROVE  \E f \in [JsonConditions -> V] : f = F[f]
<1> DEFINE Fs == [JsonConditions -> V]
           Right(f, n) == \A c \in JsonConditions : Nesting[c] < n => f[c] = F[f][c]
<1>0. \A c \in JsonConditions : Nesting[c] \in Nat
  BY ConditionsAssumption
<1>1. ASSUME NEW f \in Fs, NEW g \in Fs, NEW n \in Nat, NEW m \in Nat, Right(f, n), Right(g, m),
             NEW c \in JsonConditions, Nesting[c] < n, Nesting[c] < m
      PROVE  f[c] = g[c]
  <2> DEFINE differ == { d \in JsonConditions : Nesting[d] < n /\ Nesting[d] < m /\ f[d] # g[d] }
  <2> SUFFICES ASSUME differ # {} PROVE FALSE
    BY <1>1
  <2>1. PICK d \in differ : \A b \in differ : ~ (Nesting[b] < Nesting[d])
    <3> HIDE DEF differ
    <3>1. differ \subseteq JsonConditions
      BY DEF differ
    <3> QED BY <3>1, LeastNested
  <2>2. \A b \in JsonConditions : Nesting[b] < Nesting[d] => f[b] = g[b]
    BY <1>0, <2>1
  <2>3. F[f][d] = F[g][d]
    BY <2>2
  <2> QED BY <1>1, <2>1, <2>3
<1>2. ASSUME NEW n \in Nat PROVE \E f \in Fs : Right(f, n)
  <2> DEFINE missing == { k \in Nat : ~ \E f \in Fs : Right(f, k) }
  <2> SUFFICES ASSUME missing # {} PROVE FALSE
    OBVIOUS
  <2>1. PICK k \in missing : \A j \in missing : k <= j
    <3>1. missing \subseteq Nat
      OBVIOUS
    <3> HIDE DEF missing
    <3> QED BY <3>1, LeastNatural
  <2>2. k # 0
    <3>1. PICK f \in Fs : TRUE
      <4>1. [c \in JsonConditions |-> v] \in Fs
        OBVIOUS
      <4> QED BY <4>1
    <3>2. Right(f, 0)
      BY <1>0
    <3> HIDE DEF Right
    <3> QED BY <2>1, <3>2
  <2>3. k - 1 \in Nat /\ k - 1 \notin missing
    BY <2>1, <2>2
  <2>4. PICK f \in Fs : Right(f, k - 1)
    BY <2>3
  <2>5. PICK g \in Fs : g = F[f]
    OBVIOUS
  <2>6. ASSUME NEW c \in JsonConditions, Nesting[c] < k PROVE g[c] = F[g][c]
    <3>1. \A d \in JsonConditions : Nesting[d] < Nesting[c] => f[d] = g[d]
      BY <1>0, <2>1, <2>4, <2>5, <2>6
    <3> QED BY <2>5, <3>1
  <2> QED BY <2>1, <2>6
<1> DEFINE approx(c) == CHOOSE f \in Fs : Right(f, Nesting[c] + 1)
<1>3. \A c \in JsonConditions : approx(c) \in Fs /\ Right(approx(c), Nesting[c] + 1)
  BY <1>0, <1>2
<1>4. PICK h \in Fs : \A c \in JsonConditions : h[c] = approx(c)[c]
  <2>1. [c \in JsonConditions |-> approx(c)[c]] \in Fs
    BY <1>3
  <2> QED BY <2>1
<1> HIDE DEF approx
<1>5. ASSUME NEW c \in JsonConditions PROVE h[c] = F[h][c]
  <2>1. PICK f \in Fs : f = approx(c) /\ Right(f, Nesting[c] + 1)
    BY <1>3
  <2>2. ASSUME NEW d \in JsonConditions, Nesting[d] < Nesting[c] PROVE h[d] = f[d]
    <3>1. PICK g \in Fs : g = approx(d) /\ Right(g, Nesting[d] + 1)
      BY <1>3
    <3>2. Nesting[d] < Nesting[d] + 1 /\ Nesting[d] < Nesting[c] + 1
          /\ Nesting[d] + 1 \in Nat /\ Nesting[c] + 1 \in Nat
      BY <1>0, <2>2
    <3>3. g[d] = f[d]
      <4> HIDE DEF Right, Fs
      <4> QED BY <1>1, <2>1, <3>1, <3>2
    <3> QED BY <1>4, <3>1, <3>3
  <2>3. F[h][c] = F[f][c]
    BY <2>2
  <2>4. f[c] = F[f][c]
    BY <1>0, <2>1
  <2> QED BY <1>4, <2>1, <2>3, <2>4
<1> QED BY <1>5

-----------------------------------------------------------------------------
(* Rule conditions. *)

Verdicts == {"match", "no", "raises"}

\* The first verdict that is one of S, when there is one.
LEMMA FirstIsIn ==
    ASSUME NEW n \in Nat, NEW verdicts, DOMAIN verdicts = 1..n, NEW S,
           \E i \in 1..n : verdicts[i] \in S
    PROVE  First(verdicts, S) \in S /\ \E i \in 1..n : First(verdicts, S) = verdicts[i]
<1> DEFINE T == { i \in 1..n : verdicts[i] \in S }
<1>1. PICK i \in T : \A j \in T : i <= j
  <2>1. T \subseteq Nat /\ T # {}
    OBVIOUS
  <2> HIDE DEF T
  <2> QED BY <2>1, LeastNatural
<1>2. Min(T) \in T
  BY <1>1 DEF Min
<1>3. First(verdicts, S) = verdicts[Min(T)]
  BY DEF First
<1> QED BY <1>2, <1>3

\* all() over verdicts that do not raise.
LEMMA AllOfVerdicts ==
    ASSUME NEW n \in Nat, NEW verdicts, DOMAIN verdicts = 1..n,
           \A i \in 1..n : verdicts[i] \in {"match", "no"}
    PROVE  /\ AllOf(verdicts) \in {"match", "no"}
           /\ AllOf(verdicts) = "match" <=> \A i \in 1..n : verdicts[i] = "match"
<1>1. CASE \A i \in 1..n : verdicts[i] = "match"
  BY <1>1 DEF AllOf, Range
<1>2. CASE \E i \in 1..n : verdicts[i] \in {"no", "raises"}
  <2>1. First(verdicts, {"no", "raises"}) = "no"
    BY <1>2, FirstIsIn
  <2>2. ~ (Range(verdicts) \subseteq {"match"})
    BY <1>2 DEF Range
  <2> QED BY <1>2, <2>1, <2>2 DEF AllOf
<1> QED BY <1>1, <1>2

\* any() over verdicts that do not raise.
LEMMA AnyOfVerdicts ==
    ASSUME NEW n \in Nat, NEW verdicts, DOMAIN verdicts = 1..n,
           \A i \in 1..n : verdicts[i] \in {"match", "no"}
    PROVE  /\ AnyOf(verdicts) \in {"match", "no"}
           /\ AnyOf(verdicts) = "match" <=> \E i \in 1..n : verdicts[i] = "match"
<1>1. CASE \A i \in 1..n : verdicts[i] = "no"
  BY <1>1 DEF AnyOf, Range
<1>2. CASE \E i \in 1..n : verdicts[i] \in {"match", "raises"}
  <2>1. First(verdicts, {"match", "raises"}) = "match"
    BY <1>2, FirstIsIn
  <2>2. ~ (Range(verdicts) \subseteq {"no"})
    BY <1>2 DEF Range
  <2> QED BY <1>2, <2>1, <2>2 DEF AnyOf
<1> QED BY <1>1, <1>2

\* Conditions as the rules may have them.
LEMMA InsideConditions ==
    ASSUME NEW c \in JsonConditions
    PROVE  /\ c.kind \in {"leaf", "group", "list", "junk"}
           /\ c.kind \in {"group", "list"} =>
                  /\ Len(c.conditions) \in Nat /\ DOMAIN c.conditions = 1..Len(c.conditions)
                  /\ \A i \in DOMAIN c.conditions : c.conditions[i] \in JsonConditions
                                                    /\ Nesting[c.conditions[i]] < Nesting[c]
           /\ c.kind = "leaf" => c.value.kind = "list" \/ IsValue(c.value)
<1>1. IsCondition(c)
  BY ConditionsAssumption
<1>2. CASE c.kind = "leaf"
  BY <1>1, <1>2 DEF IsCondition
<1>3. CASE c.kind \in {"group", "list"}
  BY <1>1, <1>3 DEF IsCondition
<1>4. CASE c.kind \notin {"leaf", "group", "list"}
  BY <1>1, <1>4 DEF IsCondition
<1> QED BY <1>2, <1>3, <1>4

\* One step of EvaluateRule, of MadeOf and of Means, given the values inside.
EvaluateStep(f, d, event) ==
    CASE d.kind = "group" /\ Lower(d.operator) \in {"and", "or"} ->
             EvaluateGroup(d, [i \in DOMAIN d.conditions |-> f[d.conditions[i]]])
      [] d.kind = "leaf" /\ Lower(d.operator) \in {"and", "or"} -> EvaluateGroup(d, <<>>)
      [] d.kind = "list" ->
             AllOf([i \in DOMAIN d.conditions |-> EvaluateCondition(d.conditions[i], event)])
      [] OTHER -> EvaluateCondition(d, event)

MadeStep(f, d, operators) ==
    \/ Simple(d)
    \/ d.kind = "list" /\ \A i \in DOMAIN d.conditions : Simple(d.conditions[i])
    \/ /\ d.kind = "group" /\ Lower(d.operator) \in operators
       /\ Lower(d.operator) = "not" => Len(d.conditions) = 1
       /\ \A i \in DOMAIN d.conditions : f[d.conditions[i]]

MeansStep(f, d, event) ==
    \/ d.kind = "leaf" /\ Holds(d.operator, FieldValue(event, d.field), d.value)
    \/ /\ d.kind = "list" \/ (d.kind = "group" /\ Lower(d.operator) = "and")
       /\ \A i \in DOMAIN d.conditions : f[d.conditions[i]]
    \/ /\ d.kind = "group" /\ Lower(d.operator) = "or"
       /\ \E i \in DOMAIN d.conditions : f[d.conditions[i]]
    \/ /\ d.kind = "group" /\ Lower(d.operator) = "not"
       /\ \E i \in DOMAIN d.conditions : ~f[d.conditions[i]]

\* Verdicts whose evaluation raises stay verdicts.
LEMMA VerdictsTyped ==
    ASSUME NEW n \in Nat, NEW verdicts, DOMAIN verdicts = 1..n, \A i \in 1..n : verdicts[i] \in Verdicts
    PROVE  AllOf(verdicts) \in Verdicts /\ AnyOf(verdicts) \in Verdicts
<1>1. AllOf(verdicts) \in Verdicts
  <2>1. CASE Range(verdicts) \subseteq {"match"}
    BY <2>1 DEF AllOf, Verdicts
  <2>2. CASE ~ (Range(verdicts) \subseteq {"match"})
    <3>1. \E i \in 1..n : verdicts[i] \in {"no", "raises"}
      BY <2>2 DEF Range, Verdicts
    <3>2. First(verdicts, {"no", "raises"}) \in {"no", "raises"}
      BY <3>1, FirstIsIn
    <3> QED BY <2>2, <3>2 DEF AllOf, Verdicts
  <2> QED BY <2>1, <2>2
<1>2. AnyOf(verdicts) \in Verdicts
  <2>1. CASE Range(verdicts) \subseteq {"no"}
    BY <2>1 DEF AnyOf, Verdicts
  <2>2. CASE ~ (Range(verdicts) \subseteq {"no"})
    <3>1. \E i \in 1..n : verdicts[i] \in {"match", "raises"}
      BY <2>2 DEF Range, Verdicts
    <3>2. First(verdicts, {"match", "raises"}) \in {"match", "raises"}
      BY <3>1, FirstIsIn
    <3> QED BY <2>2, <3>2 DEF AnyOf, Verdicts
  <2> QED BY <2>1, <2>2
<1> QED BY <1>1, <1>2

LEMMA ConditionVerdict ==
    ASSUME NEW c, NEW event
    PROVE  /\ EvaluateCondition(c, event) \in Verdicts
           /\ Simple(c) =>
                  EvaluateCondition(c, event) = IF Holds(c.operator, FieldValue(event, c.field), c.value)
                                                THEN "match" ELSE "no"
<1>1. CASE c.kind = "leaf"
  <2>1. EvaluateCondition(c, event) = IF Raises(c, FieldValue(event, c.field)) THEN "raises"
                                      ELSE Verdict(Holds(c.operator, FieldValue(event, c.field), c.value))
    BY <1>1 DEF EvaluateCondition
  <2>2. Simple(c) => ~Raises(c, FieldValue(event, c.field))
    BY DEF Simple, Raises
  <2> QED BY <2>1, <2>2 DEF Verdict, Verdicts
<1>2. CASE c.kind = "group"
  BY <1>2 DEF EvaluateCondition, Verdict, Verdicts, Simple
<1>3. CASE c.kind \notin {"leaf", "group"}
  BY <1>3 DEF EvaluateCondition, Verdict, Verdicts, Simple
<1> QED BY <1>1, <1>2, <1>3

\* A leaf spelled like a group is one without conditions.
LEMMA EmptyGroup ==
    ASSUME NEW d, Lower(d.operator) \in {"and", "or"}
    PROVE  EvaluateGroup(d, <<>>) \in Verdicts
<1>1. AllOf(<<>>) \in Verdicts /\ AnyOf(<<>>) \in Verdicts
  <2>1. 0 \in Nat /\ DOMAIN <<>> = 1..0 /\ \A i \in 1..0 : <<>>[i] \in Verdicts
    OBVIOUS
  <2> QED BY <2>1, VerdictsTyped
<1> QED BY <1>1 DEF EvaluateGroup

\* EvaluateRule is what its recursion says.
LEMMA EvaluateUnfolds ==
    ASSUME NEW event
    PROVE  \E f : /\ f = [d \in JsonConditions |-> EvaluateStep(f, d, event)]
                  /\ \A c : EvaluateRule(c, event) = f[c]
<1> DEFINE Fs == [JsonConditions -> Verdicts]
           F == [f \in Fs |-> [d \in JsonConditions |-> EvaluateStep(f, d, event)]]
<1>1. ASSUME NEW f \in Fs, NEW d \in JsonConditions PROVE EvaluateStep(f, d, event) \in Verdicts
  <2>1. CASE d.kind = "group" /\ Lower(d.operator) \in {"and", "or"}
    <3> DEFINE verdicts == [i \in DOMAIN d.conditions |-> f[d.conditions[i]]]
    <3>1. /\ Len(d.conditions) \in Nat /\ DOMAIN verdicts = 1..Len(d.conditions)
          /\ \A i \in 1..Len(d.conditions) : verdicts[i] \in Verdicts
      BY <2>1, InsideConditions
    <3>2. EvaluateStep(f, d, event) = EvaluateGroup(d, verdicts)
      BY <2>1 DEF EvaluateStep
    <3> HIDE DEF verdicts
    <3> QED BY <2>1, <3>1, <3>2, VerdictsTyped DEF EvaluateGroup
  <2>2. CASE d.kind = "list"
    <3> DEFINE verdicts == [i \in DOMAIN d.conditions |-> EvaluateCondition(d.conditions[i], event)]
    <3>1. /\ Len(d.conditions) \in Nat /\ DOMAIN verdicts = 1..Len(d.conditions)
          /\ \A i \in 1..Len(d.conditions) : verdicts[i] \in Verdicts
      BY <2>2, InsideConditions, ConditionVerdict
    <3>2. EvaluateStep(f, d, event) = AllOf(verdicts)
      BY <2>2 DEF EvaluateStep
    <3> HIDE DEF verdicts
    <3> QED BY <3>1, <3>2, VerdictsTyped
  <2>3. CASE d.kind = "leaf" /\ Lower(d.operator) \in {"and", "or"}
    BY <2>3, EmptyGroup DEF EvaluateStep
  <2>4. CASE d.kind # "list" /\ ~ (d.kind \in {"group", "leaf"} /\ Lower(d.operator) \in {"and", "or"})
    BY <2>4, ConditionVerdict DEF EvaluateStep
  <2> QED BY <2>1, <2>2, <2>3, <2>4
<1>2. ASSUME NEW f \in Fs, NEW g \in Fs, NEW c \in JsonConditions,
             \A d \in JsonConditions : Nesting[d] < Nesting[c] => f[d] = g[d]
      PROVE  EvaluateStep(f, c, event) = EvaluateStep(g, c, event)
  <2>1. CASE c.kind = "group"
    <3>1. \A i \in DOMAIN c.conditions : f[c.conditions[i]] = g[c.conditions[i]]
      BY <1>2, <2>1, InsideConditions
    <3>2. [i \in DOMAIN c.conditions |-> f[c.conditions[i]]] = [i \in DOMAIN c.conditions |-> g[c.conditions[i]]]
      BY <3>1
    <3> QED BY <3>2 DEF EvaluateStep
  <2>2. CASE c.kind # "group"
    BY <2>2 DEF EvaluateStep
  <2> QED BY <2>1, <2>2
<1>3. F \in [Fs -> Fs]
  BY <1>1
<1>4. \A f \in Fs : \A d \in JsonConditions : F[f][d] = EvaluateStep(f, d, event)
  OBVIOUS
<1>5. \E f \in Fs : f = F[f]
  <2>1. "no" \in Verdicts
    BY DEF Verdicts
  <2> HIDE DEF F
  <2> QED BY <1>2, <1>3, <1>4, <2>1, RecursionDefines
<1>6. \E f : f = [d \in JsonConditions |-> EvaluateStep(f, d, event)]
  BY <1>5
<1>7. \A c : EvaluateRule(c, event) = (CHOOSE f : f = [d \in JsonConditions |-> EvaluateStep(f, d, event)])[c]
  BY DEF EvaluateRule, EvaluateStep
<1> QED BY <1>6, <1>7

\* A rule matches, does not, or raises.
LEMMA RuleVerdict ==
    ASSUME NEW event, NEW c \in JsonConditions
    PROVE  EvaluateRule(c, event) \in Verdicts
<1>1. PICK f : /\ f = [d \in JsonConditions |-> EvaluateStep(f, d, event)]
               /\ \A d : EvaluateRule(d, event) = f[d]
  BY EvaluateUnfolds
<1>2. \A d \in JsonConditions : f[d] = EvaluateStep(f, d, event)
  BY <1>1
<1> DEFINE Odd == { d \in JsonConditions : f[d] \notin Verdicts }
<1>3. ASSUME Odd # {} PROVE FALSE
  <2>1. PICK d \in Odd : \A b \in Odd : ~ (Nesting[b] < Nesting[d])
    BY <1>3, LeastNested
  <2>2. CASE d.kind = "group" /\ Lower(d.operator) \in {"and", "or"}
    <3> DEFINE verdicts == [i \in DOMAIN d.conditions |-> f[d.conditions[i]]]
    <3>1. /\ Len(d.conditions) \in Nat /\ DOMAIN verdicts = 1..Len(d.conditions)
          /\ \A i \in 1..Len(d.conditions) : verdicts[i] \in Verdicts
      BY <2>1, <2>2, InsideConditions
    <3>2. EvaluateStep(f, d, event) = EvaluateGroup(d, verdicts)
      BY <2>2 DEF EvaluateStep
    <3> HIDE DEF verdicts
    <3>3. EvaluateGroup(d, verdicts) \in Verdicts
      BY <2>2, <3>1, VerdictsTyped DEF EvaluateGroup
    <3> QED BY <1>2, <2>1, <3>2, <3>3
  <2>3. CASE d.kind = "list"
    <3> DEFINE verdicts == [i \in DOMAIN d.conditions |-> EvaluateCondition(d.conditions[i], event)]
    <3>1. /\ Len(d.conditions) \in Nat /\ DOMAIN verdicts = 1..Len(d.conditions)
          /\ \A i \in 1..Len(d.conditions) : verdicts[i] \in Verdicts
      BY <2>1, <2>3, InsideConditions, ConditionVerdict
    <3>2. EvaluateStep(f, d, event) = AllOf(verdicts)
      BY <2>3 DEF EvaluateStep
    <3> HIDE DEF verdicts
    <3>3. AllOf(verdicts) \in Verdicts
      BY <3>1, VerdictsTyped
    <3> QED BY <1>2, <2>1, <3>2, <3>3
  <2>4. CASE d.kind = "leaf" /\ Lower(d.operator) \in {"and", "or"}
    <3>1. EvaluateStep(f, d, event) \in Verdicts
      BY <2>4, EmptyGroup DEF EvaluateStep
    <3> QED BY <1>2, <2>1, <3>1
  <2>5. CASE d.kind # "list" /\ ~ (d.kind \in {"group", "leaf"} /\ Lower(d.operator) \in {"and", "or"})
    <3>1. EvaluateStep(f, d, event) \in Verdicts
      BY <2>5, ConditionVerdict DEF EvaluateStep
    <3> QED BY <1>2, <2>1, <3>1
  <2> QED BY <2>2, <2>3, <2>4, <2>5
<1> QED BY <1>1, <1>3

LEMMA MadeUnfolds ==
    ASSUME NEW operators
    PROVE  \E f : /\ f = [d \in JsonConditions |-> MadeStep(f, d, operators)]
                  /\ \A c : MadeOf(c, operators) = f[c]
<1> DEFINE Fs == [JsonConditions -> BOOLEAN]
           F == [f \in Fs |-> [d \in JsonConditions |-> MadeStep(f, d, operators)]]
<1>1. ASSUME NEW f \in Fs, NEW d \in JsonConditions PROVE MadeStep(f, d, operators) \in BOOLEAN
  BY InsideConditions DEF MadeStep
<1>2. ASSUME NEW f \in Fs, NEW g \in Fs, NEW c \in JsonConditions,
             \A d \in JsonConditions : Nesting[d] < Nesting[c] => f[d] = g[d]
      PROVE  MadeStep(f, c, operators) = MadeStep(g, c, operators)
  <2>1. CASE c.kind = "group"
    <3>1. \A i \in DOMAIN c.conditions : f[c.conditions[i]] = g[c.conditions[i]]
      BY <1>2, <2>1, InsideConditions
    <3> QED BY <2>1, <3>1 DEF MadeStep
  <2>2. CASE c.kind # "group"
    BY <2>2 DEF MadeStep
  <2> QED BY <2>1, <2>2
<1>3. F \in [Fs -> Fs]
  BY <1>1
<1>4. \A f \in Fs : \A d \in JsonConditions : F[f][d] = MadeStep(f, d, operators)
  OBVIOUS
<1>5. \E f \in Fs : f = F[f]
  <2>1. FALSE \in BOOLEAN
    OBVIOUS
  <2>2. \A f, g \in Fs : \A c \in JsonConditions :
            (\A d \in JsonConditions : Nesting[d] < Nesting[c] => f[d] = g[d]) => F[f][c] = F[g][c]
    BY <1>2, <1>4
  <2> HIDE DEF F
  <2> QED BY <1>3, <2>1, <2>2, RecursionDefines
<1>6. \E f : f = [d \in JsonConditions |-> MadeStep(f, d, operators)]
  BY <1>5
<1>7. \A c : MadeOf(c, operators) = (CHOOSE f : f = [d \in JsonConditions |-> MadeStep(f, d, operators)])[c]
  BY DEF MadeOf, MadeStep
<1> QED BY <1>6, <1>7

LEMMA MeansUnfolds ==
    ASSUME NEW event
    PROVE  \E f : /\ f = [d \in JsonConditions |-> MeansStep(f, d, event)]
                  /\ \A c : Means(c, event) = f[c]
<1> DEFINE Fs == [JsonConditions -> BOOLEAN]
           F == [f \in Fs |-> [d \in JsonConditions |-> MeansStep(f, d, event)]]
<1>1. ASSUME NEW f \in Fs, NEW d \in JsonConditions PROVE MeansStep(f, d, event) \in BOOLEAN
  BY InsideConditions DEF MeansStep
<1>2. ASSUME NEW f \in Fs, NEW g \in Fs, NEW c \in JsonConditions,
             \A d \in JsonConditions : Nesting[d] < Nesting[c] => f[d] = g[d]
      PROVE  MeansStep(f, c, event) = MeansStep(g, c, event)
  BY <1>2, InsideConditions DEF MeansStep
<1>3. F \in [Fs -> Fs]
  BY <1>1
<1>4. \A f \in Fs : \A d \in JsonConditions : F[f][d] = MeansStep(f, d, event)
  OBVIOUS
<1>5. \E f \in Fs : f = F[f]
  <2>1. FALSE \in BOOLEAN
    OBVIOUS
  <2>2. \A f, g \in Fs : \A c \in JsonConditions :
            (\A d \in JsonConditions : Nesting[d] < Nesting[c] => f[d] = g[d]) => F[f][c] = F[g][c]
    BY <1>2, <1>4
  <2> HIDE DEF F
  <2> QED BY <1>3, <2>1, <2>2, RecursionDefines
<1>6. \E f : f = [d \in JsonConditions |-> MeansStep(f, d, event)]
  BY <1>5
<1>7. \A c : Means(c, event) = (CHOOSE f : f = [d \in JsonConditions |-> MeansStep(f, d, event)])[c]
  BY DEF Means, MeansStep
<1> QED BY <1>6, <1>7

\* Conditions made of leaves and AND and OR groups, however deep, are evaluated to
\* what they mean and never raise.
THEOREM PlainVerdict ==
    ASSUME NEW event, NEW c \in JsonConditions, Plain(c)
    PROVE  /\ EvaluateRule(c, event) \in {"match", "no"}
           /\ EvaluateRule(c, event) = "match" <=> Means(c, event)
<1>1. PICK e : /\ e = [d \in JsonConditions |-> EvaluateStep(e, d, event)]
               /\ \A d : EvaluateRule(d, event) = e[d]
  BY EvaluateUnfolds
<1>2. PICK p : /\ p = [d \in JsonConditions |-> MadeStep(p, d, {"and", "or"})]
               /\ \A d : MadeOf(d, {"and", "or"}) = p[d]
  BY MadeUnfolds
<1>3. PICK m : /\ m = [d \in JsonConditions |-> MeansStep(m, d, event)]
               /\ \A d : Means(d, event) = m[d]
  BY MeansUnfolds
<1>4. \A d \in JsonConditions : /\ e[d] = EvaluateStep(e, d, event)
                                /\ p[d] = MadeStep(p, d, {"and", "or"})
                                /\ m[d] = MeansStep(m, d, event)
  BY <1>1, <1>2, <1>3
<1> DEFINE wrong == { d \in JsonConditions : p[d] /\ ~ (e[d] \in {"match", "no"} /\ (e[d] = "match" <=> m[d])) }
<1>5. ASSUME wrong # {} PROVE FALSE
  <2>1. PICK d \in wrong : \A b \in wrong : ~ (Nesting[b] < Nesting[d])
    <3>1. wrong \subseteq JsonConditions
      OBVIOUS
    <3> HIDE DEF wrong
    <3> QED BY <1>5, <3>1, LeastNested
  <2>2. d \in JsonConditions /\ p[d] /\ ~ (e[d] \in {"match", "no"} /\ (e[d] = "match" <=> m[d]))
    BY <2>1
  <2>3. \A b \in JsonConditions : Nesting[b] < Nesting[d] /\ p[b] =>
            e[b] \in {"match", "no"} /\ (e[b] = "match" <=> m[b])
    BY <2>1
  <2> HIDE DEF wrong
  <2>4. MadeStep(p, d, {"and", "or"})
    BY <1>4, <2>2
  <2>5. CASE Simple(d)
    <3>1. e[d] = EvaluateCondition(d, event)
      BY <1>4, <2>2, <2>5 DEF EvaluateStep, Simple
    <3>2. m[d] <=> Holds(d.operator, FieldValue(event, d.field), d.value)
      BY <1>4, <2>2, <2>5 DEF MeansStep, Simple
    <3> QED BY <2>2, <2>5, <3>1, <3>2, ConditionVerdict
  <2>6. CASE d.kind = "list"
    <3> DEFINE verdicts == [i \in DOMAIN d.conditions |-> EvaluateCondition(d.conditions[i], event)]
    <3>1. /\ Len(d.conditions) \in Nat /\ DOMAIN d.conditions = 1..Len(d.conditions)
          /\ \A i \in DOMAIN d.conditions : d.conditions[i] \in JsonConditions
      BY <2>2, <2>6, InsideConditions
    <3>2. \A i \in DOMAIN d.conditions : Simple(d.conditions[i])
      BY <2>4, <2>6 DEF MadeStep, Simple
    <3>3. e[d] = AllOf(verdicts)
      BY <1>4, <2>2, <2>6 DEF EvaluateStep
    <3>4. m[d] <=> \A i \in DOMAIN d.conditions : m[d.conditions[i]]
      BY <1>4, <2>2, <2>6 DEF MeansStep
    <3>5. ASSUME NEW i \in DOMAIN d.conditions
          PROVE  verdicts[i] \in {"match", "no"} /\ (verdicts[i] = "match" <=> m[d.conditions[i]])
      <4>1. PICK l \in JsonConditions : l = d.conditions[i] /\ Simple(l)
        BY <3>1, <3>2
      <4>2. m[l] <=> Holds(l.operator, FieldValue(event, l.field), l.value)
        BY <1>4, <4>1 DEF MeansStep, Simple
      <4> QED BY <4>1, <4>2, ConditionVerdict
    <3>6. DOMAIN verdicts = 1..Len(d.conditions)
      BY <3>1
    <3> HIDE DEF verdicts
    <3>7. e[d] \in {"match", "no"} /\ (e[d] = "match" <=> \A i \in 1..Len(d.conditions) : verdicts[i] = "match")
      BY <3>1, <3>3, <3>5, <3>6, AllOfVerdicts
    <3> QED BY <2>2, <3>1, <3>4, <3>5, <3>7
  <2>7. CASE d.kind = "group"
    <3> DEFINE verdicts == [i \in DOMAIN d.conditions |-> e[d.conditions[i]]]
    <3>1. /\ Len(d.conditions) \in Nat /\ DOMAIN d.conditions = 1..Len(d.conditions)
          /\ \A i \in DOMAIN d.conditions : d.conditions[i] \in JsonConditions
                                            /\ Nesting[d.conditions[i]] < Nesting[d]
      BY <2>2, <2>7, InsideConditions
    <3>2. Lower(d.operator) \in {"and", "or"} /\ \A i \in DOMAIN d.conditions : p[d.conditions[i]]
      BY <2>4, <2>7 DEF MadeStep, Simple
    <3>3. e[d] = EvaluateGroup(d, verdicts)
      BY <1>4, <2>2, <2>7, <3>2 DEF EvaluateStep
    <3>4. \A i \in 1..Len(d.conditions) :
              verdicts[i] \in {"match", "no"} /\ (verdicts[i] = "match" <=> m[d.conditions[i]])
      BY <2>3, <3>1, <3>2
    <3>5. DOMAIN verdicts = 1..Len(d.conditions)
      BY <3>1
    <3> HIDE DEF verdicts
    <3>6. CASE Lower(d.operator) = "and"
      <4>1. e[d] = AllOf(verdicts)
        BY <3>3, <3>6 DEF EvaluateGroup
      <4>2. m[d] <=> \A i \in DOMAIN d.conditions : m[d.conditions[i]]
        BY <1>4, <2>2, <2>7, <3>6 DEF MeansStep
      <4>3. e[d] \in {"match", "no"} /\ (e[d] = "match" <=> \A i \in 1..Len(d.conditions) : verdicts[i] = "match")
        BY <3>1, <3>4, <3>5, <4>1, AllOfVerdicts
      <4> QED BY <2>2, <3>1, <3>4, <4>2, <4>3
    <3>7. CASE Lower(d.operator) = "or"
      <4>1. e[d] = AnyOf(verdicts)
        BY <3>3, <3>7 DEF EvaluateGroup
      <4>2. m[d] <=> \E i \in DOMAIN d.conditions : m[d.conditions[i]]
        BY <1>4, <2>2, <2>7, <3>7 DEF MeansStep
      <4>3. e[d] \in {"match", "no"} /\ (e[d] = "match" <=> \E i \in 1..Len(d.conditions) : verdicts[i] = "match")
        BY <3>1, <3>4, <3>5, <4>1, AnyOfVerdicts
      <4> QED BY <2>2, <3>1, <3>4, <4>2, <4>3
    <3> QED BY <3>2, <3>6, <3>7
  <2> QED BY <2>4, <2>5, <2>6, <2>7 DEF MadeStep
<1>6. p[c]
  BY <1>2 DEF Plain
<1>7. e[c] \in {"match", "no"} /\ (e[c] = "match" <=> m[c])
  BY <1>5, <1>6
<1> QED BY <1>1, <1>3, <1>7

\* A NOT group is read as a condition without a field: spelled "not" it matches
\* every event, spelled "NOT" it matches none, whatever conditions it holds.
THEOREM NotGroupsIgnoreEvents ==
    ASSUME NEW event, NEW c \in JsonConditions, c.kind = "group", Lower(c.operator) = "not"
    PROVE  EvaluateRule(c, event) = IF c.operator = "not" THEN "match" ELSE "no"
<1>1. PICK e : /\ e = [d \in JsonConditions |-> EvaluateStep(e, d, event)]
               /\ \A d : EvaluateRule(d, event) = e[d]
  BY EvaluateUnfolds
<1>2. e[c] = EvaluateStep(e, c, event)
  BY <1>1
<1>3. e[c] = EvaluateCondition(c, event)
  BY <1>2 DEF EvaluateStep
<1>4. EvaluateCondition(c, event) = Verdict(Holds(c.operator, None, None))
  BY DEF EvaluateCondition
<1>5. c.operator \in {"not", "Not", "nOt", "noT", "NOt", "NoT", "nOT", "NOT"}
  BY DEF Lower
<1>6. CASE c.operator = "not"
  <2>1. Holds(c.operator, None, None) <=> ~ Eq(None, None)
    BY <1>6 DEF Holds
  <2> QED BY <1>1, <1>3, <1>4, <1>6, <2>1 DEF Verdict, Eq, Missing, None
<1>7. CASE c.operator \in {"Not", "nOt", "noT", "NOt", "NoT", "nOT", "NOT"}
  <2>1. ~ Holds(c.operator, None, None)
    BY <1>7 DEF Holds
  <2> QED BY <1>1, <1>3, <1>4, <1>7, <2>1 DEF Verdict
<1> QED BY <1>5, <1>6, <1>7

-----------------------------------------------------------------------------
(* The operators of a single condition. *)

\* What texts and None are made of.
Words == STRING \cup {"none"}

LEMMA WordsOfTexts ==
    ASSUME NEW s \in Seq(STRING)
    PROVE  s \in Seq(Words)
<1>1. Len(s) \in Nat /\ s = [i \in 1..Len(s) |-> s[i]] /\ \A i \in 1..Len(s) : s[i] \in STRING
  OBVIOUS
<1>2. \A i \in 1..Len(s) : s[i] \in Words
  BY <1>1 DEF Words
<1> HIDE DEF Words
<1> QED BY <1>1, <1>2, SeqDef

LEMMA ValueFields ==
    ASSUME NEW v, IsValue(v)
    PROVE  /\ v.kind \in {"none", "number", "text"} /\ v.parts \in Seq(Words)
           /\ v.kind = "none" => v = None
           /\ v.kind = "number" => v.numeral \in Numerals
<1>1. ASSUME v = None
      PROVE  v.kind = "none" /\ v.parts \in Seq(Words)
  <2>1. v.kind = "none" /\ v.parts = <<"none">> /\ "none" \in Words
    BY <1>1 DEF None, Words
  <2> HIDE DEF Words
  <2> QED BY <2>1
<1>2. ASSUME NEW n \in Numerals, v = Number(n)
      PROVE  v.kind = "number" /\ v.parts \in Seq(Words) /\ v.numeral = n
  <2>1. v.kind = "number" /\ v.parts = Written[n] /\ v.numeral = n /\ Written[n] \in Seq(STRING)
    BY <1>2, ConditionsAssumption DEF Number
  <2> QED BY <2>1, WordsOfTexts
<1>3. ASSUME v.kind = "text", v.parts \in Seq(STRING)
      PROVE  v.parts \in Seq(Words)
  BY <1>3, WordsOfTexts
<1>4. \/ v = None
      \/ \E n \in Numerals : v = Number(n)
      \/ v.kind = "text" /\ v.parts \in Seq(STRING)
  BY DEF IsValue
<1> QED BY <1>1, <1>2, <1>3, <1>4

\* A text contains itself, its prefixes and its suffixes.
LEMMA PartsContained ==
    ASSUME NEW S, NEW s \in Seq(S), NEW t \in Seq(S)
    PROVE  /\ IsPrefix(s, s) /\ IsSuffix(s, s)
           /\ IsPrefix(s, t) => s \in SubSeqs(t)
           /\ IsSuffix(s, t) => s \in SubSeqs(t)
<1>1. IsPrefix(s, s) /\ IsSuffix(s, s)
  BY DEF IsPrefix, IsSuffix, Reverse
<1>2. Len(s) \in Nat /\ Len(t) \in Nat /\ SubSeq(s, 1, Len(s)) = s
  OBVIOUS
<1>3. ASSUME IsPrefix(s, t) PROVE s \in SubSeqs(t)
  <2>1. s = SubSeq(t, 0 + 1, Len(s)) /\ Len(s) \in 0..Len(t) /\ 0 \in 0..Len(t)
    BY <1>2, <1>3 DEF IsPrefix
  <2> QED BY <2>1 DEF SubSeqs
<1>4. ASSUME IsSuffix(s, t) PROVE s \in SubSeqs(t)
  <2> DEFINE r == Reverse(s)
             q == Reverse(t)
  <2>1. /\ r \in Seq(S) /\ Len(r) = Len(s) /\ \A i \in 1..Len(s) : r[i] = s[(Len(s) - i) + 1]
        /\ q \in Seq(S) /\ Len(q) = Len(t) /\ \A i \in 1..Len(t) : q[i] = t[(Len(t) - i) + 1]
    BY DEF Reverse
  <2>2. Len(r) <= Len(q) /\ SubSeq(r, 1, Len(r)) = SubSeq(q, 1, Len(r))
    BY <1>4 DEF IsSuffix, IsPrefix
  <2> HIDE DEF r, q
  <2>3. \A i \in 1..Len(s) : r[i] = q[i]
    <3>1. \A i \in 1..Len(s) : SubSeq(r, 1, Len(r))[i] = r[i] /\ SubSeq(q, 1, Len(r))[i] = q[i]
      <4>1. 1 \in 1..(Len(r) + 1) /\ Len(r) \in 0..Len(r) /\ Len(r) \in 0..Len(q)
        BY <1>2, <2>1, <2>2
      <4>3. (\A i \in 1..Len(r) : r[i] \in S) /\ (\A i \in 1..Len(r) : q[i] \in S)
        BY <1>2, <2>1, <2>2
      <4>2. /\ \A i \in 1..(Len(r) - 1 + 1) : SubSeq(r, 1, Len(r))[i] = r[1 + i - 1]
            /\ \A i \in 1..(Len(r) - 1 + 1) : SubSeq(q, 1, Len(r))[i] = q[1 + i - 1]
        BY <1>2, <4>1, <4>3, SubSeqProperties
      <4> QED BY <1>2, <2>1, <4>2
    <3> QED BY <2>2, <3>1
  <2>4. PICK k \in 0..Len(t) : k = Len(t) - Len(s)
    <3>1. Len(s) <= Len(t)
      BY <2>1, <2>2
    <3>2. Len(t) - Len(s) \in 0..Len(t)
      BY <1>2, <3>1
    <3> QED BY <3>2
  <2>5. ASSUME NEW i \in 1..Len(s) PROVE s[i] = t[k + i]
    <3>1. PICK j \in 1..Len(s) : j = (Len(s) - i) + 1
      BY <1>2
    <3>2. (Len(s) - j) + 1 = i /\ (Len(t) - j) + 1 = k + i /\ j \in 1..Len(t)
      BY <1>2, <2>1, <2>2, <2>4, <3>1
    <3> QED BY <2>1, <2>3, <3>2
  <2>6. s = SubSeq(t, k + 1, Len(t))
    <3>1. /\ SubSeq(t, k + 1, Len(t)) \in Seq(S) /\ Len(SubSeq(t, k + 1, Len(t))) = Len(s)
          /\ \A i \in 1..Len(s) : SubSeq(t, k + 1, Len(t))[i] = t[k + i]
      BY <1>2, <2>1, <2>2, <2>4
    <3> DEFINE u == SubSeq(t, k + 1, Len(t))
    <3>2. u \in Seq(S) /\ Len(u) = Len(s) /\ \A i \in 1..Len(s) : u[i] = s[i]
      BY <2>5, <3>1
    <3> HIDE DEF u
    <3>3. s = u
      BY <3>2, SeqEqual
    <3> QED BY <3>3 DEF u
  <2>7. k \in 0..Len(t) /\ Len(t) \in 0..Len(t)
    BY <1>2
  <2> QED BY <2>6, <2>7 DEF SubSeqs
<1> QED BY <1>1, <1>3, <1>4

\* What each operator asks of a value v and a value x of a condition.
LEMMA HoldsOf ==
    ASSUME NEW v, NEW x
    PROVE  /\ Holds("eq", v, x) = Eq(v, x)
           /\ Holds("contains", v, x) = ContainsText(v, x)
           /\ Holds("in", v, x) = InList(v, x)
           /\ Holds("regex", v, x) = Regex(v, x)
           /\ Holds("exists", v, x) = ~Missing(v)
           /\ Holds("startswith", v, x) = StartsWith(v, x)
           /\ Holds("endswith", v, x) = EndsWith(v, x)
<1> QED BY DEF Holds

LEMMA HoldsOrdered ==
    ASSUME NEW v, NEW x
    PROVE  /\ Holds("gt", v, x) <=> BothPresent(v, x) /\ \E a \in Float(v), b \in Float(x) : a > b
           /\ Holds("gte", v, x) <=> BothPresent(v, x) /\ \E a \in Float(v), b \in Float(x) : a >= b
           /\ Holds("lt", v, x) <=> BothPresent(v, x) /\ \E a \in Float(v), b \in Float(x) : a < b
           /\ Holds("lte", v, x) <=> BothPresent(v, x) /\ \E a \in Float(v), b \in Float(x) : a <= b
<1> QED BY DEF Holds, Compare, Ordering

\* A value is read as at most one number, and a number as what it denotes.
LEMMA FloatUnique ==
    ASSUME NEW v, IsValue(v)
    PROVE  /\ Float(v) \subseteq Int
           /\ \A a, b \in Float(v) : a = b
           /\ v.kind = "number" => Float(v) = {Worth[v.numeral]} /\ Worth[v.numeral] \in Int
<1>1. CASE v.kind = "number"
  BY <1>1, ValueFields, ConditionsAssumption DEF Float
<1>2. CASE v.kind # "number"
  <2>1. Float(v) = { Worth[n] : n \in { m \in Readable : Written[m] = v.parts } }
    BY <1>2 DEF Float
  <2>2. ASSUME NEW a \in Float(v)
        PROVE  \E n \in Readable : Written[n] = v.parts /\ a = Worth[n] /\ a \in Int
    BY <2>1, <2>2, ConditionsAssumption
  <2>3. ASSUME NEW a \in Float(v), NEW b \in Float(v) PROVE a = b
    BY <2>2, <2>3, ConditionsAssumption
  <2> QED BY <1>2, <2>2, <2>3
<1> QED BY <1>1, <1>2

\* The operators fit together on any value of a field and any value of a
\* condition that is not a list.
LEMMA OperatorsFitOn ==
    ASSUME NEW v, IsValue(v), NEW x, IsValue(x)
    PROVE  FitOn(v, x)
<1>1. /\ v.kind \in {"none", "number", "text"} /\ x.kind \in {"none", "number", "text"}
      /\ v.parts \in Seq(Words) /\ x.parts \in Seq(Words)
  BY ValueFields
<1>2. /\ IsPrefix(x.parts, x.parts) /\ IsSuffix(x.parts, x.parts)
      /\ IsPrefix(x.parts, v.parts) => x.parts \in SubSeqs(v.parts)
      /\ IsSuffix(x.parts, v.parts) => x.parts \in SubSeqs(v.parts)
  BY <1>1, PartsContained
<1>3. /\ Float(v) \subseteq Int /\ \A a, b \in Float(v) : a = b
      /\ Float(x) \subseteq Int /\ \A a, b \in Float(x) : a = b
      /\ v.kind = "number" => Float(v) = {Worth[v.numeral]} /\ Worth[v.numeral] \in Int
      /\ x.kind = "number" => Float(x) = {Worth[x.numeral]} /\ Worth[x.numeral] \in Int
  BY FloatUnique
<1>4. Holds("in", v, x) <=> ~Missing(v) /\ x.parts = v.parts
  BY <1>1, HoldsOf DEF InList
<1>5. /\ (v.kind = "text" /\ x.kind = "text") => (Holds("eq", v, x) <=> Holds("in", v, x))
      /\ (Holds("in", v, x) /\ ~Missing(x)) =>
             Holds("contains", v, x) /\ Holds("startswith", v, x) /\ Holds("endswith", v, x)
  <2>1. ASSUME v.kind = "text", x.kind = "text" PROVE Holds("eq", v, x) <=> Holds("in", v, x)
    BY <1>4, <2>1, HoldsOf DEF Eq, Missing
  <2>2. ASSUME Holds("in", v, x), ~Missing(x)
        PROVE  Holds("contains", v, x) /\ Holds("startswith", v, x) /\ Holds("endswith", v, x)
    BY <1>2, <1>4, <2>2, HoldsOf DEF StartsWith, EndsWith, ContainsText, BothPresent
  <2> QED BY <2>1, <2>2
<1>6. Holds("startswith", v, x) \/ Holds("endswith", v, x) => Holds("contains", v, x)
  BY <1>2, HoldsOf DEF StartsWith, EndsWith, ContainsText
<1>7. Holds("regex", v, x) => Holds("contains", v, x)
  BY HoldsOf DEF Regex, ContainsText, BothPresent, Missing
<1>8. ~(Holds("lt", v, x) /\ Holds("gte", v, x)) /\ ~(Holds("gt", v, x) /\ Holds("lte", v, x))
  BY <1>3, HoldsOrdered
<1>9. ASSUME v.kind = "number", x.kind = "number"
      PROVE  /\ Holds("lt", v, x) # Holds("gte", v, x) /\ Holds("gt", v, x) # Holds("lte", v, x)
             /\ Holds("gte", v, x) /\ Holds("lte", v, x) <=> Holds("eq", v, x)
  <2>1. BothPresent(v, x)
    BY <1>9 DEF BothPresent, Missing
  <2>2. /\ Holds("gt", v, x) <=> Worth[v.numeral] > Worth[x.numeral]
        /\ Holds("gte", v, x) <=> Worth[v.numeral] >= Worth[x.numeral]
        /\ Holds("lt", v, x) <=> Worth[v.numeral] < Worth[x.numeral]
        /\ Holds("lte", v, x) <=> Worth[v.numeral] <= Worth[x.numeral]
    BY <1>3, <1>9, <2>1, HoldsOrdered
  <2>3. Holds("eq", v, x) <=> Worth[v.numeral] = Worth[x.numeral]
    BY <1>9, HoldsOf DEF Eq
  <2>4. Worth[v.numeral] \in Int /\ Worth[x.numeral] \in Int
    BY <1>3, <1>9
  <2> HIDE DEF Holds
  <2> QED BY <2>2, <2>3, <2>4
<1>10. ASSUME Missing(v),
              NEW operator \in {"eq", "contains", "gt", "gte", "lt", "lte", "in", "regex",
                                "exists", "startswith", "endswith"}
       PROVE  ~Holds(operator, v, x)
  <2>1. /\ ~Eq(v, x) /\ ~ContainsText(v, x) /\ ~InList(v, x) /\ ~Regex(v, x)
        /\ ~StartsWith(v, x) /\ ~EndsWith(v, x) /\ ~BothPresent(v, x)
    BY <1>10 DEF Eq, ContainsText, InList, Regex, StartsWith, EndsWith, BothPresent, Missing
  <2>2. CASE operator \in {"gt", "gte", "lt", "lte"}
    BY <2>1, <2>2, HoldsOrdered
  <2>3. CASE operator = "exists"
    BY <1>10, <2>3, HoldsOf
  <2>4. CASE operator \in {"eq", "contains", "in", "regex", "startswith", "endswith"}
    BY <2>1, <2>4, HoldsOf
  <2> QED BY <2>2, <2>3, <2>4
<1> QED BY <1>5, <1>6, <1>7, <1>8, <1>9, <1>10 DEF FitOn

-----------------------------------------------------------------------------
(* OperatorsFit.  Only what could be parsed is stored, and the field of such  *)
(* an event is a value.                                                       *)

Parsable(t, i) == i \in DOMAIN Events(t) /\ Events(t)[i] # Unparsable

Parsed ==
    /\ TypeOK
    /\ \A t \in Tasks : /\ task[t].at \in DOMAIN Events(t)
                        /\ task[t].pc \in Running => Parsable(t, task[t].at)
    /\ \A r \in DOMAIN rows : Parsable(rows[r].task, rows[r].at)

\* What the caller of the pipeline does next.
LEMMA ReturnNext ==
    ASSUME NEW t, NEW isEvent \in BOOLEAN, Via(t) \in {"udp", "rest", "batch"}, task[t] \in TaskStates,
           Return(t, isEvent).pc \notin Finished
    PROVE  \/ Via(t) = "rest" /\ Return(t, isEvent).at = task[t].at /\ Return(t, isEvent).pc = "fallback"
           \/ /\ Via(t) = "batch" /\ task[t].at # Len(Events(t)) /\ Return(t, isEvent).pc = "saving"
              /\ Return(t, isEvent).at = task[t].at + 1 /\ Return(t, isEvent).rule = 1
<1>1. CASE Via(t) = "udp"
  BY <1>1 DEF Return, TaskStates, Finished
<1>2. CASE Via(t) = "rest"
  BY <1>2 DEF Return, TaskStates, Finished
<1>3. CASE Via(t) = "batch"
  BY <1>3 DEF Return, Fresh, Finished
<1> QED BY <1>1, <1>2, <1>3

\* How a step of task t moves its event: it stays and what is done about it could
\* be parsed, or the batch goes on.
EventMoves(t) ==
    \/ /\ task'[t].at = task[t].at
       /\ task'[t].pc \in Running => task[t].pc \in Running \/ Content(t) # Unparsable
    \/ task'[t].at = task[t].at + 1 /\ Via(t) = "batch" /\ task[t].at # Len(Events(t))

\* Rows are only added for the event in hand.
RowsMove(t) ==
    \A r \in DOMAIN rows' :
        \/ r \in DOMAIN rows /\ rows'[r].task = rows[r].task /\ rows'[r].at = rows[r].at
        \/ task[t].pc \in Running /\ rows'[r].task = t /\ rows'[r].at = task[t].at

LEMMA ReturnEventMoves ==
    ASSUME TypeOK, NEW t \in Tasks, NEW isEvent \in BOOLEAN, task[t].pc \in {"saving", "refreshing", "evaluating"},
           task'[t] = Return(t, isEvent)
    PROVE  EventMoves(t)
<1>1. task[t] \in TaskStates /\ Via(t) \in {"udp", "rest", "batch"} /\ task[t].pc \in Running
  BY TaskFields, LoadFacts DEF Running
<1>2. /\ task'[t].pc \in {"ended", "answered", "fallback", "saving"}
      /\ task'[t].at = IF task'[t].pc = "saving" THEN task[t].at + 1 ELSE task[t].at
  BY ReturnFields DEF HoldsRow, HoldsAlert
<1>3. task'[t].pc = "saving" => Via(t) = "batch" /\ task[t].at # Len(Events(t))
  <2>1. "saving" \notin Finished
    BY DEF Finished
  <2> QED BY <1>1, <2>1, ReturnNext
<1> QED BY <1>1, <1>2, <1>3 DEF EventMoves

LEMMA TaskParses ==
    ASSUME TypeOK, NEW t \in Tasks, Accept(t) \/ DropUnparsed(t) \/ TaskStep(t) \/ TaskFails(t)
    PROVE  Moves(t) /\ load' = load /\ EventMoves(t) /\ RowsMove(t)
<1>1. CASE Accept(t) \/ DropUnparsed(t)
  <2>1. /\ Moves(t) /\ SameEvent(t) /\ UNCHANGED <<load, rows>>
    BY <1>1, AcceptMoves
  <2>2. task'[t].pc \in Running => Content(t) # Unparsable
    <3>1. CASE Accept(t)
      BY <3>1 DEF Accept
    <3>2. CASE DropUnparsed(t)
      <4>1. task'[t].pc = "ended"
        BY <3>2 DEF DropUnparsed, TypeOK
      <4> QED BY <4>1 DEF Running
    <3> QED BY <1>1, <3>1, <3>2
  <2> QED BY <2>1, <2>2 DEF EventMoves, RowsMove, SameEvent
<1>2. CASE Save(t) \/ SaveFallback(t)
  <2>1. /\ Moves(t) /\ load' = load /\ AddsRow(t) /\ task'[t].at = task[t].at
        /\ task[t].pc \in {"saving", "fallback"}
    BY <1>2, SaveMoves
  <2>2. task[t].pc \in Running
    BY <2>1 DEF Running
  <2>3. NewRow(t).task = t /\ NewRow(t).at = task[t].at
    BY DEF NewRow
  <2>4. RowsMove(t)
    BY <2>1, <2>2, <2>3 DEF AddsRow, RowsMove
  <2> QED BY <2>1, <2>2, <2>4 DEF EventMoves
<1>3. CASE Refresh(t)
  <2>1. /\ Moves(t) /\ SameEvent(t) /\ load' = load /\ task[t].pc = "refreshing"
        /\ task[t].row \in DOMAIN rows /\ EditsRow(task[t].row)
    BY <1>3, RefreshMoves
  <2> QED BY <2>1 DEF EventMoves, RowsMove, SameEvent, EditsRow, Running
<1>4. CASE AnswerFallback(t) \/ FallbackFails(t)
  <2>1. /\ Moves(t) /\ SameEvent(t) /\ load' = load /\ task[t].pc \in {"fallback", "fallback_refreshing"}
        /\ rows' = rows \/ (task[t].row \in DOMAIN rows /\ EditsRow(task[t].row))
    BY <1>4, FallbackMoves
  <2>2. RowsMove(t)
    BY <2>1 DEF RowsMove, EditsRow
  <2> QED BY <2>1, <2>2 DEF EventMoves, SameEvent, Running
<1>5. CASE SaveFails(t) \/ RefreshFails(t)
  <2>1. /\ Moves(t) /\ task'[t] = Return(t, FALSE) /\ UNCHANGED <<load, rows>>
        /\ task[t].pc \in {"saving", "refreshing"}
    BY <1>5, FailMoves
  <2> QED BY <2>1, ReturnEventMoves DEF RowsMove
<1>6. CASE EvaluationEnds(t) \/ \E k \in RuleNumbers : EvaluationRaises(t, k)
  <2>1. /\ Moves(t) /\ load' = load /\ task[t].pc = "evaluating"
        /\ task[t].row \in DOMAIN rows /\ EditsRow(task[t].row)
        /\ task'[t] = Return(t, TRUE) \/ SameEvent(t)
    BY <1>6, EndMoves
  <2>2. EventMoves(t)
    BY <2>1, ReturnEventMoves DEF EventMoves, SameEvent, Running
  <2> QED BY <2>1, <2>2 DEF RowsMove, EditsRow
<1>7. ASSUME Moves(t), SameEvent(t), UNCHANGED <<load, rows>>, task[t].pc \in HoldsRow
      PROVE  Moves(t) /\ load' = load /\ EventMoves(t) /\ RowsMove(t)
  BY <1>7, Stages DEF EventMoves, RowsMove, SameEvent
<1>8. ASSUME NEW k \in RuleNumbers, Match(t, k)
      PROVE  Moves(t) /\ load' = load /\ EventMoves(t) /\ RowsMove(t)
  BY <1>7, <1>8, MatchMoves DEF HoldsRow
<1>9. CASE InsertAlert(t)
  BY <1>7, <1>9, InsertMoves DEF HoldsRow
<1>10. CASE RereadAlert(t)
  BY <1>7, <1>10, RereadMoves DEF HoldsRow
<1>11. ASSUME NEW c \in Channels, Send(t, c) \/ SendFails(t, c)
       PROVE  Moves(t) /\ load' = load /\ EventMoves(t) /\ RowsMove(t)
  BY <1>7, <1>11, SendMoves DEF HoldsRow
<1>12. CASE InsertFails(t) \/ RereadFails(t) \/ Announced(t)
  BY <1>7, <1>12, RuleMoves DEF HoldsRow
<1> QED BY <1>1, <1>2, <1>3, <1>4, <1>5, <1>6, <1>8, <1>9, <1>10, <1>11, <1>12 DEF TaskStep, TaskFails

\* Requests and batches carry nothing but events.
LEMMA RequestsParsable ==
    ASSUME TypeOK, NEW t \in Tasks
    PROVE  /\ Via(t) # "udp" => \A i \in DOMAIN Events(t) : Parsable(t, i)
           /\ \A i : Parsable(t, i) =>
                  \A field \in DOMAIN Events(t)[i] : IsValue(Events(t)[i][field])
<1>1. PICK n \in DOMAIN Workloads : load = Workloads[n]
  BY DEF TypeOK
<1>2. \A i \in DOMAIN Events(t) :
          \/ Events(t)[i] = Unparsable /\ Via(t) = "udp"
          \/ /\ Events(t)[i] # Unparsable
             /\ \A field \in DOMAIN Events(t)[i] : IsValue(Events(t)[i][field])
  BY <1>1, WorkloadAssumption DEF Via, Events
<1> QED BY <1>2 DEF Parsable

LEMMA InitParsed == Init => Parsed
<1> SUFFICES ASSUME Init PROVE Parsed
  OBVIOUS
<1>1. TypeOK /\ DOMAIN rows = {}
  BY InitTyped DEF Init
<1>2. \A t \in Tasks : task[t].at = 1 /\ task[t].pc = "absent"
  BY DEF Init, Fresh
<1>3. \A t \in Tasks : 1 \in DOMAIN Events(t)
  BY <1>1, LoadFacts DEF Pos
<1> QED BY <1>1, <1>2, <1>3, Stages DEF Parsed

LEMMA ParsedNext == Parsed /\ [Next]_vars => Parsed'
<1> SUFFICES ASSUME Parsed, [Next]_vars PROVE Parsed'
  OBVIOUS
<1>0. TypeOK /\ TypeOK'
  BY NextTyped DEF Parsed
<1>1. ASSUME load' = load, \A s \in Tasks : task'[s].at = task[s].at /\ (task'[s].pc \in Running => task[s].pc \in Running),
             DOMAIN rows' = DOMAIN rows,
             \A r \in DOMAIN rows : rows'[r].task = rows[r].task /\ rows'[r].at = rows[r].at
      PROVE  Parsed'
  <2>1. \A s, i : Parsable(s, i)' <=> Parsable(s, i)
    BY <1>1 DEF Parsable, Events
  <2>2. \A s : Events(s)' = Events(s)
    BY <1>1 DEF Events
  <2> QED BY <1>0, <1>1, <2>1, <2>2 DEF Parsed
<1>2. ASSUME NEW t \in Tasks, Accept(t) \/ DropUnparsed(t) \/ TaskStep(t) \/ TaskFails(t) PROVE Parsed'
  <2>1. Moves(t) /\ load' = load /\ EventMoves(t) /\ RowsMove(t)
    BY <1>0, <1>2, TaskParses
  <2>2. \A s : Events(s)' = Events(s) /\ \A i : Parsable(s, i)' <=> Parsable(s, i)
    BY <2>1 DEF Parsable, Events
  <2>3. task'[t].at \in DOMAIN Events(t) /\ (task'[t].pc \in Running => Parsable(t, task'[t].at))
    <3>1. CASE /\ task'[t].at = task[t].at
               /\ task'[t].pc \in Running => task[t].pc \in Running \/ Content(t) # Unparsable
      BY <3>1 DEF Parsed, Parsable, Content
    <3>2. CASE task'[t].at = task[t].at + 1 /\ Via(t) = "batch" /\ task[t].at # Len(Events(t))
      <4>1. task'[t].at \in DOMAIN Events(t)
        BY <1>0, <3>2, LoadFacts DEF Parsed, Pos
      <4> QED BY <1>0, <3>2, <4>1, RequestsParsable
    <3> QED BY <2>1, <3>1, <3>2 DEF EventMoves
  <2>4. ASSUME NEW s \in Tasks
        PROVE  task'[s].at \in DOMAIN Events(s) /\ (task'[s].pc \in Running => Parsable(s, task'[s].at))
    BY <2>1, <2>3 DEF Moves, Parsed
  <2>5. ASSUME NEW r \in DOMAIN rows' PROVE Parsable(rows'[r].task, rows'[r].at)
    BY <2>1 DEF RowsMove, Parsed
  <2> QED BY <1>0, <2>2, <2>4, <2>5 DEF Parsed
<1>3. ASSUME NEW r \in DOMAIN rows, AnalysisStep(r) PROVE Parsed'
  <2>1. UNCHANGED <<load, task>> /\ EditsRow(r)
    BY <1>0, <1>3, AnalysisMoves
  <2> QED BY <1>1, <2>1 DEF EditsRow
<1>4. CASE Stop \/ Crash
  <2>1. /\ load' = load /\ \A s \in Tasks : LostTask(s)
        /\ DOMAIN rows' = DOMAIN rows /\ \A r \in DOMAIN rows : LostRow(r)
    BY <1>0, <1>4, DiesMoves DEF Stop, Crash
  <2>2. "lost" \notin Running
    BY DEF Running
  <2> QED BY <1>1, <2>1, <2>2 DEF LostTask, LostRow, SameEvent
<1>5. CASE Terminate \/ Restart \/ UNCHANGED vars
  <2>1. UNCHANGED <<load, task, rows>>
    BY <1>5 DEF Terminate, Restart, vars
  <2> QED BY <1>1, <2>1
<1> QED BY <1>2, <1>3, <1>4, <1>5 DEF Next

\* On every event that is stored and every condition it is compared with, the
\* operators of conditions fit together: what _eq, _in_list, _contains,
\* _startswith, _endswith, _regex and _compare say of the same two values never
\* disagrees, for any texts, any numbers and any spelling of them.
THEOREM OperatorsAlwaysFit == Spec => []OperatorsFit
<1>1. Parsed => OperatorsFit
  <2> SUFFICES ASSUME Parsed, NEW r \in DOMAIN rows, NEW c \in JsonConditions,
                      c.kind = "leaf", c.value.kind # "list"
               PROVE  FitOn(FieldValue(EventOf(r), c.field), c.value)
    BY DEF OperatorsFit, Comparisons, Simple
  <2>1. TypeOK /\ rows[r].task \in Tasks /\ Parsable(rows[r].task, rows[r].at)
    BY RowFields DEF Parsed
  <2>2. EventOf(r) = Events(rows[r].task)[rows[r].at]
    BY DEF EventOf, Events
  <2>3. \A field \in DOMAIN EventOf(r) : IsValue(EventOf(r)[field])
    BY <2>1, <2>2, RequestsParsable
  <2>4. IsValue(FieldValue(EventOf(r), c.field))
    BY <2>3 DEF FieldValue, IsValue
  <2>5. IsValue(c.value)
    BY ConditionsAssumption DEF IsCondition
  <2> QED BY <2>4, <2>5, OperatorsFitOn
<1>2. Init => Parsed
  BY InitParsed
<1>3. Parsed /\ [Next]_vars => Parsed'
  BY ParsedNext
<1> QED BY <1>1, <1>2, <1>3, PTL DEF Spec

-----------------------------------------------------------------------------
(* AlertsFollowRules.  The rules behind the one in hand did not raise, and    *)
(* each of them that matched has its alert or was refused one.                *)

Says(r, k) == EvaluateRule(ConditionsOf(k), EventOf(r))

Seen(r, k) == /\ Says(r, k) # "raises"
              /\ Says(r, k) = "match" => k \in AlertedFor(r) \cup MissedFor(r)

SeenBefore(r, k) == \A q \in RuleNumbers : q < k => Seen(r, q)

TaskFollows(t) ==
    /\ task[t].pc \in {"absent", "saving", "refreshing"} => task[t].rule = 1
    /\ task[t].pc \in HoldsRow \ {"refreshing"} => SeenBefore(task[t].row, task[t].rule)
    /\ task[t].pc \in {"inserting", "rereading", "notifying"} =>
           task[t].rule \in RuleNumbers /\ Says(task[t].row, task[t].rule) = "match"
    /\ task[t].pc \in HoldsAlert => task[t].rule \in AlertedFor(task[t].row)

RowFollows(r) ==
    /\ rows[r].evaluation = "complete" => \A k \in RuleNumbers : Seen(r, k)
    /\ rows[r].evaluation = "raised" =>
           \E k \in RuleNumbers : Says(r, k) = "raises" /\ SeenBefore(r, k)

AlertFollows(a) ==
    /\ alerts[a].rule \in RuleNumbers
    /\ Says(alerts[a].row, alerts[a].rule) = "match"
    /\ \A q \in RuleNumbers : q < alerts[a].rule => Says(alerts[a].row, q) # "raises"

Follows ==
    /\ Once
    /\ \A t \in Tasks : TaskFollows(t)
    /\ \A r \in DOMAIN rows : RowFollows(r)
    /\ \A a \in DOMAIN alerts : AlertFollows(a)

\* Nothing is taken away from what was there.
Grows ==
    /\ load' = load /\ missed \subseteq missed'
    /\ \A r \in DOMAIN rows :
           r \in DOMAIN rows' /\ rows'[r].task = rows[r].task /\ rows'[r].at = rows[r].at
    /\ \A a \in DOMAIN alerts :
           /\ a \in DOMAIN alerts'
           /\ alerts'[a].row = alerts[a].row /\ alerts'[a].rule = alerts[a].rule

LEMMA GrowsKeeps ==
    ASSUME Grows, NEW r \in DOMAIN rows
    PROVE  /\ RuleNumbers' = RuleNumbers
           /\ \A k : Says(r, k)' = Says(r, k)
           /\ AlertedFor(r) \subseteq AlertedFor(r)' /\ MissedFor(r) \subseteq MissedFor(r)'
           /\ \A k : Seen(r, k) => Seen(r, k)'
           /\ \A k : SeenBefore(r, k) => SeenBefore(r, k)'
<1>1. RuleNumbers' = RuleNumbers
  BY DEF Grows, RuleNumbers
<1>2. EventOf(r)' = EventOf(r) /\ \A k : ConditionsOf(k)' = ConditionsOf(k)
  BY DEF Grows, EventOf, ConditionsOf
<1>3. \A k : Says(r, k)' = Says(r, k)
  BY <1>2 DEF Says
<1>4. AlertedFor(r) \subseteq AlertedFor(r)'
  BY DEF Grows, AlertedFor
<1>5. MissedFor(r) \subseteq MissedFor(r)'
  BY <1>1 DEF Grows, MissedFor
<1>6. \A k : Seen(r, k) => Seen(r, k)'
  BY <1>3, <1>4, <1>5 DEF Seen
<1> QED BY <1>1, <1>3, <1>4, <1>5, <1>6 DEF SeenBefore

LEMMA FollowsHere ==
    ASSUME Follows, NEW t \in Tasks
    PROVE  /\ TypeOK /\ task[t].rule \in Pos /\ RuleNumbers \subseteq Pos
           /\ TaskFollows(t)
           /\ task[t].pc \in HoldsRow => task[t].row \in DOMAIN rows /\ EventOf(task[t].row) = Content(t)
           /\ task[t].pc \in HoldsRow => \A k : VerdictOf(t, k) = Says(task[t].row, k)
<1>1. TypeOK /\ TaskFollows(t) /\ RowsFit(t)
  BY DEF Follows, Once
<1>2. PICK at \in Pos : at = task[t].at
  BY <1>1, TaskFields
<1>3. ASSUME task[t].pc \in HoldsRow
      PROVE  task[t].row \in DOMAIN rows /\ EventOf(task[t].row) = Content(t)
  <2>1. RowsOf(t, at) = {task[t].row}
    BY <1>1, <1>2, <1>3 DEF RowsFit, Hands
  <2>2. task[t].row \in DOMAIN rows /\ rows[task[t].row].task = t /\ rows[task[t].row].at = task[t].at
    BY <1>2, <2>1 DEF RowsOf
  <2> QED BY <2>2 DEF EventOf, Content, Events
<1>4. task[t].rule \in Pos /\ RuleNumbers \subseteq Pos
  BY <1>1, TaskFields, LoadFacts
<1> QED BY <1>1, <1>3, <1>4 DEF VerdictOf, Says, ConditionsOf

\* A task that stays where it is, or ends, still follows.
LEMMA QuietTaskFollows ==
    ASSUME Follows, Grows, NEW s \in Tasks,
           \/ /\ task'[s].pc = task[s].pc /\ task'[s].rule = task[s].rule
              /\ task'[s].row = task[s].row
           \/ task'[s].pc \notin HoldsRow \cup {"absent", "saving"}
    PROVE  TaskFollows(s)'
<1>1. CASE task'[s].pc \notin HoldsRow \cup {"absent", "saving"}
  BY <1>1 DEF TaskFollows, HoldsRow, HoldsAlert
<1>2. CASE /\ task'[s].pc = task[s].pc /\ task'[s].rule = task[s].rule /\ task'[s].row = task[s].row
  <2>1. TaskFollows(s) /\ (task[s].pc \in HoldsRow => task[s].row \in DOMAIN rows)
    BY FollowsHere
  <2>2. CASE task[s].pc \in HoldsRow
    <3>1. PICK r \in DOMAIN rows : r = task[s].row
      BY <2>1, <2>2
    <3>2. PICK k : k = task[s].rule
      OBVIOUS
    <3>3. /\ RuleNumbers' = RuleNumbers /\ Says(r, k)' = Says(r, k)
          /\ AlertedFor(r) \subseteq AlertedFor(r)' /\ (SeenBefore(r, k) => SeenBefore(r, k)')
      BY GrowsKeeps
    <3>4. /\ task'[s].row = r /\ task'[s].rule = k
      BY <1>2, <3>1, <3>2
    <3> QED BY <1>2, <2>1, <3>1, <3>2, <3>3, <3>4 DEF TaskFollows
  <2>3. CASE task[s].pc \notin HoldsRow
    BY <1>2, <2>1, <2>3 DEF TaskFollows, HoldsRow, HoldsAlert
  <2> QED BY <2>2, <2>3
<1> QED BY <1>1, <1>2

\* A row whose evaluation stays where it is.
LEMMA QuietRowFollows ==
    ASSUME Follows, Grows, NEW r \in DOMAIN rows, rows'[r].evaluation = rows[r].evaluation
    PROVE  RowFollows(r)'
<1>1. RowFollows(r)
  BY DEF Follows
<1> QED BY <1>1, GrowsKeeps DEF RowFollows

LEMMA QuietAlertFollows ==
    ASSUME Follows, Grows, NEW a \in DOMAIN alerts
    PROVE  AlertFollows(a)'
<1>1. AlertFollows(a) /\ alerts[a].row \in DOMAIN rows
  BY DEF Follows, Once, AlertsOfRows
<1>2. PICK r \in DOMAIN rows : /\ r = alerts[a].row /\ RuleNumbers' = RuleNumbers
                             /\ \A k : Says(r, k)' = Says(r, k)
  <2>1. PICK r \in DOMAIN rows : r = alerts[a].row
    BY <1>1
  <2>2. RuleNumbers' = RuleNumbers /\ \A k : Says(r, k)' = Says(r, k)
    BY GrowsKeeps
  <2> QED BY <2>1, <2>2
<1>3. alerts'[a].row = alerts[a].row /\ alerts'[a].rule = alerts[a].rule
  BY DEF Grows
<1>4. alerts'[a].row = r /\ \A k : Says(alerts[a].row, k) = Says(r, k)
  BY <1>2, <1>3
<1> QED BY <1>1, <1>2, <1>3, <1>4 DEF AlertFollows

\* The steps of a task: what it does to itself, to the rows it writes and to the
\* alert it adds is left to see.
LEMMA FollowsTask ==
    ASSUME Follows, Once', Grows, NEW t \in Tasks, Moves(t), TaskFollows(t)',
           \A r \in DOMAIN rows' : \/ r \in DOMAIN rows /\ rows'[r].evaluation = rows[r].evaluation
                                   \/ RowFollows(r)',
           \A a \in DOMAIN alerts' : a \in DOMAIN alerts \/ AlertFollows(a)'
    PROVE  Follows'
<1>1. ASSUME NEW s \in Tasks, s # t PROVE TaskFollows(s)'
  <2>1. task'[s] = task[s]
    BY <1>1 DEF Moves
  <2> QED BY <2>1, QuietTaskFollows
<1>2. \A r \in DOMAIN rows' : RowFollows(r)'
  BY QuietRowFollows
<1>3. \A a \in DOMAIN alerts' : AlertFollows(a)'
  BY QuietAlertFollows
<1> QED BY <1>1, <1>2, <1>3 DEF Follows

LEMMA GrowsBy ==
    ASSUME load' = load, missed \subseteq missed'
    PROVE  /\ rows' = rows /\ KeepsAlerts => Grows
           /\ alerts' = alerts => \A t \in Tasks : AddsRow(t) => Grows
           /\ alerts' = alerts => \A r \in DOMAIN rows : EditsRow(r) => Grows
           /\ rows' = rows => \A t \in Tasks : AddsAlert(t) => Grows
BY DEF Grows, KeepsAlerts, AddsRow, EditsRow, AddsAlert

\* The steps that touch neither the evaluation of a row nor the alerts.
LEMMA FollowsQuiet ==
    ASSUME Follows, Once', NEW t \in Tasks, Moves(t), load' = load, missed \subseteq missed',
           rows' = rows, KeepsAlerts, TaskFollows(t)'
    PROVE  Follows'
<1>1. Grows
  BY GrowsBy
<1> QED BY <1>1, FollowsTask DEF KeepsAlerts

\* What goes back to the caller of the pipeline starts from the first rule.
LEMMA ReturnFollows ==
    ASSUME TypeOK, NEW t \in Tasks, NEW isEvent \in BOOLEAN,
           task[t].pc \in {"saving", "refreshing", "evaluating"}, task'[t] = Return(t, isEvent)
    PROVE  TaskFollows(t)'
<1>1. /\ task[t] \in TaskStates /\ Via(t) \in {"udp", "rest", "batch"}
      /\ task'[t].pc \in {"ended", "answered", "fallback", "saving"}
  BY TaskFields, LoadFacts, ReturnFields DEF HoldsRow, HoldsAlert
<1>2. task'[t].pc = "saving" => task'[t].rule = 1
  <2>1. "saving" \notin Finished
    BY DEF Finished
  <2> QED BY <1>1, <2>1, ReturnNext
<1> QED BY <1>1, <1>2 DEF TaskFollows, HoldsRow, HoldsAlert

LEMMA FollowsAccept ==
    ASSUME Follows, Once', NEW t \in Tasks, Accept(t) \/ DropUnparsed(t)
    PROVE  Follows'
<1>1. /\ Moves(t) /\ UNCHANGED <<load, rows, alerts, missed>> /\ task'[t].rule = task[t].rule
      /\ task[t].pc = "absent" /\ task'[t].pc \in {"saving", "ended"}
  BY FollowsHere, AcceptMoves
<1>2. TaskFollows(t)'
  BY <1>1, FollowsHere DEF TaskFollows, HoldsRow, HoldsAlert
<1> QED BY <1>1, <1>2, FollowsQuiet DEF KeepsAlerts

LEMMA FollowsFail ==
    ASSUME Follows, Once', NEW t \in Tasks, SaveFails(t) \/ RefreshFails(t)
    PROVE  Follows'
<1>1. /\ Moves(t) /\ task'[t] = Return(t, FALSE) /\ UNCHANGED <<load, rows, alerts, missed>>
      /\ task[t].pc \in {"saving", "refreshing"}
  BY FollowsHere, FailMoves
<1>2. TaskFollows(t)'
  BY <1>1, FollowsHere, ReturnFollows
<1> QED BY <1>1, <1>2, FollowsQuiet DEF KeepsAlerts

LEMMA FollowsSave ==
    ASSUME Follows, Once', NEW t \in Tasks, Save(t) \/ SaveFallback(t)
    PROVE  Follows'
<1>1. /\ Moves(t) /\ AddsRow(t) /\ UNCHANGED <<load, alerts, missed>> /\ task'[t].rule = task[t].rule
      /\ \/ task[t].pc = "saving" /\ task'[t].pc = "refreshing"
         \/ task[t].pc = "fallback" /\ task'[t].pc = "fallback_refreshing"
  BY FollowsHere, SaveMoves
<1>2. TaskFollows(t)'
  BY <1>1, FollowsHere DEF TaskFollows, HoldsRow, HoldsAlert
<1>3. NewRow(t).evaluation = "none"
  BY DEF NewRow
<1>4. ASSUME NEW r \in DOMAIN rows'
      PROVE  (r \in DOMAIN rows /\ rows'[r].evaluation = rows[r].evaluation) \/ RowFollows(r)'
  <2>1. CASE r \in DOMAIN rows
    BY <1>1, <2>1 DEF AddsRow
  <2>2. CASE r = Len(rows) + 1
    BY <1>1, <1>3, <2>2 DEF AddsRow, RowFollows
  <2> QED BY <1>1, <2>1, <2>2 DEF AddsRow
<1> QED BY <1>1, <1>2, <1>4, GrowsBy, FollowsTask

LEMMA FollowsFallback ==
    ASSUME Follows, Once', NEW t \in Tasks, AnswerFallback(t) \/ FallbackFails(t)
    PROVE  Follows'
<1>1. /\ Moves(t) /\ UNCHANGED <<load, alerts, missed>> /\ task'[t].pc \in {"answered", "failed"}
      /\ \/ rows' = rows
         \/ /\ task[t].row \in DOMAIN rows /\ EditsRow(task[t].row)
            /\ rows'[task[t].row].evaluation = rows[task[t].row].evaluation
  BY FollowsHere, FallbackMoves
<1>2. TaskFollows(t)'
  BY <1>1 DEF TaskFollows, HoldsRow, HoldsAlert
<1>3. Grows
  BY <1>1, GrowsBy DEF KeepsAlerts
<1>4. \A r \in DOMAIN rows' : r \in DOMAIN rows /\ rows'[r].evaluation = rows[r].evaluation
  BY <1>1 DEF EditsRow
<1> QED BY <1>1, <1>2, <1>3, <1>4, FollowsTask

LEMMA FollowsRefresh ==
    ASSUME Follows, Once', NEW t \in Tasks, Refresh(t)
    PROVE  Follows'
<1>1. PICK row \in DOMAIN rows : row = task[t].row
  BY FollowsHere, RefreshMoves
<1>2. /\ Moves(t) /\ UNCHANGED <<load, alerts, missed>> /\ task'[t].rule = task[t].rule
      /\ task[t].pc = "refreshing" /\ task'[t].pc = "evaluating" /\ task'[t].row = row
      /\ EditsRow(row) /\ rows'[row].evaluation = "begun"
  BY <1>1, FollowsHere, RefreshMoves DEF SameEvent
<1>3. task'[t].rule = 1
  BY <1>2, FollowsHere DEF TaskFollows
<1>4. \A k \in RuleNumbers' : ~ (k < 1)
  <2>1. RuleNumbers' = RuleNumbers /\ RuleNumbers \subseteq Pos
    BY <1>2, FollowsHere DEF RuleNumbers
  <2> QED BY <2>1 DEF Pos
<1>5. TaskFollows(t)'
  BY <1>2, <1>3, <1>4 DEF TaskFollows, HoldsRow, HoldsAlert, SeenBefore
<1>6. \A r \in DOMAIN rows' : (r \in DOMAIN rows /\ rows'[r].evaluation = rows[r].evaluation) \/ RowFollows(r)'
  BY <1>2 DEF EditsRow, RowFollows
<1> QED BY <1>2, <1>5, <1>6, GrowsBy, FollowsTask

\* Between the refresh and the end of the evaluation the row stays in hand.
LEMMA RowInHand ==
    ASSUME Follows, NEW t \in Tasks, task[t].pc \in HoldsRow \ {"refreshing"}
    PROVE  \E r \in DOMAIN rows :
               /\ r = task[t].row /\ SeenBefore(r, task[t].rule)
               /\ \A k : VerdictOf(t, k) = Says(r, k)
               /\ task[t].pc \in {"inserting", "rereading", "notifying"} =>
                      task[t].rule \in RuleNumbers /\ Says(r, task[t].rule) = "match"
               /\ task[t].pc \in HoldsAlert => task[t].rule \in AlertedFor(r)
BY FollowsHere DEF TaskFollows

\* evaluate() passed over the rules that said "no".
LEMMA FollowsMatch ==
    ASSUME Follows, Once', NEW t \in Tasks, NEW k \in RuleNumbers, Match(t, k)
    PROVE  Follows'
<1>1. /\ Moves(t) /\ UNCHANGED <<load, rows, alerts, missed>> /\ task'[t].row = task[t].row
      /\ task[t].pc = "evaluating" /\ task'[t].pc = "inserting" /\ task'[t].rule = k
  BY FollowsHere, MatchMoves DEF SameEvent
<1>2. PICK r \in DOMAIN rows : /\ r = task[t].row /\ SeenBefore(r, task[t].rule)
                               /\ \A q : VerdictOf(t, q) = Says(r, q)
  BY <1>1, RowInHand DEF HoldsRow
<1>3. VerdictOf(t, k) = "match" /\ \A q \in RuleNumbers : q >= task[t].rule /\ VerdictOf(t, q) # "no" => k <= q
  BY DEF Match, Decides, Deciding
<1>4. task[t].rule \in Nat /\ RuleNumbers \subseteq Nat
  BY FollowsHere DEF Pos
<1>5. SeenBefore(r, k)
  <2> SUFFICES ASSUME NEW q \in RuleNumbers, q < k PROVE Seen(r, q)
    BY DEF SeenBefore
  <2>1. CASE q < task[t].rule
    BY <1>2, <2>1 DEF SeenBefore
  <2>2. CASE q >= task[t].rule
    <3>1. VerdictOf(t, q) = "no"
      BY <1>3, <1>4, <2>2
    <3>2. Says(r, q) = "no"
      BY <1>2, <3>1
    <3> QED BY <3>2 DEF Seen
  <2> QED BY <1>4, <2>1, <2>2
<1>6. Grows
  BY <1>1, GrowsBy DEF KeepsAlerts
<1>7. SeenBefore(r, k)' /\ Says(r, k)' = "match" /\ RuleNumbers' = RuleNumbers
  BY <1>2, <1>3, <1>5, <1>6, GrowsKeeps
<1>8. TaskFollows(t)'
  BY <1>1, <1>2, <1>7 DEF TaskFollows, HoldsRow, HoldsAlert
<1> QED BY <1>1, <1>8, FollowsQuiet DEF KeepsAlerts

LEMMA FollowsInsert ==
    ASSUME Follows, Once', NEW t \in Tasks, InsertAlert(t)
    PROVE  Follows'
<1>1. /\ Moves(t) /\ UNCHANGED <<load, rows, missed>> /\ task'[t].row = task[t].row
      /\ task[t].pc = "inserting" /\ task'[t].pc = "rereading" /\ task'[t].rule = task[t].rule
      /\ AddsAlert(t)
  BY FollowsHere, InsertMoves DEF SameEvent
<1>2. PICK r \in DOMAIN rows : /\ r = task[t].row /\ SeenBefore(r, task[t].rule)
                               /\ task[t].rule \in RuleNumbers /\ Says(r, task[t].rule) = "match"
  BY <1>1, RowInHand DEF HoldsRow
<1>3. PICK k \in RuleNumbers : k = task[t].rule
  BY <1>2
<1>4. PICK new : /\ new = Len(alerts) + 1 /\ new \in DOMAIN alerts'
                 /\ alerts'[new].row = r /\ alerts'[new].rule = k
  BY <1>1, <1>2, <1>3 DEF AddsAlert
<1>5. Grows
  BY <1>1, GrowsBy
<1>6. /\ SeenBefore(r, k)' /\ RuleNumbers' = RuleNumbers /\ \A q : Says(r, q)' = Says(r, q)
  BY <1>2, <1>3, <1>5, GrowsKeeps
<1>7. Says(r, k) = "match" /\ \A q \in RuleNumbers : q < k => Says(r, q) # "raises"
  BY <1>2, <1>3 DEF SeenBefore, Seen
<1>8. AlertFollows(new)'
  <2>1. \A q : Says(alerts[new].row, q)' = Says(r, q)'
    BY <1>4 DEF Says, EventOf
  <2> QED BY <1>4, <1>6, <1>7, <2>1 DEF AlertFollows
<1>9. k \in AlertedFor(r)'
  BY <1>4 DEF AlertedFor
<1>10. TaskFollows(t)'
  <2>1. task'[t].row = r /\ task'[t].rule = k
    BY <1>1, <1>2, <1>3
  <2> QED BY <1>1, <1>6, <1>7, <1>9, <2>1 DEF TaskFollows, HoldsRow, HoldsAlert
<1>11. \A a \in DOMAIN alerts' : a \in DOMAIN alerts \/ AlertFollows(a)'
  BY <1>1, <1>4, <1>8 DEF AddsAlert
<1> QED BY <1>1, <1>5, <1>10, <1>11, FollowsTask

\* Reading back and announcing.
LEMMA FollowsAnnounce ==
    ASSUME Follows, Once', NEW t \in Tasks,
           RereadAlert(t) \/ \E c \in Channels : Send(t, c) \/ SendFails(t, c)
    PROVE  Follows'
<1>1. /\ Moves(t) /\ UNCHANGED <<load, rows, missed>> /\ task'[t].row = task[t].row
      /\ task[t].pc \in HoldsAlert /\ task'[t].pc = "notifying" /\ task'[t].rule = task[t].rule
      /\ KeepsAlerts
  <2>1. CASE RereadAlert(t)
    BY <2>1, FollowsHere, RereadMoves DEF SameEvent, HoldsAlert, EditsAlert, KeepsAlerts
  <2>2. ASSUME NEW c \in Channels, Send(t, c) \/ SendFails(t, c)
        PROVE  /\ Moves(t) /\ UNCHANGED <<load, rows, missed>> /\ task'[t].row = task[t].row
               /\ task[t].pc \in HoldsAlert /\ task'[t].pc = "notifying" /\ task'[t].rule = task[t].rule
               /\ KeepsAlerts
    BY <2>2, FollowsHere, SendMoves DEF SameEvent, HoldsAlert, EditsAlert, KeepsAlerts
  <2> QED BY <2>1, <2>2
<1>2. PICK r \in DOMAIN rows : /\ r = task[t].row /\ SeenBefore(r, task[t].rule)
                               /\ task[t].rule \in RuleNumbers /\ Says(r, task[t].rule) = "match"
                               /\ task[t].rule \in AlertedFor(r)
  BY <1>1, RowInHand DEF HoldsRow, HoldsAlert
<1>3. PICK k \in RuleNumbers : k = task[t].rule
  BY <1>2
<1>4. Grows
  BY <1>1, GrowsBy
<1>5. SeenBefore(r, k)' /\ RuleNumbers' = RuleNumbers /\ Says(r, k)' = "match" /\ k \in AlertedFor(r)'
  BY <1>2, <1>3, <1>4, GrowsKeeps
<1>6. task'[t].row = r /\ task'[t].rule = k
  BY <1>1, <1>2, <1>3
<1>7. TaskFollows(t)'
  BY <1>1, <1>5, <1>6 DEF TaskFollows, HoldsRow, HoldsAlert
<1> QED BY <1>1, <1>7, FollowsQuiet

\* The callback returned: the rule in hand has its alert or was refused one.
LEMMA FollowsRule ==
    ASSUME Follows, Once', NEW t \in Tasks, InsertFails(t) \/ RereadFails(t) \/ Announced(t)
    PROVE  Follows'
<1>1. /\ Moves(t) /\ UNCHANGED <<load, rows, alerts>> /\ task'[t].row = task[t].row
      /\ task[t].pc \in {"inserting", "rereading", "notifying"} /\ task'[t].pc = "evaluating"
      /\ task'[t].rule = task[t].rule + 1
  BY FollowsHere, RuleMoves DEF SameEvent
<1>2. PICK r \in DOMAIN rows : /\ r = task[t].row /\ SeenBefore(r, task[t].rule)
                               /\ task[t].rule \in RuleNumbers /\ Says(r, task[t].rule) = "match"
                               /\ task[t].pc \in HoldsAlert => task[t].rule \in AlertedFor(r)
  BY <1>1, RowInHand DEF HoldsRow
<1>3. PICK k \in RuleNumbers : k = task[t].rule
  BY <1>2
<1>4. \/ missed' = missed \cup {<<r, k>>}
      \/ missed' = missed /\ task[t].pc \in HoldsAlert
  BY <1>2, <1>3 DEF InsertFails, RereadFails, Announced, Is, HoldsAlert
<1>5. Grows
  BY <1>1, <1>4, GrowsBy DEF KeepsAlerts
<1>6. /\ RuleNumbers' = RuleNumbers /\ Says(r, k)' = "match" /\ SeenBefore(r, k)'
      /\ AlertedFor(r) \subseteq AlertedFor(r)'
  BY <1>2, <1>3, <1>5, GrowsKeeps
<1>7. Seen(r, k)'
  <2>1. k \in AlertedFor(r)' \cup MissedFor(r)'
    BY <1>2, <1>3, <1>4, <1>6 DEF MissedFor
  <2> QED BY <1>6, <2>1 DEF Seen
<1>8. SeenBefore(r, k + 1)'
  <2>1. RuleNumbers \subseteq Nat
    BY FollowsHere DEF Pos
  <2>2. \A q \in RuleNumbers : q < k + 1 => q < k \/ q = k
    BY <2>1
  <2> QED BY <1>6, <1>7, <2>2 DEF SeenBefore
<1>9. task'[t].row = r /\ task'[t].rule = k + 1
  BY <1>1, <1>2, <1>3
<1>10. TaskFollows(t)'
  BY <1>1, <1>8, <1>9 DEF TaskFollows, HoldsRow, HoldsAlert
<1>11. missed \subseteq missed'
  BY <1>4
<1> QED BY <1>1, <1>10, <1>11, FollowsQuiet DEF KeepsAlerts

\* How the evaluation of the row in hand ends.
LEMMA EvaluationResult ==
    ASSUME Follows, NEW t \in Tasks, NEW row \in DOMAIN rows, row = task[t].row
    PROVE  /\ EvaluationEnds(t) => rows'[row].evaluation = "complete" /\ Deciding(t) = {}
           /\ \A k \in RuleNumbers : EvaluationRaises(t, k) =>
                  rows'[row].evaluation = "raised" /\ VerdictOf(t, k) = "raises" /\ Decides(t, k)
<1>1. rows[row] \in RowStates
  BY FollowsHere, RowFields
<1>2. \A e : [rows EXCEPT ![row].evaluation = e][row].evaluation = e
  BY <1>1 DEF RowStates
<1> QED BY <1>2 DEF EvaluationEnds, EvaluationRaises

LEMMA FollowsEnd ==
    ASSUME Follows, Once', NEW t \in Tasks,
           EvaluationEnds(t) \/ \E k \in RuleNumbers : EvaluationRaises(t, k)
    PROVE  Follows'
<1>1. PICK row \in DOMAIN rows : row = task[t].row
  BY FollowsHere, EndMoves
<1>2. /\ Moves(t) /\ UNCHANGED <<load, alerts, missed>> /\ task[t].pc = "evaluating"
      /\ task'[t] = Return(t, TRUE) \/ task'[t].pc = "failed"
      /\ EditsRow(row)
  BY <1>1, FollowsHere, EndMoves
<1>3. TaskFollows(t)'
  <2>1. CASE task'[t] = Return(t, TRUE)
    BY <1>2, <2>1, FollowsHere, ReturnFollows
  <2>2. CASE task'[t].pc = "failed"
    BY <2>2 DEF TaskFollows, HoldsRow, HoldsAlert
  <2> QED BY <1>2, <2>1, <2>2
<1>4. /\ SeenBefore(row, task[t].rule) /\ \A q : VerdictOf(t, q) = Says(row, q)
  BY <1>1, <1>2, RowInHand DEF HoldsRow
<1>5. task[t].rule \in Nat /\ RuleNumbers \subseteq Nat
  BY FollowsHere DEF Pos
<1>6. Grows
  BY <1>2, GrowsBy
<1>7. RowFollows(row)'
  <2>1. CASE EvaluationEnds(t)
    <3>1. rows'[row].evaluation = "complete" /\ Deciding(t) = {}
      BY <1>1, <2>1, EvaluationResult
    <3>2. ASSUME NEW q \in RuleNumbers PROVE Seen(row, q)
      <4>1. CASE q < task[t].rule
        BY <1>4, <4>1 DEF SeenBefore
      <4>2. CASE q >= task[t].rule
        <5>1. VerdictOf(t, q) = "no"
          BY <3>1, <4>2 DEF Deciding
        <5>2. Says(row, q) = "no"
          BY <1>4, <5>1
        <5> QED BY <5>2 DEF Seen
      <4> QED BY <1>5, <4>1, <4>2
    <3>3. \A q \in RuleNumbers' : Seen(row, q)'
      BY <1>6, <3>2, GrowsKeeps
    <3> QED BY <3>1, <3>3 DEF RowFollows
  <2>2. ASSUME NEW k \in RuleNumbers, EvaluationRaises(t, k) PROVE RowFollows(row)'
    <3>1. rows'[row].evaluation = "raised" /\ VerdictOf(t, k) = "raises" /\ Decides(t, k)
      BY <1>1, <2>2, EvaluationResult
    <3>2. \A q \in RuleNumbers : q >= task[t].rule /\ VerdictOf(t, q) # "no" => k <= q
      BY <3>1 DEF Decides, Deciding
    <3>3. ASSUME NEW q \in RuleNumbers, q < k PROVE Seen(row, q)
      <4>1. CASE q < task[t].rule
        BY <1>4, <4>1 DEF SeenBefore
      <4>2. CASE q >= task[t].rule
        <5>1. VerdictOf(t, q) = "no"
          BY <1>5, <3>2, <3>3, <4>2
        <5>2. Says(row, q) = "no"
          BY <1>4, <5>1
        <5> QED BY <5>2 DEF Seen
      <4> QED BY <1>5, <4>1, <4>2
    <3>4. SeenBefore(row, k) /\ Says(row, k) = "raises"
      BY <1>4, <3>1, <3>3 DEF SeenBefore
    <3>5. SeenBefore(row, k)' /\ Says(row, k)' = "raises" /\ k \in RuleNumbers'
      BY <1>6, <3>4, GrowsKeeps
    <3> QED BY <3>1, <3>5 DEF RowFollows
  <2> QED BY <2>1, <2>2
<1>8. \A r \in DOMAIN rows' : (r \in DOMAIN rows /\ rows'[r].evaluation = rows[r].evaluation) \/ RowFollows(r)'
  BY <1>2, <1>7 DEF EditsRow
<1> QED BY <1>2, <1>3, <1>6, <1>8, FollowsTask

LEMMA InitFollows == Init => Follows
<1> SUFFICES ASSUME Init PROVE Follows
  OBVIOUS
<1>1. Once /\ DOMAIN rows = {} /\ DOMAIN alerts = {}
  BY InitOnce DEF Init
<1>2. \A t \in Tasks : task[t].pc = "absent" /\ task[t].rule = 1
  BY DEF Init, Fresh
<1> QED BY <1>1, <1>2 DEF Follows, TaskFollows, HoldsRow, HoldsAlert

LEMMA FollowsNext == Follows /\ [Next]_vars => Follows'
<1> SUFFICES ASSUME Follows, [Next]_vars PROVE Follows'
  OBVIOUS
<1>0. TypeOK /\ Once'
  BY OnceNext DEF Follows, Once
<1>1. ASSUME Grows, KeepsAlerts, DOMAIN rows' = DOMAIN rows,
             \A r \in DOMAIN rows : rows'[r].evaluation = rows[r].evaluation,
             \A s \in Tasks : \/ /\ task'[s].pc = task[s].pc /\ task'[s].rule = task[s].rule
                                 /\ task'[s].row = task[s].row
                              \/ task'[s].pc = "lost"
      PROVE  Follows'
  <2>1. \A s \in Tasks : TaskFollows(s)'
    BY <1>1, QuietTaskFollows DEF HoldsRow
  <2>2. \A r \in DOMAIN rows' : RowFollows(r)'
    BY <1>1, QuietRowFollows
  <2>3. \A a \in DOMAIN alerts' : AlertFollows(a)'
    BY <1>1, QuietAlertFollows DEF KeepsAlerts
  <2> QED BY <1>0, <2>1, <2>2, <2>3 DEF Follows
<1>2. ASSUME NEW t \in Tasks, Accept(t) \/ DropUnparsed(t) \/ TaskStep(t) \/ TaskFails(t) PROVE Follows'
  BY <1>0, <1>2, FollowsAccept, FollowsSave, FollowsRefresh, FollowsEnd, FollowsFail, FollowsFallback,
     FollowsMatch, FollowsInsert, FollowsAnnounce, FollowsRule DEF TaskStep, TaskFails
<1>3. ASSUME NEW r \in DOMAIN rows, AnalysisStep(r) PROVE Follows'
  <2>1. /\ UNCHANGED <<load, task, alerts, missed>> /\ EditsRow(r)
        /\ rows'[r].evaluation = rows[r].evaluation
    BY <1>0, <1>3, AnalysisMoves
  <2>2. Grows
    BY <2>1, GrowsBy
  <2> QED BY <1>1, <2>1, <2>2 DEF EditsRow, KeepsAlerts
<1>4. CASE Stop \/ Crash
  <2>1. /\ UNCHANGED <<load, alerts, missed>> /\ \A s \in Tasks : LostTask(s)
        /\ DOMAIN rows' = DOMAIN rows /\ \A r \in DOMAIN rows : LostRow(r)
    BY <1>0, <1>4, DiesMoves DEF Stop, Crash
  <2>2. Grows
    BY <2>1 DEF Grows, LostRow
  <2> QED BY <1>1, <2>1, <2>2 DEF LostTask, LostRow, SameEvent, KeepsAlerts
<1>5. CASE Terminate \/ Restart \/ UNCHANGED vars
  <2>1. UNCHANGED <<load, task, rows, alerts, missed>>
    BY <1>5 DEF Terminate, Restart, vars
  <2> QED BY <1>1, <2>1, GrowsBy DEF KeepsAlerts
<1> QED BY <1>2, <1>3, <1>4, <1>5 DEF Next

LEMMA ConditionsOfRules ==
    ASSUME TypeOK
    PROVE  /\ RuleNumbers \subseteq Nat \ {0} /\ \A k \in RuleNumbers : 1..k \subseteq RuleNumbers
           /\ \A k \in RuleNumbers : ConditionsOf(k) \in JsonConditions
<1>1. PICK n \in DOMAIN Workloads : load = Workloads[n]
  BY DEF TypeOK
<1>2. DOMAIN load.rules = 1..Len(load.rules) /\ Len(load.rules) \in Nat
  BY <1>1, WorkloadAssumption
<1>3. \A k \in RuleNumbers : ConditionsOf(k) \in JsonConditions
  BY <1>1, WorkloadAssumption DEF RuleNumbers, ConditionsOf
<1> QED BY <1>2, <1>3 DEF RuleNumbers

LEMMA FollowsRules == Follows => AlertsFollowRules
<1> SUFFICES ASSUME Follows, NEW r \in DOMAIN rows
             PROVE  IF rows[r].evaluation = "none" THEN AlertedFor(r) = {}
                    ELSE /\ AlertedFor(r) \subseteq Reached(r)
                         /\ \A k \in RuleNumbers : Plain(ConditionsOf(k)) =>
                                /\ k \in AlertedFor(r) => Means(ConditionsOf(k), EventOf(r))
                                /\ (/\ Means(ConditionsOf(k), EventOf(r)) /\ k \in Reached(r)
                                    /\ rows[r].evaluation \in {"complete", "raised"})
                                   => k \in AlertedFor(r) \cup MissedFor(r)
  BY DEF AlertsFollowRules
<1>1. /\ TypeOK /\ RowFollows(r) /\ AlertsOfRows
      /\ \A a \in DOMAIN alerts : AlertFollows(a)
  BY DEF Follows, Once
<1>2. /\ RuleNumbers \subseteq Nat \ {0} /\ \A k \in RuleNumbers : 1..k \subseteq RuleNumbers
      /\ \A k \in RuleNumbers : ConditionsOf(k) \in JsonConditions
  BY <1>1, ConditionsOfRules
<1>3. CASE rows[r].evaluation = "none"
  BY <1>1, <1>3 DEF AlertsOfRows, AlertedFor
<1>4. ASSUME NEW k \in AlertedFor(r)
      PROVE  k \in RuleNumbers /\ Says(r, k) = "match" /\ \A q \in RuleNumbers : q < k => Says(r, q) # "raises"
  <2>1. PICK a \in DOMAIN alerts : alerts[a].row = r /\ alerts[a].rule = k
    BY DEF AlertedFor
  <2> QED BY <1>1, <2>1 DEF AlertFollows
<1>5. AlertedFor(r) \subseteq Reached(r)
  <2> SUFFICES ASSUME NEW k \in AlertedFor(r) PROVE k \in Reached(r)
    OBVIOUS
  <2>1. k \in RuleNumbers /\ Says(r, k) = "match" /\ \A q \in RuleNumbers : q < k => Says(r, q) # "raises"
    BY <1>4
  <2>2. \A q \in 1..k : q \in RuleNumbers /\ (q < k \/ q = k)
    BY <1>2, <2>1
  <2>3. \A q \in 1..k : Says(r, q) # "raises"
    BY <2>1, <2>2
  <2> QED BY <2>1, <2>3 DEF Reached, Says
<1>6. ASSUME NEW k \in RuleNumbers, Plain(ConditionsOf(k))
      PROVE  Says(r, k) = "match" <=> Means(ConditionsOf(k), EventOf(r))
  BY <1>2, <1>6, PlainVerdict DEF Says
<1>7. ASSUME NEW k \in RuleNumbers, Says(r, k) = "match", k \in Reached(r),
             rows[r].evaluation \in {"complete", "raised"}
      PROVE  k \in AlertedFor(r) \cup MissedFor(r)
  <2>1. CASE rows[r].evaluation = "complete"
    BY <1>1, <1>7, <2>1 DEF RowFollows, Seen
  <2>2. CASE rows[r].evaluation = "raised"
    <3>1. PICK q \in RuleNumbers : Says(r, q) = "raises" /\ SeenBefore(r, q)
      BY <1>1, <2>2 DEF RowFollows
    <3>2. q \notin 1..k
      BY <1>7, <3>1 DEF Reached, Says
    <3>3. k < q
      BY <1>2, <3>2
    <3> QED BY <1>7, <3>1, <3>3 DEF SeenBefore, Seen
  <2> QED BY <1>7, <2>1, <2>2
<1> QED BY <1>3, <1>4, <1>5, <1>6, <1>7

\* A rule made of conditions and AND and OR groups raises an alert for an event if
\* and only if it holds of the event as docs/fase-03-motor-de-correlacion.md
\* defines it, unless the database refused the alert or a rule before it broke the
\* evaluation: for any rules, however deep their groups, and any events.
THEOREM AlertsAlwaysFollow == Spec => []AlertsFollowRules
<1>1. Init => Follows
  BY InitFollows
<1>2. Follows /\ [Next]_vars => Follows'
  BY FollowsNext
<1>3. Follows => AlertsFollowRules
  BY FollowsRules
<1> QED BY <1>1, <1>2, <1>3, PTL DEF Spec

-----------------------------------------------------------------------------
(* What TasksFinish rests on besides fairness: a task only ever goes forward, *)
(* and one that has not finished always has a step to take.                   *)

\* How far the task is with its event.
Stage(t) ==
    CASE task[t].pc = "absent"                      -> 6
      [] task[t].pc = "saving"                      -> 5
      [] task[t].pc = "refreshing"                  -> 4
      [] task[t].pc \in HoldsRow \ {"refreshing"}   -> 3
      [] task[t].pc = "fallback"                    -> 2
      [] task[t].pc = "fallback_refreshing"         -> 1
      [] OTHER                                      -> 0

\* Where it is within the loop over the rules.
Turn(t) ==
    CASE task[t].pc = "evaluating" -> 3
      [] task[t].pc = "inserting"  -> 2
      [] task[t].pc = "rereading"  -> 1
      [] OTHER                     -> 0

\* What is still before it.
EventsLeft(t) == { i \in DOMAIN Events(t) : i > task[t].at }
RulesLeft(t) == { k \in RuleNumbers : k >= task[t].rule }
ChannelsLeft(t) == { c \in Channels : c >= task[t].channel }

Fewer(S, T) == S \subseteq T /\ S # T

\* Nearer to the end of its events, of the event in hand, of the rules, of the
\* rule in hand, or of the notifiers.
Nearer(t) ==
    \/ Fewer(EventsLeft(t)', EventsLeft(t))
    \/ /\ EventsLeft(t)' = EventsLeft(t)
       /\ \/ Stage(t)' < Stage(t)
          \/ /\ Stage(t)' = Stage(t)
             /\ \/ Fewer(RulesLeft(t)', RulesLeft(t))
                \/ /\ RulesLeft(t)' \subseteq RulesLeft(t)
                   /\ \/ Turn(t)' < Turn(t)
                      \/ Turn(t)' = Turn(t) /\ Fewer(ChannelsLeft(t)', ChannelsLeft(t))

LEMMA StageValues ==
    ASSUME NEW t
    PROVE  /\ Stage(t) \in 0..6
           /\ task[t].pc = "absent" => Stage(t) = 6
           /\ task[t].pc = "saving" => Stage(t) = 5
           /\ task[t].pc = "refreshing" => Stage(t) = 4
           /\ task[t].pc \in {"evaluating", "inserting", "rereading", "notifying"} => Stage(t) = 3
           /\ task[t].pc = "fallback" => Stage(t) = 2
           /\ task[t].pc = "fallback_refreshing" => Stage(t) = 1
           /\ task[t].pc \in Finished => Stage(t) = 0
           /\ task[t].pc \in Running => Stage(t) > 0
BY DEF Stage, HoldsRow, Finished, Running

LEMMA TurnValues ==
    ASSUME NEW t
    PROVE  /\ task[t].pc = "evaluating" => Turn(t) = 3
           /\ task[t].pc = "inserting" => Turn(t) = 2
           /\ task[t].pc = "rereading" => Turn(t) = 1
           /\ task[t].pc = "notifying" => Turn(t) = 0
BY DEF Turn

LEMMA StaysAtEvent ==
    ASSUME load' = load, NEW t, task'[t].at = task[t].at
    PROVE  EventsLeft(t)' = EventsLeft(t)
BY DEF EventsLeft, Events

LEMMA ReturnNearer ==
    ASSUME Parsed, load' = load, NEW t \in Tasks, NEW isEvent \in BOOLEAN,
           \/ task[t].pc \in {"saving", "refreshing"}
           \/ task[t].pc = "evaluating" /\ isEvent,
           task'[t] = Return(t, isEvent)
    PROVE  Nearer(t)
<1>1. /\ TypeOK /\ task[t] \in TaskStates /\ Via(t) \in {"udp", "rest", "batch"}
      /\ task[t].at \in DOMAIN Events(t) /\ task[t].at \in Pos
  BY TaskFields, LoadFacts DEF Parsed
<1>2. /\ task'[t].pc \in {"ended", "answered", "fallback", "saving"}
      /\ task'[t].pc = "fallback" => ~isEvent
      /\ task'[t].at = IF task'[t].pc = "saving" THEN task[t].at + 1 ELSE task[t].at
  BY <1>1, ReturnFields DEF HoldsRow, HoldsAlert
<1>3. CASE task'[t].pc = "saving"
  <2>1. task[t].at # Len(Events(t)) /\ task'[t].at = task[t].at + 1
    BY <1>1, <1>2, <1>3, ReturnNext DEF Finished
  <2>2. task'[t].at \in DOMAIN Events(t)
    BY <1>1, <2>1, LoadFacts DEF Pos
  <2>3. Events(t)' = Events(t) /\ DOMAIN Events(t) \subseteq Nat
    BY <1>1, LoadFacts DEF Events, Pos
  <2>4. task'[t].at \in EventsLeft(t) /\ task'[t].at \notin EventsLeft(t)'
    BY <1>1, <2>1, <2>2, <2>3 DEF EventsLeft, Pos
  <2>5. EventsLeft(t)' \subseteq EventsLeft(t)
    BY <1>1, <2>1, <2>3 DEF EventsLeft, Pos
  <2> QED BY <2>4, <2>5 DEF Nearer, Fewer
<1>4. CASE task'[t].pc # "saving"
  <2>1. EventsLeft(t)' = EventsLeft(t)
    BY <1>2, <1>4, StaysAtEvent
  <2>2. Stage(t) \in {3, 4, 5} /\ (Stage(t) = 3 => isEvent)
    BY StageValues
  <2>3. Stage(t)' = 0 \/ (Stage(t)' = 2 /\ ~isEvent)
    BY <1>2, <1>4 DEF Stage, HoldsRow
  <2>4. Stage(t)' < Stage(t)
    BY <2>2, <2>3
  <2> QED BY <2>1, <2>4 DEF Nearer
<1> QED BY <1>3, <1>4

LEMMA SameRules ==
    ASSUME load' = load, NEW t \in Tasks
    PROVE  /\ RuleNumbers' = RuleNumbers
           /\ task'[t].rule = task[t].rule => RulesLeft(t)' = RulesLeft(t)
BY DEF RuleNumbers, RulesLeft

\* The task goes on with its event, in a later stage.
LEMMA StageNearer ==
    ASSUME load' = load, NEW t \in Tasks, task'[t].at = task[t].at, Stage(t)' < Stage(t)
    PROVE  Nearer(t)
BY StaysAtEvent DEF Nearer

\* It goes on with the rules, in a later turn.
LEMMA TurnNearer ==
    ASSUME load' = load, NEW t \in Tasks, task'[t].at = task[t].at, Stage(t)' = Stage(t),
           RulesLeft(t)' \subseteq RulesLeft(t), Turn(t)' < Turn(t)
    PROVE  Nearer(t)
BY StaysAtEvent DEF Nearer

LEMMA OpensNearer ==
    ASSUME Parsed, Follows, NEW t \in Tasks,
           Accept(t) \/ DropUnparsed(t) \/ Save(t) \/ SaveFallback(t) \/ Refresh(t)
    PROVE  load' = load /\ Moves(t) /\ Nearer(t)
<1>1. /\ load' = load /\ Moves(t) /\ task'[t].at = task[t].at
      /\ \/ task[t].pc = "absent" /\ task'[t].pc \in {"saving", "ended"}
         \/ task[t].pc = "saving" /\ task'[t].pc = "refreshing"
         \/ task[t].pc = "fallback" /\ task'[t].pc = "fallback_refreshing"
         \/ task[t].pc = "refreshing" /\ task'[t].pc = "evaluating"
  BY AcceptMoves, SaveMoves, RefreshMoves DEF Parsed, SameEvent
<1>2. Stage(t)' < Stage(t)
  BY <1>1 DEF Stage, HoldsRow
<1> QED BY <1>1, <1>2, StageNearer

LEMMA ClosesNearer ==
    ASSUME Parsed, Follows, NEW t \in Tasks,
           \/ AnswerFallback(t) \/ FallbackFails(t) \/ SaveFails(t) \/ RefreshFails(t)
           \/ EvaluationEnds(t) \/ \E k \in RuleNumbers : EvaluationRaises(t, k)
    PROVE  load' = load /\ Moves(t) /\ Nearer(t)
<1>1. ASSUME load' = load, task'[t].at = task[t].at, task'[t].pc \in {"answered", "failed"},
             task[t].pc \in {"fallback", "fallback_refreshing", "evaluating"}
      PROVE  Nearer(t)
  <2>1. Stage(t)' < Stage(t)
    BY <1>1 DEF Stage, HoldsRow
  <2> QED BY <1>1, <2>1, StageNearer
<1>2. CASE AnswerFallback(t) \/ FallbackFails(t)
  BY <1>1, <1>2, FallbackMoves DEF Parsed, SameEvent
<1>3. CASE SaveFails(t) \/ RefreshFails(t)
  <2>1. /\ Moves(t) /\ load' = load /\ task'[t] = Return(t, FALSE)
        /\ task[t].pc \in {"saving", "refreshing"}
    BY <1>3, FailMoves DEF Parsed
  <2> QED BY <2>1, ReturnNearer
<1>4. CASE EvaluationEnds(t) \/ \E k \in RuleNumbers : EvaluationRaises(t, k)
  <2>1. /\ Moves(t) /\ load' = load /\ task[t].pc = "evaluating"
        /\ \/ task'[t] = Return(t, TRUE)
           \/ task'[t].at = task[t].at /\ task'[t].pc = "failed"
    BY <1>4, EndMoves DEF Parsed, SameEvent
  <2> QED BY <1>1, <2>1, ReturnNearer
<1> QED BY <1>2, <1>3, <1>4

LEMMA AlertsNearer ==
    ASSUME Parsed, Follows, NEW t \in Tasks,
           \/ \E k \in RuleNumbers : Match(t, k)
           \/ InsertAlert(t) \/ RereadAlert(t)
    PROVE  load' = load /\ Moves(t) /\ Nearer(t)
<1>1. /\ load' = load /\ Moves(t) /\ task'[t].at = task[t].at
      /\ \/ task[t].pc = "evaluating" /\ task'[t].pc = "inserting" /\ task[t].rule <= task'[t].rule
         \/ task[t].pc = "inserting" /\ task'[t].pc = "rereading" /\ task'[t].rule = task[t].rule
         \/ task[t].pc = "rereading" /\ task'[t].pc = "notifying" /\ task'[t].rule = task[t].rule
  BY MatchMoves, InsertMoves, RereadMoves DEF Parsed, SameEvent
<1>2. Stage(t)' = Stage(t) /\ Turn(t)' < Turn(t)
  BY <1>1 DEF Stage, Turn, HoldsRow
<1>3. task[t].rule \in Nat /\ task'[t].rule \in Nat /\ RuleNumbers \subseteq Nat /\ RuleNumbers' = RuleNumbers
  BY <1>1, FollowsHere, SameRules DEF Pos, Moves, TaskStates
<1>4. RulesLeft(t)' \subseteq RulesLeft(t)
  BY <1>1, <1>3 DEF RulesLeft
<1> QED BY <1>1, <1>2, <1>4, TurnNearer

\* The rule in hand is one of the rules: behind it there are fewer.
LEMMA NextRuleNearer ==
    ASSUME Parsed, Follows, NEW t \in Tasks, InsertFails(t) \/ RereadFails(t) \/ Announced(t)
    PROVE  load' = load /\ Moves(t) /\ Nearer(t)
<1>1. /\ load' = load /\ Moves(t) /\ task'[t].at = task[t].at
      /\ task[t].pc \in {"inserting", "rereading", "notifying"}
      /\ task'[t].pc = "evaluating" /\ task'[t].rule = task[t].rule + 1
  BY RuleMoves DEF Parsed, SameEvent
<1>2. Stage(t)' = Stage(t)
  BY <1>1 DEF Stage, HoldsRow
<1>3. /\ task[t].rule \in Nat /\ RuleNumbers \subseteq Nat /\ RuleNumbers' = RuleNumbers
      /\ task[t].rule \in RuleNumbers
  BY <1>1, FollowsHere, SameRules DEF Pos, TaskFollows
<1>4. task[t].rule \in RulesLeft(t) /\ task[t].rule \notin RulesLeft(t)'
  BY <1>1, <1>3 DEF RulesLeft
<1>5. \A k \in RuleNumbers : k >= task[t].rule + 1 => k >= task[t].rule
  BY <1>3
<1>6. RulesLeft(t)' \subseteq RulesLeft(t)
  BY <1>1, <1>3, <1>5 DEF RulesLeft
<1> QED BY <1>1, <1>2, <1>4, <1>6, StaysAtEvent DEF Nearer, Fewer

\* The notifier that was tried is not tried again.
LEMMA SendNearer ==
    ASSUME Parsed, Follows, NEW t \in Tasks, NEW c \in Channels, Send(t, c) \/ SendFails(t, c)
    PROVE  load' = load /\ Moves(t) /\ Nearer(t)
<1>1. /\ load' = load /\ Moves(t) /\ task'[t].at = task[t].at /\ task'[t].rule = task[t].rule
      /\ task[t].pc = "notifying" /\ task'[t].pc = "notifying"
      /\ task'[t].channel = c + 1 /\ NextChannel(t, c)
  BY SendMoves DEF Parsed, SameEvent
<1>2. Stage(t)' = Stage(t) /\ Turn(t)' = Turn(t)
  BY <1>1 DEF Stage, Turn, HoldsRow
<1>3. c \in Nat /\ Channels \subseteq Nat /\ task[t].channel \in Nat /\ c >= task[t].channel
  BY <1>1, LoadFacts, TaskFields DEF Parsed, Pos, NextChannel, Remaining
<1>4. c \in ChannelsLeft(t) /\ c \notin ChannelsLeft(t)'
  BY <1>1, <1>3 DEF ChannelsLeft
<1>5. ChannelsLeft(t)' \subseteq ChannelsLeft(t)
  BY <1>1, <1>3 DEF ChannelsLeft, Channels
<1> QED BY <1>1, <1>2, <1>4, <1>5, StaysAtEvent, SameRules DEF Nearer, Fewer

LEMMA StepNearer ==
    ASSUME Parsed, Follows, NEW t \in Tasks, Accept(t) \/ DropUnparsed(t) \/ TaskStep(t) \/ TaskFails(t)
    PROVE  \A s \in Tasks : task'[s] = task[s] \/ Nearer(s)
<1>1. Moves(t) /\ Nearer(t)
  BY OpensNearer, ClosesNearer, AlertsNearer, NextRuleNearer, SendNearer DEF TaskStep, TaskFails
<1> QED BY <1>1 DEF Moves

LEMMA DiesNearer ==
    ASSUME TypeOK, Dies
    PROVE  \A s \in Tasks : task'[s] = task[s] \/ Nearer(s)
<1> SUFFICES ASSUME NEW s \in Tasks, task'[s] # task[s] PROVE Nearer(s)
  OBVIOUS
<1>1. task[s].pc \in Running /\ task'[s].pc = "lost" /\ task'[s].at = task[s].at /\ load' = load
  <2>1. /\ task' = [t \in Tasks |-> IF task[t].pc \in Running THEN [task[t] EXCEPT !.pc = "lost"] ELSE task[t]]
        /\ load' = load
    BY DEF Dies
  <2>2. task[s] \in TaskStates
    BY TaskFields
  <2> QED BY <2>1, <2>2 DEF TaskStates
<1>2. Stage(s)' = 0
  BY <1>1 DEF Stage, HoldsRow
<1>3. Stage(s) > 0
  BY <1>1, StageValues
<1> QED BY <1>1, <1>2, <1>3, StageNearer

-----------------------------------------------------------------------------
(* The measure as numbers. *)

Measure(t) ==
    <<Cardinality(EventsLeft(t)),
      <<Stage(t), <<Cardinality(RulesLeft(t)), <<Turn(t), Cardinality(ChannelsLeft(t))>>>>>>>>

\* Where such measures lie.
Turns == Nat \X Nat
Rules == Nat \X Turns
Steps == Nat \X Rules
Measures == Nat \X Steps

\* Lexicographically less.
TurnsDescend == LexPairOrdering(Below, Below, Nat, Nat)
RulesDescend == LexPairOrdering(Below, TurnsDescend, Nat, Turns)
StepsDescend == LexPairOrdering(Below, RulesDescend, Nat, Rules)
Descend == LexPairOrdering(Below, StepsDescend, Nat, Steps)

\* A measure cannot descend for ever.
THEOREM DescentEnds == IsWellFoundedOn(Descend, Measures)
<1>1. IsWellFoundedOn(Below, Nat)
  BY NatLessThanWellFounded DEF OpToRel, Below
<1>2. IsWellFoundedOn(TurnsDescend, Turns)
  BY <1>1, WFLexPairOrdering DEF TurnsDescend, Turns
<1>3. IsWellFoundedOn(RulesDescend, Rules)
  BY <1>1, <1>2, WFLexPairOrdering DEF RulesDescend, Rules
<1>4. IsWellFoundedOn(StepsDescend, Steps)
  BY <1>1, <1>3, WFLexPairOrdering DEF StepsDescend, Steps
<1> QED BY <1>1, <1>4, WFLexPairOrdering DEF Descend, Measures

LEMMA LeftFinite ==
    ASSUME TypeOK, NEW t \in Tasks
    PROVE  /\ IsFiniteSet(EventsLeft(t)) /\ IsFiniteSet(RulesLeft(t)) /\ IsFiniteSet(ChannelsLeft(t))
           /\ Cardinality(EventsLeft(t)) \in Nat /\ Cardinality(RulesLeft(t)) \in Nat
           /\ Cardinality(ChannelsLeft(t)) \in Nat
           /\ Stage(t) \in Nat /\ Turn(t) \in Nat
<1>1. PICK n \in DOMAIN Workloads : load = Workloads[n]
  BY DEF TypeOK
<1>2. DOMAIN load.rules = 1..Len(load.rules) /\ Len(load.rules) \in Nat
  BY <1>1, WorkloadAssumption
<1>3. DOMAIN Events(t) = 1..Len(Events(t)) /\ Len(Events(t)) \in Nat
  BY LoadFacts DEF Pos
<1>4. DOMAIN MinLevel = 1..Len(MinLevel) /\ Len(MinLevel) \in Nat
  BY WorkloadAssumption
<1>5. \A m \in Nat : IsFiniteSet(1..m)
  BY FS_Interval
<1>6. IsFiniteSet(DOMAIN Events(t)) /\ IsFiniteSet(RuleNumbers) /\ IsFiniteSet(Channels)
  BY <1>2, <1>3, <1>4, <1>5 DEF RuleNumbers, Channels
<1>7. IsFiniteSet(EventsLeft(t)) /\ IsFiniteSet(RulesLeft(t)) /\ IsFiniteSet(ChannelsLeft(t))
  BY <1>6, FS_Subset DEF EventsLeft, RulesLeft, ChannelsLeft
<1>8. Stage(t) \in Nat /\ Turn(t) \in Nat
  BY DEF Stage, Turn
<1> QED BY <1>7, <1>8, FS_CardinalityType

Numbers ==
    \A t \in Tasks : /\ Cardinality(EventsLeft(t)) \in Nat /\ Cardinality(RulesLeft(t)) \in Nat
                     /\ Cardinality(ChannelsLeft(t)) \in Nat
                     /\ Stage(t) \in Nat /\ Turn(t) \in Nat

LEMMA MeasureNumbers == TypeOK => Numbers
BY LeftFinite DEF Numbers

LEMMA MeasureNumbersNext == TypeOK' => Numbers'
BY MeasureNumbers, PTL

\* Nearer means less.
LEMMA NearerDescends ==
    ASSUME TypeOK, TypeOK', NEW t \in Tasks, Nearer(t)
    PROVE  <<Measure(t)', Measure(t)>> \in Descend
<1>1. PICK e \in Nat, s \in Nat, r \in Nat, u \in Nat, c \in Nat :
          /\ e = Cardinality(EventsLeft(t)) /\ s = Stage(t) /\ r = Cardinality(RulesLeft(t))
          /\ u = Turn(t) /\ c = Cardinality(ChannelsLeft(t))
  BY LeftFinite
<1>2. PICK e1 \in Nat, s1 \in Nat, r1 \in Nat, u1 \in Nat, c1 \in Nat :
          /\ e1 = Cardinality(EventsLeft(t))' /\ s1 = Stage(t)' /\ r1 = Cardinality(RulesLeft(t))'
          /\ u1 = Turn(t)' /\ c1 = Cardinality(ChannelsLeft(t))'
  <2>1. /\ Cardinality(EventsLeft(t))' \in Nat /\ Cardinality(RulesLeft(t))' \in Nat
        /\ Cardinality(ChannelsLeft(t))' \in Nat
        /\ Stage(t)' \in Nat /\ Turn(t)' \in Nat
    BY MeasureNumbersNext DEF Numbers
  <2> QED BY <2>1
<1>3. ASSUME NEW S, NEW T, IsFiniteSet(T), Fewer(S, T) PROVE Cardinality(S) < Cardinality(T)
  BY <1>3, FS_Subset, FS_CardinalityType DEF Fewer
<1>4. /\ Fewer(EventsLeft(t)', EventsLeft(t)) => e1 < e
      /\ EventsLeft(t)' = EventsLeft(t) => e1 = e
  BY <1>1, <1>2, <1>3, LeftFinite
<1>5. /\ Fewer(RulesLeft(t)', RulesLeft(t)) => r1 < r
      /\ RulesLeft(t)' = RulesLeft(t) => r1 = r
      /\ RulesLeft(t)' \subseteq RulesLeft(t) => Fewer(RulesLeft(t)', RulesLeft(t)) \/ RulesLeft(t)' = RulesLeft(t)
  BY <1>1, <1>2, <1>3, LeftFinite DEF Fewer
<1>6. Fewer(ChannelsLeft(t)', ChannelsLeft(t)) => c1 < c
  BY <1>1, <1>2, <1>3, LeftFinite
<1>7. \/ e1 < e
      \/ e1 = e /\ (\/ s1 < s
                    \/ s1 = s /\ (\/ r1 < r
                                  \/ r1 = r /\ (u1 < u \/ (u1 = u /\ c1 < c))))
  BY <1>1, <1>2, <1>4, <1>5, <1>6 DEF Nearer
<1>8. Measure(t) = <<e, <<s, <<r, <<u, c>>>>>>>> /\ Measure(t)' = <<e1, <<s1, <<r1, <<u1, c1>>>>>>>>
  BY <1>1, <1>2 DEF Measure
<1>9. (u1 < u \/ (u1 = u /\ c1 < c)) => <<<<u1, c1>>, <<u, c>>>> \in TurnsDescend
  BY DEF TurnsDescend, LexPairOrdering, Below
<1>10. (r1 < r \/ (r1 = r /\ <<<<u1, c1>>, <<u, c>>>> \in TurnsDescend))
       => <<<<r1, <<u1, c1>>>>, <<r, <<u, c>>>>>> \in RulesDescend
  BY DEF RulesDescend, LexPairOrdering, Below, Turns
<1>11. (s1 < s \/ (s1 = s /\ <<<<r1, <<u1, c1>>>>, <<r, <<u, c>>>>>> \in RulesDescend))
       => <<<<s1, <<r1, <<u1, c1>>>>>>, <<s, <<r, <<u, c>>>>>>>> \in StepsDescend
  BY DEF StepsDescend, LexPairOrdering, Below, Turns, Rules
<1>12. (e1 < e \/ (e1 = e /\ <<<<s1, <<r1, <<u1, c1>>>>>>, <<s, <<r, <<u, c>>>>>>>> \in StepsDescend))
       => <<<<e1, <<s1, <<r1, <<u1, c1>>>>>>>>, <<e, <<s, <<r, <<u, c>>>>>>>>>> \in Descend
  BY DEF Descend, LexPairOrdering, Below, Turns, Rules, Steps
<1> QED BY <1>7, <1>8, <1>9, <1>10, <1>11, <1>12

\* A step brings a task down its measure or leaves it alone, whatever fails and
\* whatever the other tasks do: none goes back to an event, a rule, an alert or a
\* notifier it has been through, and as a descent ends (DescentEnds) none can take
\* steps for ever.
THEOREM TasksOnlyAdvance ==
    Spec => [][\A t \in Tasks : task'[t] = task[t] \/ <<Measure(t)', Measure(t)>> \in Descend]_vars
<1>1. Init => Parsed /\ Follows
  BY InitParsed, InitFollows
<1>2. Parsed /\ Follows /\ [Next]_vars => Parsed' /\ Follows'
  BY ParsedNext, FollowsNext
<1>3. ASSUME Parsed, Follows, Parsed', Next
      PROVE  \A t \in Tasks : task'[t] = task[t] \/ <<Measure(t)', Measure(t)>> \in Descend
  <2>0. TypeOK /\ TypeOK'
    BY <1>3 DEF Parsed
  <2>1. ASSUME NEW t \in Tasks, Accept(t) \/ DropUnparsed(t) \/ TaskStep(t) \/ TaskFails(t)
        PROVE  \A s \in Tasks : task'[s] = task[s] \/ Nearer(s)
    BY <1>3, <2>1, StepNearer
  <2>2. ASSUME Stop \/ Crash PROVE \A s \in Tasks : task'[s] = task[s] \/ Nearer(s)
    BY <2>0, <2>2, DiesNearer DEF Stop, Crash
  <2>3. ASSUME NEW r \in DOMAIN rows, AnalysisStep(r) PROVE task' = task
    BY <2>0, <2>3, AnalysisMoves
  <2>4. ASSUME Terminate \/ Restart PROVE task' = task
    BY <2>4 DEF Terminate, Restart
  <2>5. \A s \in Tasks : task'[s] = task[s] \/ Nearer(s)
    <3>1. \/ \E t \in Tasks : Accept(t) \/ DropUnparsed(t) \/ TaskStep(t) \/ TaskFails(t)
          \/ \E r \in DOMAIN rows : AnalysisStep(r)
          \/ Terminate \/ Restart \/ Stop \/ Crash
      BY <1>3 DEF Next
    <3> QED BY <2>1, <2>2, <2>3, <2>4, <3>1
  <2> QED BY <2>0, <2>5, NearerDescends
<1>4. Parsed /\ Follows /\ Parsed' /\ [Next]_vars =>
          [\A t \in Tasks : task'[t] = task[t] \/ <<Measure(t)', Measure(t)>> \in Descend]_vars
  BY <1>3
<1> QED BY <1>1, <1>2, <1>4, PTL DEF Spec

\* What TaskStep asks for, action by action, is there for t: the guard of a step
\* that needs no failure.
CanStep(t) ==
    \/ \E pc \in Running \ {"evaluating", "notifying"} : Is(t, pc)
    \/ Is(t, "evaluating") /\ Deciding(t) = {}
    \/ \E k \in RuleNumbers : Decides(t, k) /\ VerdictOf(t, k) \in {"match", "raises"}
    \/ Is(t, "notifying") /\ Remaining(t) = {}
    \/ \E c \in Channels : NextChannel(t, c)

\* A task that has not finished is never stuck while the process runs: either no
\* rule decides any more or there is a first that does, and either every notifier
\* was tried or there is a next one.
THEOREM NeverStuck ==
    Spec => [](\A t \in Tasks : task[t].pc \in Running /\ phase # "down" => CanStep(t))
<1>1. Init => Parsed
  BY InitParsed
<1>2. Parsed /\ [Next]_vars => Parsed'
  BY ParsedNext
<1>3. Parsed => \A t \in Tasks : task[t].pc \in Running /\ phase # "down" => CanStep(t)
  <2> SUFFICES ASSUME Parsed, NEW t \in Tasks, task[t].pc \in Running, phase # "down" PROVE CanStep(t)
    OBVIOUS
  <2>1. TypeOK /\ RuleNumbers \subseteq Nat /\ Channels \subseteq Nat
    BY LoadFacts DEF Parsed, Pos
  <2>2. CASE task[t].pc \notin {"evaluating", "notifying"}
    BY <2>2 DEF CanStep, Is
  <2>3. CASE task[t].pc = "evaluating" /\ Deciding(t) # {}
    <3>1. Deciding(t) \subseteq Nat
      BY <2>1 DEF Deciding
    <3>2. PICK k \in Deciding(t) : \A q \in Deciding(t) : k <= q
      BY <2>3, <3>1, LeastNatural
    <3>3. k \in RuleNumbers /\ VerdictOf(t, k) # "no"
      BY <3>2 DEF Deciding
    <3>4. load.rules[k].conditions \in JsonConditions
      BY <2>1, <3>3, ConditionsOfRules DEF ConditionsOf
    <3>5. VerdictOf(t, k) \in Verdicts
      BY <3>4, RuleVerdict DEF VerdictOf
    <3>6. Decides(t, k)
      BY <2>3, <3>2 DEF Decides, Is
    <3> QED BY <3>3, <3>5, <3>6 DEF CanStep, Verdicts
  <2>4. CASE task[t].pc = "notifying" /\ Remaining(t) # {}
    <3>1. Remaining(t) \subseteq Channels
      BY DEF Remaining, Targets
    <3>2. PICK c \in Remaining(t) : \A d \in Remaining(t) : c <= d
      BY <2>1, <2>4, <3>1, LeastNatural
    <3>3. NextChannel(t, c)
      BY <2>4, <3>2 DEF NextChannel, Is
    <3> QED BY <3>1, <3>3 DEF CanStep
  <2>5. CASE (task[t].pc = "evaluating" /\ Deciding(t) = {}) \/ (task[t].pc = "notifying" /\ Remaining(t) = {})
    BY <2>5 DEF CanStep, Is
  <2> QED BY <2>2, <2>3, <2>4, <2>5
<1> QED BY <1>1, <1>2, <1>3, PTL DEF Spec
=============================================================================
