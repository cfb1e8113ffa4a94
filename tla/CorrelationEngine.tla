------------------------- MODULE CorrelationEngine -------------------------
(***************************************************************************)
(* The correlation engine (backend/app/services/engine.py) with the two    *)
(* callbacks main.py registers, which write alerts through sessions of     *)
(* their own (backend/app/main.py, backend/app/services/alert_service.py). *)
(*                                                                         *)
(* Every event is evaluated by a task of its own (one per UDP datagram or  *)
(* request).  Tasks share the engine's memory and interleave at awaits     *)
(* only: between two awaits a task runs alone, so one action is one        *)
(* stretch of code from an await to the next.  A query or a commit takes   *)
(* effect in the database while its task is suspended on it.               *)
(***************************************************************************)
EXTENDS Integers, Sequences, FiniteSets

CONSTANTS
    Workers,      \* tasks evaluating events, each one event at a time
    Rules,        \* detection rules, numbered in the order they are evaluated
    Windowed,     \* the rules with a correlation_window
    WindowLen,    \* correlation_window, in clock units
    MaxTime,      \* bound: the clock stops here
    MaxEvents,    \* bound: events received
    MaxReloads,   \* bound: calls of cargar_reglas after start-up
    MaxEdits,     \* bound: status changes of alerts by users
    MaxFailures   \* bound: database failures inside callbacks

ASSUME EngineAssumption ==
    /\ Rules \subseteq Nat /\ IsFiniteSet(Rules)
    /\ Windowed \subseteq Rules
    /\ WindowLen \in Nat \ {0}
    /\ MaxTime \in Nat /\ MaxEvents \in Nat
    /\ MaxReloads \in Nat /\ MaxEdits \in Nat /\ MaxFailures \in Nat

VARIABLES
    now,       \* the clock
    loaded,    \* engine._reglas: the rules in memory
    windows,   \* every window ever opened; those in _ventanas are current
    current,   \* _ventanas: rule -> index in windows, 0 when it has none
    alerts,    \* table alerts, in created_at order
    task,      \* what each worker is doing
    events,    \* history: events received
    matches,   \* history: matches of each rule
    reloads, edits, failures,  \* histories, for the bounds
    overlapped \* history: an event arrived while another was being evaluated

engineVars == <<loaded, windows, current>>
bounds == <<events, reloads, edits, failures, overlapped>>
vars == <<now, engineVars, alerts, task, matches, bounds>>

\* A window: its rule, _ventanas[rule]["event_count"], the instants it was
\* opened and expires, and the number of reloads before it was opened.
Window == [rule : Windowed, count : Nat, opened : Nat, expires : Nat, epoch : Nat]

\* An alert: its rule, whether its status is "open", its event_count and the
\* window whose opening created it (0 for a rule without window).
Alert == [rule : Rules, open : BOOLEAN, count : Nat, window : Nat]

\* A worker: todo holds the rules the event matches (pc = "received"), then
\* those of them its loop has yet to look at; rule, count and window belong to
\* the callback it awaits; target is the alert its query found.
Idle == [pc |-> "idle", todo |-> {}, rule |-> 0, count |-> 0, window |-> 0, target |-> 0]

Task == [pc : {"idle", "received", "loop", "creating", "finding", "writing"},
         todo : SUBSET Rules, rule : Nat, count : Nat, window : Nat, target : Nat]

TypeOK ==
    /\ now \in 0..MaxTime
    /\ loaded \subseteq Rules
    /\ windows \in Seq(Window)
    /\ current \in [Windowed -> 0..Len(windows)]
    /\ \A r \in Windowed : current[r] # 0 => windows[current[r]].rule = r
    /\ alerts \in Seq(Alert)
    /\ task \in [Workers -> Task]
    /\ events \in 0..MaxEvents
    /\ matches \in [Rules -> Nat]
    /\ reloads \in 0..MaxReloads
    /\ edits \in 0..MaxEdits
    /\ failures \in 0..MaxFailures
    /\ overlapped \in BOOLEAN

Init ==
    /\ now = 0
    /\ loaded = Rules
    /\ windows = <<>> /\ current = [r \in Windowed |-> 0]
    /\ alerts = <<>>
    /\ task = [w \in Workers |-> Idle]
    /\ matches = [r \in Rules |-> 0]
    /\ events = 0 /\ reloads = 0 /\ edits = 0 /\ failures = 0 /\ overlapped = FALSE

-----------------------------------------------------------------------------
(* evaluate() and _manejar_match() *)

\* The event is saved and evaluate() is called for it.
Receive(w, hits) ==
    /\ task[w].pc = "idle"
    /\ events < MaxEvents
    /\ hits # {}
    /\ events' = events + 1
    /\ overlapped' = (overlapped \/ \E v \in Workers : task[v].pc # "idle")
    /\ task' = [task EXCEPT ![w] = [Idle EXCEPT !.pc = "received", !.todo = hits]]
    /\ UNCHANGED <<now, engineVars, alerts, matches, reloads, edits, failures>>

\* The rules still to be looked at.  The loop runs over the list that is loaded
\* when evaluate() starts, also when cargar_reglas replaces it meanwhile.
ToDo(w) == CASE task[w].pc = "received" -> task[w].todo \cap loaded
             [] task[w].pc = "loop"     -> task[w].todo
             [] OTHER                   -> {}

\* The next matching rule of w's loop is r.
NextMatch(w, r) == r \in ToDo(w) /\ \A q \in ToDo(w) : r <= q

Matched(r) == matches' = [matches EXCEPT ![r] = @ + 1]

\* The worker waits for a callback of rule r.
Await(w, pc, r, count, window) ==
    task' = [task EXCEPT ![w] = [pc |-> pc, todo |-> ToDo(w) \ {r}, rule |-> r,
                                 count |-> count, window |-> window, target |-> 0]]

\* ventana and ventana["expires_at"] > ahora
InWindow(r) == current[r] # 0 /\ windows[current[r]].expires > now

\* No correlation_window: an alert at once.
MatchImmediate(w, r) ==
    /\ NextMatch(w, r)
    /\ r \notin Windowed
    /\ Matched(r)
    /\ Await(w, "creating", r, 1, 0)
    /\ UNCHANGED <<now, engineVars, alerts, bounds>>

\* A callback that is handed the counter read before the event was counted.
MatchInWindow_OldCount(w, r) ==
    /\ NextMatch(w, r)
    /\ r \in Windowed
    /\ InWindow(r)
    /\ Matched(r)
    /\ windows' = [windows EXCEPT ![current[r]].count = @ + 1]
    /\ Await(w, "finding", r, windows[current[r]].count, current[r])
    /\ UNCHANGED <<now, loaded, current, alerts, bounds>>

\* Inside the window: count the event, then hand the counter to the callback.
MatchInWindow(w, r) ==
    /\ NextMatch(w, r)
    /\ r \in Windowed
    /\ InWindow(r)
    /\ Matched(r)
    /\ windows' = [windows EXCEPT ![current[r]].count = @ + 1]
    /\ Await(w, "finding", r, windows[current[r]].count + 1, current[r])
    /\ UNCHANGED <<now, loaded, current, alerts, bounds>>

\* A window that is not recorded in _ventanas before the callback is awaited.
MatchOpensWindow_NotRecorded(w, r) ==
    /\ NextMatch(w, r)
    /\ r \in Windowed
    /\ ~InWindow(r)
    /\ Matched(r)
    /\ windows' = Append(windows, [rule |-> r, count |-> 1, opened |-> now,
                                   expires |-> now + WindowLen, epoch |-> reloads])
    /\ Await(w, "creating", r, 1, Len(windows) + 1)
    /\ UNCHANGED <<now, loaded, current, alerts, bounds>>

\* No window, or an expired one: open a window, then create its alert.
MatchOpensWindow(w, r) ==
    /\ NextMatch(w, r)
    /\ r \in Windowed
    /\ ~InWindow(r)
    /\ Matched(r)
    /\ windows' = Append(windows, [rule |-> r, count |-> 1, opened |-> now,
                                   expires |-> now + WindowLen, epoch |-> reloads])
    /\ current' = [current EXCEPT ![r] = Len(windows) + 1]
    /\ Await(w, "creating", r, 1, Len(windows) + 1)
    /\ UNCHANGED <<now, loaded, alerts, bounds>>

\* The loop over the rules ends and evaluate() returns.
EndLoop(w) ==
    /\ task[w].pc \in {"received", "loop"}
    /\ ToDo(w) = {}
    /\ task' = [task EXCEPT ![w] = Idle]
    /\ UNCHANGED <<now, engineVars, alerts, matches, bounds>>

-----------------------------------------------------------------------------
(* The callbacks. *)

\* The callback returned; the loop goes on with the remaining rules.
Resume(w) ==
    task' = [task EXCEPT ![w] = [Idle EXCEPT !.pc = "loop", !.todo = task[w].todo]]

\* crear_alerta_desde_engine commits the new alert.
CreateAlert(w) ==
    /\ task[w].pc = "creating"
    /\ alerts' = Append(alerts, [rule |-> task[w].rule, open |-> TRUE,
                                 count |-> 1, window |-> task[w].window])
    /\ Resume(w)
    /\ UNCHANGED <<now, engineVars, matches, bounds>>

\* actualizar_contadores: the most recent open alert of the rule.
OpenAlertsOf(r) == { a \in DOMAIN alerts : alerts[a].rule = r /\ alerts[a].open }

FindAlert(w) ==
    /\ task[w].pc = "finding"
    /\ \E a \in OpenAlertsOf(task[w].rule) :
           /\ \A b \in OpenAlertsOf(task[w].rule) : b <= a
           /\ task' = [task EXCEPT ![w].pc = "writing", ![w].target = a]
    /\ UNCHANGED <<now, engineVars, alerts, matches, bounds>>

\* "No open alert found for rule": the counter of this event goes nowhere.
FindNoAlert(w) ==
    /\ task[w].pc = "finding"
    /\ OpenAlertsOf(task[w].rule) = {}
    /\ Resume(w)
    /\ UNCHANGED <<now, engineVars, alerts, matches, bounds>>

\* A callback that adds to a counter instead of writing the window's counter.
WriteCount_Adds(w) ==
    /\ task[w].pc = "writing"
    /\ alerts' = [alerts EXCEPT ![task[w].target].count = @ + task[w].count]
    /\ Resume(w)
    /\ UNCHANGED <<now, engineVars, matches, bounds>>

\* alerta.event_count = event_count, and the commit.
WriteCount(w) ==
    /\ task[w].pc = "writing"
    /\ alerts' = [alerts EXCEPT ![task[w].target].count = task[w].count]
    /\ Resume(w)
    /\ UNCHANGED <<now, engineVars, matches, bounds>>

\* The database refuses the insert, the query or the update: the exception is
\* logged and swallowed, the window stays as it is and the loop goes on.
CallbackFails(w) ==
    /\ task[w].pc \in {"creating", "finding", "writing"}
    /\ failures < MaxFailures
    /\ failures' = failures + 1
    /\ Resume(w)
    /\ UNCHANGED <<now, engineVars, alerts, matches, events, reloads, edits, overlapped>>

-----------------------------------------------------------------------------
(* The rest of the server. *)

\* cargar_reglas: a new list of active rules; every window is forgotten.
LoadRules(active) ==
    /\ reloads < MaxReloads
    /\ reloads' = reloads + 1
    /\ loaded' = active
    /\ current' = [r \in Windowed |-> 0]
    /\ UNCHANGED <<now, windows, alerts, task, matches, events, edits, failures, overlapped>>

\* actualizar_estado: a user moves an alert to any status; only whether it is
\* "open" matters to the engine.
ChangeStatus(a) ==
    /\ edits < MaxEdits
    /\ edits' = edits + 1
    /\ alerts' = [alerts EXCEPT ![a].open = ~ @]
    /\ UNCHANGED <<now, engineVars, task, matches, events, reloads, failures, overlapped>>

Tick ==
    /\ now < MaxTime
    /\ now' = now + 1
    /\ UNCHANGED <<engineVars, alerts, task, matches, bounds>>

-----------------------------------------------------------------------------
WorkerStep(w) ==
    \/ \E r \in Rules : MatchImmediate(w, r) \/ MatchInWindow(w, r) \/ MatchOpensWindow(w, r)
    \/ EndLoop(w)
    \/ CreateAlert(w) \/ FindAlert(w) \/ FindNoAlert(w) \/ WriteCount(w)

Next ==
    \/ \E w \in Workers : \/ \E hits \in SUBSET Rules : Receive(w, hits)
                          \/ WorkerStep(w)
                          \/ CallbackFails(w)
    \/ \E active \in SUBSET Rules : LoadRules(active)
    \/ \E a \in DOMAIN alerts : ChangeStatus(a)
    \/ Tick

Spec == Init /\ [][Next]_vars

-----------------------------------------------------------------------------
(* Properties. *)

\* One window raises at most one alert, and between two reloads of the rules
\* the windows of a rule that raised alerts were opened at least WindowLen
\* apart, however the tasks interleave: this is what the window is for
\* (_manejar_match records the window before it awaits the alert's creation).
AlertsSpaced ==
    \A a, b \in DOMAIN alerts :
        (a # b /\ alerts[a].window # 0 /\ alerts[b].window # 0
               /\ alerts[a].rule = alerts[b].rule)
        => LET v == windows[alerts[a].window]
               u == windows[alerts[b].window]
           IN  /\ alerts[a].window # alerts[b].window
               /\ v.epoch = u.epoch =>
                      v.opened >= u.opened + WindowLen \/ u.opened >= v.opened + WindowLen

\* An alert never shows more events than matched its rule: late, lost and
\* misdirected updates can only lower a counter.
NeverOvercounts ==
    \A a \in DOMAIN alerts : alerts[a].count <= matches[alerts[a].rule]

\* When no event is being evaluated, every alert still open shows the number
\* of events its window counted, as long as events were evaluated one after the
\* other, the database answered and nobody edited alerts.
CountersSettled ==
    (failures = 0 /\ edits = 0 /\ ~overlapped /\ \A w \in Workers : task[w].pc = "idle")
    => \A a \in DOMAIN alerts :
           alerts[a].window # 0 => alerts[a].count = windows[alerts[a].window].count

-----------------------------------------------------------------------------
(* A statement of the code that concurrent evaluation refutes. *)

\* actualizar_contadores lets "multiple events within a correlation window ...
\* update the same alert" (alert_service.py:145): a window's counter is only
\* written to the alert that window raised.
CountersStayInTheirWindow ==
    \A w \in Workers : task[w].pc = "writing" =>
        alerts[task[w].target].window = task[w].window
=============================================================================
