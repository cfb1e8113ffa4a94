---------------------- MODULE CorrelationEngineProofs ----------------------
(***************************************************************************)
(* Proofs about CorrelationEngine, for any number of tasks, rules, events, *)
(* reloads and failures: alerts of one rule keep their distance, no alert  *)
(* shows more events than matched its rule, and an engine left alone shows *)
(* every event its windows counted.                                        *)
(***************************************************************************)
EXTENDS CorrelationEngine, TLAPS

Windows == DOMAIN windows

\* A window lasts WindowLen from the instant it was opened.
WindowTimes ==
    \A i \in Windows : /\ windows[i].expires = windows[i].opened + WindowLen
                       /\ windows[i].epoch <= reloads

\* The window a rule has in memory is the one that expires last of those opened
\* since the last reload.
CurrentIsLatest ==
    \A i \in Windows : windows[i].epoch = reloads =>
        /\ current[windows[i].rule] # 0
        /\ windows[i].expires <= windows[current[windows[i].rule]].expires

WindowsSpaced ==
    \A i, j \in Windows :
        (i < j /\ windows[i].rule = windows[j].rule /\ windows[i].epoch = windows[j].epoch)
        => windows[j].opened >= windows[i].opened + WindowLen

\* An alert belongs to the window that raised it, and to no other.
AlertWindows ==
    /\ \A a \in DOMAIN alerts : alerts[a].window # 0 =>
           alerts[a].window \in Windows /\ windows[alerts[a].window].rule = alerts[a].rule
    /\ \A a, b \in DOMAIN alerts :
           a # b /\ alerts[a].window # 0 => alerts[a].window # alerts[b].window

Creating(w) == task[w].pc = "creating" /\ task[w].window # 0

\* A task that is about to create the alert of a window is the only one that
\* does, and the alert does not exist yet.
CreationsPending ==
    /\ \A w \in Workers : Creating(w) =>
           /\ task[w].window \in Windows
           /\ windows[task[w].window].rule = task[w].rule
           /\ \A a \in DOMAIN alerts : alerts[a].window # task[w].window
    /\ \A w, v \in Workers :
           w # v /\ Creating(w) /\ Creating(v) => task[w].window # task[v].window

\* A task waiting for a callback works for a rule; the alert it is about to
\* update is one of that rule.
WaitingTasks ==
    \A w \in Workers :
        /\ task[w].pc \in {"creating", "finding", "writing"} => task[w].rule \in Rules
        /\ task[w].pc = "writing" => /\ task[w].target \in DOMAIN alerts
                                     /\ alerts[task[w].target].rule = task[w].rule

SpacingInv ==
    /\ TypeOK
    /\ WaitingTasks
    /\ WindowTimes
    /\ CurrentIsLatest
    /\ WindowsSpaced
    /\ AlertWindows
    /\ CreationsPending

\* Whatever shows a number of events of a rule shows no more than matched it.
CountInv ==
    /\ \A i \in Windows : windows[i].count <= matches[windows[i].rule]
    /\ \A w \in Workers : task[w].pc \in {"creating", "finding", "writing"} =>
           task[w].count <= matches[task[w].rule] /\ 1 <= matches[task[w].rule]
    /\ NeverOvercounts

-----------------------------------------------------------------------------
(* Types. *)

LEMMA ToDoType ==
    ASSUME TypeOK, NEW w \in Workers
    PROVE  ToDo(w) \subseteq Rules
BY DEF TypeOK, ToDo, Task

\* Waiting for a callback leaves a well-formed task.
LEMMA AwaitType ==
    ASSUME TypeOK, NEW w \in Workers, NEW r \in Rules,
           NEW pc \in {"creating", "finding"}, NEW count \in Nat, NEW window \in Nat,
           Await(w, pc, r, count, window)
    PROVE  /\ task' \in [Workers -> Task]
           /\ task'[w].pc = pc /\ task'[w].rule = r /\ task'[w].count = count
           /\ task'[w].window = window
           /\ \A v \in Workers \ {w} : task'[v] = task[v]
<1>1. task \in [Workers -> Task] /\ r \in Nat
  BY EngineAssumption DEF TypeOK, EngineAssumption
<1> DEFINE q == [pc |-> pc, todo |-> ToDo(w) \ {r}, rule |-> r,
                 count |-> count, window |-> window, target |-> 0]
<1>2. q \in Task
  BY <1>1, ToDoType DEF Task
<1>3. task' = [task EXCEPT ![w] = q]
  BY DEF Await
<1>4. q.pc = pc /\ q.rule = r /\ q.count = count /\ q.window = window
  OBVIOUS
<1> HIDE DEF q
<1>5. QED
  BY <1>1, <1>2, <1>3, <1>4

\* Resuming the loop leaves a well-formed task that waits for nothing.
LEMMA ResumeType ==
    ASSUME TypeOK, NEW w \in Workers, Resume(w)
    PROVE  /\ task' \in [Workers -> Task]
           /\ task'[w].pc = "loop"
           /\ \A v \in Workers \ {w} : task'[v] = task[v]
<1>1. task \in [Workers -> Task] /\ task[w].todo \subseteq Rules
  BY DEF TypeOK, Task
<1> DEFINE q == [Idle EXCEPT !.pc = "loop", !.todo = task[w].todo]
<1>2. q \in Task /\ q.pc = "loop"
  BY <1>1 DEF Task, Idle
<1>3. task' = [task EXCEPT ![w] = q]
  BY DEF Resume
<1> HIDE DEF q
<1>4. QED
  BY <1>1, <1>2, <1>3

\* The tasks after a step that moves task w out of every callback.
Released(w) ==
    /\ task' \in [Workers -> Task]
    /\ task'[w].pc \in {"idle", "received", "loop"}
    /\ \A v \in Workers \ {w} : task'[v] = task[v]

LEMMA ReceiveType ==
    ASSUME TypeOK, NEW w \in Workers, NEW hits \in SUBSET Rules, Receive(w, hits)
    PROVE  Released(w)
<1>1. task \in [Workers -> Task]
  BY DEF TypeOK
<1> DEFINE q == [Idle EXCEPT !.pc = "received", !.todo = hits]
<1>2. q \in Task /\ q.pc = "received"
  BY DEF Task, Idle
<1>3. task' = [task EXCEPT ![w] = q]
  BY DEF Receive
<1> HIDE DEF q
<1>4. QED
  BY <1>1, <1>2, <1>3 DEF Released

LEMMA EndLoopType ==
    ASSUME TypeOK, NEW w \in Workers, EndLoop(w)
    PROVE  Released(w)
<1>1. task \in [Workers -> Task] /\ Idle \in Task /\ Idle.pc = "idle"
  BY DEF TypeOK, Task, Idle
<1>2. QED
  BY <1>1 DEF EndLoop, Released

\* The alert FindAlert takes is an alert of the task's rule.
LEMMA FindAlertType ==
    ASSUME TypeOK, NEW w \in Workers, FindAlert(w)
    PROVE  /\ task' \in [Workers -> Task]
           /\ task'[w].pc = "writing" /\ task[w].pc = "finding"
           /\ task'[w].rule = task[w].rule /\ task'[w].count = task[w].count
           /\ task'[w].window = task[w].window
           /\ task'[w].target \in DOMAIN alerts
           /\ alerts[task'[w].target].rule = task[w].rule
           /\ \A b \in OpenAlertsOf(task[w].rule) : b <= task'[w].target
           /\ \A v \in Workers \ {w} : task'[v] = task[v]
<1>1. task \in [Workers -> Task] /\ task[w] \in Task /\ alerts \in Seq(Alert)
  BY DEF TypeOK
<1>2. PICK a \in OpenAlertsOf(task[w].rule) :
          /\ task' = [task EXCEPT ![w].pc = "writing", ![w].target = a]
          /\ \A b \in OpenAlertsOf(task[w].rule) : b <= a
  BY DEF FindAlert
<1>3. a \in DOMAIN alerts /\ alerts[a].rule = task[w].rule /\ a \in Nat
  BY <1>1, <1>2 DEF OpenAlertsOf
<1> DEFINE q == [task[w] EXCEPT !.pc = "writing", !.target = a]
<1>4. /\ q \in Task /\ q.pc = "writing" /\ q.target = a
      /\ q.rule = task[w].rule /\ q.count = task[w].count /\ q.window = task[w].window
  BY <1>1, <1>3 DEF Task
<1>5. task' = [task EXCEPT ![w] = q]
  BY <1>1, <1>2 DEF Task
<1> HIDE DEF q
<1>6. QED
  BY <1>1, <1>2, <1>3, <1>4, <1>5 DEF FindAlert

\* Windows are numbered from 1; each is one of a rule with a window, and so is
\* the current window of each such rule.
LEMMA WindowsType ==
    ASSUME TypeOK
    PROVE  /\ Len(windows) \in Nat /\ Windows = 1..Len(windows)
           /\ \A i \in Windows : /\ windows[i] \in Window
                                 /\ windows[i].rule \in Windowed
                                 /\ windows[i].count \in Nat
                                 /\ windows[i].opened \in Nat
                                 /\ windows[i].expires \in Nat
                                 /\ windows[i].epoch \in Nat
                                 /\ current[windows[i].rule] # 0 =>
                                        current[windows[i].rule] \in Windows
           /\ \A r \in Windowed : current[r] # 0 =>
                  current[r] \in Windows /\ windows[current[r]].rule = r
<1>1. windows \in Seq(Window) /\ current \in [Windowed -> 0..Len(windows)]
  BY DEF TypeOK
<1>2. Len(windows) \in Nat /\ Windows = 1..Len(windows)
  BY <1>1 DEF Windows
<1>3. \A i \in Windows : windows[i] \in Window
  BY <1>1, <1>2
<1>4. \A x \in Window : /\ x.rule \in Windowed /\ x.count \in Nat /\ x.opened \in Nat
                        /\ x.expires \in Nat /\ x.epoch \in Nat
  BY DEF Window
<1>5. \A r \in Windowed : current[r] # 0 => current[r] \in Windows
  <2>1. SUFFICES ASSUME NEW r \in Windowed, current[r] # 0 PROVE current[r] \in 1..Len(windows)
    BY <1>2
  <2>2. current[r] \in 0..Len(windows)
    BY <1>1
  <2>3. QED
    BY <1>2, <2>1, <2>2
<1>6. \A r \in Windowed : current[r] # 0 => windows[current[r]].rule = r
  BY DEF TypeOK
<1>7. QED
  BY <1>2, <1>3, <1>4, <1>5, <1>6

-----------------------------------------------------------------------------
(* The spacing of alerts. *)

\* Steps that open no window and create no alert: counters, statuses and tasks
\* change, but no task starts to create the alert of a window.
QuietStep ==
    /\ UNCHANGED <<current, reloads>>
    /\ DOMAIN windows' = DOMAIN windows
    /\ \A i \in Windows : /\ windows'[i].rule = windows[i].rule
                          /\ windows'[i].opened = windows[i].opened
                          /\ windows'[i].expires = windows[i].expires
                          /\ windows'[i].epoch = windows[i].epoch
    /\ DOMAIN alerts' = DOMAIN alerts
    /\ \A a \in DOMAIN alerts : /\ alerts'[a].rule = alerts[a].rule
                                /\ alerts'[a].window = alerts[a].window
    /\ \A w \in Workers : \/ task'[w] = task[w]
                          \/ /\ ~(task'[w].pc = "creating" /\ task'[w].window # 0)
                             /\ task'[w].pc \in {"creating", "finding", "writing"}
                                    => task'[w].rule \in Rules
                             /\ task'[w].pc = "writing" =>
                                    /\ task'[w].target \in DOMAIN alerts
                                    /\ alerts[task'[w].target].rule = task'[w].rule

LEMMA QuietStepInv ==
    ASSUME SpacingInv, TypeOK', QuietStep
    PROVE  SpacingInv'
<1>1. Windows' = Windows /\ \A w \in Workers : Creating(w)' => task'[w] = task[w] /\ Creating(w)
  BY DEF QuietStep, Windows, Creating
<1>2. WaitingTasks'
  BY DEF QuietStep, SpacingInv, WaitingTasks
<1>3. WindowTimes'
  BY <1>1 DEF QuietStep, SpacingInv, WindowTimes
<1>4. CurrentIsLatest'
  <2>1. \A i \in Windows : current[windows[i].rule] # 0 => current[windows[i].rule] \in Windows
    <3>1. TypeOK
      BY DEF SpacingInv
    <3>2. QED
      BY ONLY <3>1, WindowsType
  <2>2. QED
    BY <1>1, <2>1 DEF QuietStep, SpacingInv, CurrentIsLatest
<1>5. WindowsSpaced'
  BY <1>1 DEF QuietStep, SpacingInv, WindowsSpaced
<1>6. AlertWindows'
  BY <1>1 DEF QuietStep, SpacingInv, AlertWindows
<1>7. CreationsPending'
  BY <1>1 DEF QuietStep, SpacingInv, CreationsPending
<1>8. QED
  BY <1>2, <1>3, <1>4, <1>5, <1>6, <1>7 DEF SpacingInv

LEMMA InitSpacing == Init => SpacingInv
<1> SUFFICES ASSUME Init PROVE SpacingInv
  OBVIOUS
<1>1. /\ windows = <<>> /\ alerts = <<>> /\ Windows = {} /\ DOMAIN alerts = {}
      /\ \A w \in Workers : task[w] = Idle
      /\ Idle.pc = "idle" /\ Idle \in Task
  BY DEF Init, Windows, Idle, Task
<1>2. TypeOK
  <2>1. overlapped \in BOOLEAN
    BY Zenon DEF Init
  <2>2. QED
    BY <1>1, <2>1, EngineAssumption DEF Init, TypeOK, EngineAssumption
<1>3. QED
  BY <1>1, <1>2
     DEF SpacingInv, WaitingTasks, WindowTimes, CurrentIsLatest, WindowsSpaced,
         AlertWindows, CreationsPending, Creating

\* A match outside any window opens the rule's next window; the last one has
\* expired, or was forgotten by a reload.
LEMMA OpensWindowInv ==
    ASSUME SpacingInv, NEW w \in Workers, NEW r \in Rules, MatchOpensWindow(w, r)
    PROVE  SpacingInv'
<1> DEFINE k == Len(windows) + 1
           v == [rule |-> r, count |-> 1, opened |-> now,
                 expires |-> now + WindowLen, epoch |-> reloads]
<1> USE EngineAssumption
<1>1. /\ TypeOK /\ r \in Windowed /\ ~InWindow(r) /\ Windowed \subseteq Rules
      /\ windows \in Seq(Window) /\ windows' = Append(windows, v)
      /\ current' = [current EXCEPT ![r] = k]
      /\ Await(w, "creating", r, 1, k)
      /\ UNCHANGED <<now, loaded, alerts, events, reloads, edits, failures, overlapped>>
      /\ matches' = [matches EXCEPT ![r] = @ + 1]
  BY DEF SpacingInv, TypeOK, MatchOpensWindow, bounds, Matched, EngineAssumption
<1>2. /\ Len(windows) \in Nat /\ Windows = 1..Len(windows)
      /\ k \in Nat /\ 1 \in Nat /\ k # 0 /\ k = Len(windows) + 1
      /\ now \in Nat /\ reloads \in Nat /\ WindowLen \in Nat /\ WindowLen > 0
  BY <1>1, WindowsType DEF TypeOK, EngineAssumption
<1>3. /\ windows' = Append(windows, v) /\ v \in Window
      /\ v.rule = r /\ v.opened = now /\ v.expires = now + WindowLen /\ v.epoch = reloads
  BY <1>1, <1>2 DEF Window
<1> HIDE DEF v, k
<1>4. /\ windows' \in Seq(Window) /\ Windows' = 1..k /\ windows'[k] = v
      /\ \A i \in Windows : windows'[i] = windows[i]
      /\ \A i \in Windows' : i = k \/ i \in Windows
      /\ \A i \in Windows : i < k
  BY <1>1, <1>2, <1>3 DEF Windows
<1>5. /\ task' \in [Workers -> Task] /\ task'[w].pc = "creating" /\ task'[w].rule = r
      /\ task'[w].window = k
      /\ \A u \in Workers \ {w} : task'[u] = task[u]
  <2>1. Await(w, "creating", r, 1, k) /\ TypeOK /\ 1 \in Nat /\ k \in Nat
    BY <1>1, <1>2
  <2>2. QED
    BY ONLY <2>1, AwaitType
<1>6. /\ current \in [Windowed -> 0..Len(windows)]
      /\ current'[r] = k /\ \A q \in Windowed \ {r} : current'[q] = current[q]
      /\ current' \in [Windowed -> 0..k]
  BY <1>1, <1>2 DEF TypeOK
<1>7. Len(windows') = k
  BY <1>1, <1>2, <1>3
<1>8. TypeOK'
  <2>1. \A q \in Windowed : current'[q] # 0 => windows'[current'[q]].rule = q
    <3>1. SUFFICES ASSUME NEW q \in Windowed, current'[q] # 0
                   PROVE  windows'[current'[q]].rule = q
      OBVIOUS
    <3>2. CASE q = r
      BY <1>3, <1>4, <1>6, <3>2
    <3>3. CASE q # r
      BY <1>1, <1>4, <1>6, <3>1, <3>3, WindowsType
    <3>4. QED
      BY <3>2, <3>3
  <2>2. matches' \in [Rules -> Nat]
    BY <1>1 DEF TypeOK
  <2>3. QED
    BY <1>1, <1>4, <1>5, <1>6, <1>7, <2>1, <2>2 DEF TypeOK
<1>9. WaitingTasks'
  BY <1>1, <1>5 DEF SpacingInv, WaitingTasks
<1>10. \A i \in Windows : /\ windows[i].rule \in Windowed
                          /\ windows[i].opened \in Nat /\ windows[i].expires \in Nat
                          /\ windows[i].epoch \in Nat
  BY <1>1, WindowsType
<1>11. WindowTimes'
  <2>1. ASSUME NEW i \in Windows'
        PROVE  windows'[i].expires = windows'[i].opened + WindowLen /\ windows'[i].epoch <= reloads'
    <3>1. CASE i = k
      BY <1>1, <1>2, <1>3, <1>4, <3>1
    <3>2. CASE i \in Windows
      BY <1>1, <1>4, <3>2 DEF SpacingInv, WindowTimes
    <3>3. QED
      BY <1>4, <3>1, <3>2
  <2>2. QED
    BY <2>1 DEF WindowTimes
<1>12. \A i \in Windows : windows[i].rule = r /\ windows[i].epoch = reloads =>
           windows[i].expires <= now
  <2>1. SUFFICES ASSUME NEW i \in Windows, windows[i].rule = r, windows[i].epoch = reloads
                 PROVE  windows[i].expires <= now
    OBVIOUS
  <2>2. current[r] # 0 /\ windows[i].expires <= windows[current[r]].expires
    BY <2>1 DEF SpacingInv, CurrentIsLatest
  <2>3. current[r] \in Windows
    BY <1>1, <2>2, WindowsType
  <2>4. windows[current[r]].expires <= now
    BY <1>1, <1>2, <1>10, <2>2, <2>3 DEF InWindow
  <2>5. QED
    BY <1>2, <1>10, <2>2, <2>3, <2>4
<1>13. CurrentIsLatest'
  <2>1. SUFFICES ASSUME NEW i \in Windows', windows'[i].epoch = reloads
                 PROVE  /\ current'[windows'[i].rule] # 0
                        /\ windows'[i].expires <= windows'[current'[windows'[i].rule]].expires
    BY <1>1 DEF CurrentIsLatest
  <2>2. CASE i = k
    BY <1>2, <1>3, <1>4, <1>6, <2>2
  <2>3. CASE i \in Windows /\ windows[i].rule = r
    <3>1. windows[i].expires <= now
      BY <1>4, <1>12, <2>1, <2>3
    <3>2. QED
      BY <1>2, <1>3, <1>4, <1>6, <1>10, <2>3, <3>1
  <2>4. CASE i \in Windows /\ windows[i].rule # r
    <3>1. /\ current[windows[i].rule] # 0
          /\ windows[i].expires <= windows[current[windows[i].rule]].expires
      BY <1>4, <2>1, <2>4 DEF SpacingInv, CurrentIsLatest
    <3>2. current'[windows[i].rule] = current[windows[i].rule] /\ current[windows[i].rule] \in Windows
      BY <1>1, <1>6, <1>10, <2>4, <3>1, WindowsType
    <3>3. QED
      BY <1>4, <2>4, <3>1, <3>2
  <2>5. QED
    BY <1>4, <2>1, <2>2, <2>3, <2>4
<1>14. WindowsSpaced'
  <2>1. SUFFICES ASSUME NEW i \in Windows', NEW j \in Windows', i < j,
                        windows'[i].rule = windows'[j].rule, windows'[i].epoch = windows'[j].epoch
                 PROVE  windows'[j].opened >= windows'[i].opened + WindowLen
    BY DEF WindowsSpaced
  <2>2. i \in Windows
    BY <1>2, <1>4, <2>1
  <2>3. CASE j \in Windows
    BY <1>4, <2>1, <2>2, <2>3 DEF SpacingInv, WindowsSpaced
  <2>4. CASE j = k
    <3>1. windows[i].rule = r /\ windows[i].epoch = reloads
      BY <1>3, <1>4, <2>1, <2>2, <2>4
    <3>2. windows[i].expires <= now /\ windows[i].expires = windows[i].opened + WindowLen
      BY <1>12, <2>2, <3>1 DEF SpacingInv, WindowTimes
    <3>3. QED
      BY <1>2, <1>3, <1>4, <1>10, <2>2, <2>4, <3>2
  <2>5. QED
    BY <1>4, <2>1, <2>3, <2>4
<1>15. AlertWindows'
  <2>1. alerts' = alerts /\ \A i \in Windows : i \in Windows'
    BY <1>1, <1>2, <1>4
  <2>2. QED
    BY <1>4, <2>1 DEF SpacingInv, AlertWindows
<1>16. CreationsPending'
  <2>1. \A a \in DOMAIN alerts : alerts[a].window # k
    BY <1>2, <1>4 DEF SpacingInv, AlertWindows
  <2>2. \A u \in Workers \ {w} : Creating(u)' = Creating(u)
    BY <1>5 DEF Creating
  <2>3. ASSUME NEW u \in Workers, Creating(u)'
        PROVE  /\ task'[u].window \in Windows'
               /\ windows'[task'[u].window].rule = task'[u].rule
               /\ \A a \in DOMAIN alerts' : alerts'[a].window # task'[u].window
    <3>1. CASE u = w
      <4>1. k \in Windows' /\ alerts' = alerts
        BY <1>1, <1>2, <1>4
      <4>2. QED
        BY <1>3, <1>4, <1>5, <2>1, <3>1, <4>1
    <3>2. CASE u # w
      <4>1. task'[u] = task[u] /\ Creating(u) /\ alerts' = alerts
        BY <1>1, <1>5, <2>2, <2>3, <3>2
      <4>2. task[u].window \in Windows /\ task[u].window \in Windows'
        BY <1>2, <1>4, <4>1 DEF SpacingInv, CreationsPending
      <4>3. QED
        BY <1>4, <4>1, <4>2 DEF SpacingInv, CreationsPending
    <3>3. QED
      BY <3>1, <3>2
  <2>4. ASSUME NEW u \in Workers, NEW x \in Workers, u # x, Creating(u)', Creating(x)'
        PROVE  task'[u].window # task'[x].window
    <3>1. \A y \in Workers \ {w} : Creating(y) => task[y].window \in Windows /\ task[y].window # k
      BY <1>2, <1>4 DEF SpacingInv, CreationsPending
    <3>2. QED
      BY <1>5, <2>2, <2>4, <3>1 DEF SpacingInv, CreationsPending
  <2>5. QED
    BY <2>3, <2>4 DEF CreationsPending
<1>17. QED
  BY <1>8, <1>9, <1>11, <1>13, <1>14, <1>15, <1>16 DEF SpacingInv

\* The alert of a window is created once, by the task that opened it.
LEMMA CreateAlertInv ==
    ASSUME SpacingInv, NEW w \in Workers, CreateAlert(w)
    PROVE  SpacingInv'
<1> DEFINE n == Len(alerts) + 1
           x == [rule |-> task[w].rule, open |-> TRUE, count |-> 1, window |-> task[w].window]
<1>1. /\ TypeOK /\ task[w].pc = "creating" /\ Resume(w) /\ alerts' = Append(alerts, x)
      /\ UNCHANGED <<now, loaded, windows, current, matches, events, reloads, edits, failures, overlapped>>
  BY DEF SpacingInv, CreateAlert, engineVars, bounds
<1>2. /\ task' \in [Workers -> Task] /\ task'[w].pc = "loop"
      /\ \A v \in Workers \ {w} : task'[v] = task[v]
  BY <1>1, ResumeType
<1>3. task[w].rule \in Rules /\ task[w].window \in Nat /\ alerts \in Seq(Alert)
  BY <1>1 DEF SpacingInv, WaitingTasks, TypeOK, Task
<1>4. x \in Alert /\ x.rule = task[w].rule /\ x.window = task[w].window
  BY <1>3 DEF Alert
<1> HIDE DEF x
<1>5. /\ alerts' \in Seq(Alert) /\ n \in Nat /\ DOMAIN alerts' = DOMAIN alerts \cup {n}
      /\ n \notin DOMAIN alerts /\ alerts'[n] = x
      /\ \A a \in DOMAIN alerts : alerts'[a] = alerts[a]
  BY <1>1, <1>3, <1>4
<1> HIDE DEF n
<1>6. TypeOK'
  BY <1>1, <1>2, <1>5 DEF TypeOK
<1>7. WaitingTasks'
  BY <1>2, <1>5 DEF SpacingInv, WaitingTasks
<1>8. Windows' = Windows /\ WindowTimes' /\ CurrentIsLatest' /\ WindowsSpaced'
  BY <1>1 DEF SpacingInv, Windows, WindowTimes, CurrentIsLatest, WindowsSpaced
<1>9. \A v \in Workers : Creating(v)' => v # w /\ Creating(v) /\ task'[v] = task[v]
  BY <1>2 DEF Creating
<1>10. x.window # 0 => /\ Creating(w)
                       /\ x.window \in Windows /\ windows[x.window].rule = x.rule
                       /\ \A a \in DOMAIN alerts : alerts[a].window # x.window
  BY <1>1, <1>4 DEF SpacingInv, CreationsPending, Creating
<1>11. AlertWindows'
  <2>1. ASSUME NEW a \in DOMAIN alerts', alerts'[a].window # 0
        PROVE  alerts'[a].window \in Windows' /\ windows'[alerts'[a].window].rule = alerts'[a].rule
    <3>1. CASE a = n
      BY <1>1, <1>5, <1>8, <1>10, <2>1, <3>1
    <3>2. CASE a \in DOMAIN alerts
      BY <1>1, <1>5, <1>8, <2>1, <3>2 DEF SpacingInv, AlertWindows
    <3>3. QED
      BY <1>5, <3>1, <3>2
  <2>2. ASSUME NEW a \in DOMAIN alerts', NEW b \in DOMAIN alerts', a # b, alerts'[a].window # 0
        PROVE  alerts'[a].window # alerts'[b].window
    <3>1. CASE a = n
      BY <1>5, <1>10, <2>2, <3>1
    <3>2. CASE b = n
      BY <1>5, <1>10, <2>2, <3>2
    <3>3. CASE a # n /\ b # n
      BY <1>5, <2>2, <3>3 DEF SpacingInv, AlertWindows
    <3>4. QED
      BY <3>1, <3>2, <3>3
  <2>3. QED
    BY <2>1, <2>2 DEF AlertWindows
<1>12. CreationsPending'
  <2>1. ASSUME NEW v \in Workers, Creating(v)'
        PROVE  /\ task'[v].window \in Windows'
               /\ windows'[task'[v].window].rule = task'[v].rule
               /\ \A a \in DOMAIN alerts' : alerts'[a].window # task'[v].window
    <3>1. v # w /\ Creating(v) /\ task'[v] = task[v] /\ task[v].window # 0
      BY <1>9, <2>1 DEF Creating
    <3>2. x.window # task[v].window
      BY <1>4, <1>10, <3>1 DEF SpacingInv, CreationsPending
    <3>3. QED
      BY <1>1, <1>5, <1>8, <3>1, <3>2 DEF SpacingInv, CreationsPending
  <2>2. ASSUME NEW v \in Workers, NEW u \in Workers, v # u, Creating(v)', Creating(u)'
        PROVE  task'[v].window # task'[u].window
    BY <1>9, <2>2 DEF SpacingInv, CreationsPending
  <2>3. QED
    BY <2>1, <2>2 DEF CreationsPending
<1>13. QED
  BY <1>6, <1>7, <1>8, <1>11, <1>12 DEF SpacingInv

\* A reload starts a new epoch in which no window has been opened yet.
LEMMA LoadRulesInv ==
    ASSUME SpacingInv, NEW active \in SUBSET Rules, LoadRules(active)
    PROVE  SpacingInv'
<1>1. /\ TypeOK /\ reloads' = reloads + 1 /\ reloads < MaxReloads
      /\ loaded' = active /\ current' = [r \in Windowed |-> 0]
      /\ UNCHANGED <<now, windows, alerts, task, matches, events, edits, failures, overlapped>>
  BY DEF SpacingInv, LoadRules
<1>2. reloads \in Nat /\ MaxReloads \in Nat /\ Windows' = Windows /\ Len(windows) \in Nat
  BY <1>1, EngineAssumption, WindowsType DEF TypeOK, EngineAssumption, Windows
<1>3. \A i \in Windows : windows[i].epoch \in Nat /\ windows[i].epoch <= reloads
  BY <1>1, WindowsType DEF SpacingInv, WindowTimes
<1>4. TypeOK'
  <2>1. current' \in [Windowed -> 0..Len(windows)] /\ \A r \in Windowed : current'[r] = 0
    BY <1>1, <1>2
  <2>2. reloads' \in 0..MaxReloads
    BY <1>1, <1>2
  <2>3. QED
    BY <1>1, <2>1, <2>2 DEF TypeOK
<1>5. WindowTimes'
  BY <1>1, <1>2, <1>3 DEF SpacingInv, WindowTimes
<1>6. CurrentIsLatest'
  BY <1>1, <1>2, <1>3 DEF CurrentIsLatest
<1>7. WaitingTasks' /\ WindowsSpaced' /\ AlertWindows' /\ CreationsPending'
  BY <1>1, <1>2 DEF SpacingInv, WaitingTasks, WindowsSpaced, AlertWindows, CreationsPending, Creating
<1>8. QED
  BY <1>4, <1>5, <1>6, <1>7 DEF SpacingInv

\* Waiting for the update callback, or for the creation of an alert without
\* window, creates nothing.
LEMMA MatchImmediateInv ==
    ASSUME SpacingInv, NEW w \in Workers, NEW r \in Rules, MatchImmediate(w, r)
    PROVE  SpacingInv'
<1>1. /\ TypeOK /\ Await(w, "creating", r, 1, 0) /\ 0 \in Nat /\ 1 \in Nat
      /\ matches' = [matches EXCEPT ![r] = @ + 1]
      /\ UNCHANGED <<now, loaded, windows, current, alerts, events, reloads, edits, failures, overlapped>>
  BY DEF SpacingInv, MatchImmediate, Matched, engineVars, bounds
<1>2. /\ task' \in [Workers -> Task] /\ task'[w].pc = "creating"
      /\ task'[w].rule = r /\ task'[w].window = 0
      /\ \A v \in Workers \ {w} : task'[v] = task[v]
  BY ONLY <1>1, AwaitType
<1>3. matches' \in [Rules -> Nat]
  BY <1>1 DEF TypeOK
<1>4. TypeOK'
  BY <1>1, <1>2, <1>3 DEF TypeOK
<1>5. QuietStep
  BY <1>1, <1>2 DEF QuietStep
<1>6. QED
  BY <1>4, <1>5, QuietStepInv

\* Counting an event changes the counter of a window and nothing else in it.
LEMMA CountsEvent ==
    ASSUME TypeOK, NEW w \in Workers, NEW r \in Rules, MatchInWindow(w, r)
    PROVE  /\ current[r] \in Windows /\ windows[current[r]].rule = r
           /\ windows' \in Seq(Window) /\ Len(windows') = Len(windows)
           /\ DOMAIN windows' = DOMAIN windows
           /\ windows'[current[r]] = [windows[current[r]] EXCEPT !.count = @ + 1]
           /\ \A i \in Windows \ {current[r]} : windows'[i] = windows[i]
           /\ \A i \in Windows : /\ windows'[i].rule = windows[i].rule
                                 /\ windows'[i].opened = windows[i].opened
                                 /\ windows'[i].expires = windows[i].expires
                                 /\ windows'[i].epoch = windows[i].epoch
<1> DEFINE c == current[r]
           q == [windows[c] EXCEPT !.count = @ + 1]
<1>1. r \in Windowed /\ c # 0 /\ windows' = [windows EXCEPT ![c].count = @ + 1]
  BY DEF MatchInWindow, InWindow
<1>2. c \in Windows /\ windows[c].rule = r /\ windows \in Seq(Window) /\ windows[c] \in Window
  BY <1>1, WindowsType DEF TypeOK
<1>3. /\ q \in Window /\ q.rule = windows[c].rule /\ q.opened = windows[c].opened
      /\ q.expires = windows[c].expires /\ q.epoch = windows[c].epoch
  <2>1. ASSUME NEW x \in Window, NEW y, y = [x EXCEPT !.count = @ + 1]
        PROVE  /\ y \in Window /\ y.rule = x.rule /\ y.opened = x.opened
               /\ y.expires = x.expires /\ y.epoch = x.epoch
    BY <2>1 DEF Window
  <2>2. QED
    BY <1>2, <2>1
<1>4. windows' = [windows EXCEPT ![c] = q]
  BY <1>1, <1>2 DEF Window
<1> HIDE DEF q, c
<1>5. /\ windows' \in Seq(Window) /\ Len(windows') = Len(windows)
      /\ DOMAIN windows' = DOMAIN windows /\ windows'[c] = q
      /\ \A i \in Windows \ {c} : windows'[i] = windows[i]
  BY <1>2, <1>3, <1>4 DEF Windows
<1>6. QED
  BY <1>2, <1>3, <1>5 DEF c, q

LEMMA MatchInWindowInv ==
    ASSUME SpacingInv, NEW w \in Workers, NEW r \in Rules, MatchInWindow(w, r)
    PROVE  SpacingInv'
<1> DEFINE n == windows[current[r]].count + 1
<1>1. /\ TypeOK /\ Await(w, "finding", r, n, current[r])
      /\ matches' = [matches EXCEPT ![r] = @ + 1]
      /\ UNCHANGED <<now, loaded, current, alerts, events, reloads, edits, failures, overlapped>>
  BY DEF SpacingInv, MatchInWindow, Matched, bounds
<1>2. /\ windows' \in Seq(Window) /\ Len(windows') = Len(windows) /\ DOMAIN windows' = DOMAIN windows
      /\ \A i \in Windows : /\ windows'[i].rule = windows[i].rule
                            /\ windows'[i].opened = windows[i].opened
                            /\ windows'[i].expires = windows[i].expires
                            /\ windows'[i].epoch = windows[i].epoch
      /\ current[r] \in Windows
  BY ONLY <1>1, MatchInWindow(w, r), w \in Workers, r \in Rules, CountsEvent
<1>3. n \in Nat /\ current[r] \in Nat
  BY <1>1, <1>2, WindowsType
<1> HIDE DEF n
<1>4. /\ task' \in [Workers -> Task] /\ task'[w].pc = "finding" /\ task'[w].rule = r
      /\ \A v \in Workers \ {w} : task'[v] = task[v]
  BY ONLY <1>1, <1>3, w \in Workers, r \in Rules, AwaitType
<1>5. \A q \in Windowed : current[q] # 0 => windows'[current[q]].rule = q
  BY <1>1, <1>2, WindowsType
<1>6. matches' \in [Rules -> Nat]
  BY <1>1 DEF TypeOK
<1>7. TypeOK'
  BY <1>1, <1>2, <1>4, <1>5, <1>6 DEF TypeOK
<1>8. QuietStep
  BY <1>1, <1>2, <1>4 DEF QuietStep
<1>9. QED
  BY <1>7, <1>8, QuietStepInv

\* A task that leaves a callback and changes nothing else is quiet.
LEMMA ReleaseInv ==
    ASSUME SpacingInv, NEW w \in Workers, Released(w),
           UNCHANGED <<now, engineVars, alerts, matches, reloads, edits>>,
           events' \in 0..MaxEvents, failures' \in 0..MaxFailures, overlapped' \in BOOLEAN
    PROVE  SpacingInv'
<1>1. TypeOK'
  BY DEF SpacingInv, TypeOK, Released, engineVars
<1>2. QuietStep
  BY DEF QuietStep, Released, engineVars
<1>3. QED
  BY <1>1, <1>2, QuietStepInv

LEMMA FindAlertInv ==
    ASSUME SpacingInv, NEW w \in Workers, FindAlert(w)
    PROVE  SpacingInv'
<1>1. TypeOK /\ UNCHANGED <<now, loaded, windows, current, alerts, matches, events, reloads, edits, failures, overlapped>>
  BY DEF SpacingInv, FindAlert, engineVars, bounds
<1>2. /\ task' \in [Workers -> Task]
      /\ task'[w].pc = "writing" /\ task[w].pc = "finding" /\ task'[w].rule = task[w].rule
      /\ task'[w].target \in DOMAIN alerts /\ alerts[task'[w].target].rule = task[w].rule
      /\ \A v \in Workers \ {w} : task'[v] = task[v]
  BY <1>1, FindAlertType
<1>3. task[w].rule \in Rules
  BY <1>2 DEF SpacingInv, WaitingTasks
<1>4. TypeOK'
  BY <1>1, <1>2 DEF TypeOK
<1>5. QuietStep
  BY <1>1, <1>2, <1>3 DEF QuietStep
<1>6. QED
  BY <1>4, <1>5, QuietStepInv

\* Updating an alert changes its counter or its status only.
AlertUpdated(a) ==
    /\ alerts' \in Seq(Alert) /\ DOMAIN alerts' = DOMAIN alerts
    /\ \A b \in DOMAIN alerts : alerts'[b].rule = alerts[b].rule /\ alerts'[b].window = alerts[b].window
    /\ \A b \in DOMAIN alerts \ {a} : alerts'[b] = alerts[b]

LEMMA WriteCountType ==
    ASSUME SpacingInv, NEW w \in Workers, WriteCount(w)
    PROVE  /\ AlertUpdated(task[w].target) /\ task[w].target \in DOMAIN alerts
           /\ alerts'[task[w].target].count = task[w].count
           /\ alerts'[task[w].target].open = alerts[task[w].target].open
<1>1. alerts \in Seq(Alert) /\ task[w].count \in Nat /\ task[w].target \in DOMAIN alerts
  BY DEF SpacingInv, WaitingTasks, TypeOK, Task, WriteCount
<1> DEFINE a == task[w].target
           q == [alerts[a] EXCEPT !.count = task[w].count]
<1>2. alerts[a] \in Alert
  BY <1>1
<1>3. q \in Alert /\ q.rule = alerts[a].rule /\ q.window = alerts[a].window /\ q.count = task[w].count
      /\ q.open = alerts[a].open
  <2>1. ASSUME NEW x \in Alert, NEW c \in Nat, NEW y, y = [x EXCEPT !.count = c]
        PROVE  y \in Alert /\ y.rule = x.rule /\ y.window = x.window /\ y.count = c /\ y.open = x.open
    BY <2>1 DEF Alert
  <2>2. QED
    BY <1>1, <1>2, <2>1
<1>4. alerts' = [alerts EXCEPT ![a] = q]
  BY <1>1, <1>2 DEF WriteCount, Alert
<1> HIDE DEF q, a
<1>5. QED
  BY <1>1, <1>3, <1>4 DEF AlertUpdated, a

LEMMA ChangeStatusType ==
    ASSUME TypeOK, NEW a \in DOMAIN alerts, ChangeStatus(a)
    PROVE  AlertUpdated(a) /\ alerts'[a].count = alerts[a].count
<1>1. alerts \in Seq(Alert)
  BY DEF TypeOK
<1> DEFINE q == [alerts[a] EXCEPT !.open = ~ @]
<1>2. alerts[a] \in Alert
  BY <1>1
<1>3. q \in Alert /\ q.rule = alerts[a].rule /\ q.window = alerts[a].window /\ q.count = alerts[a].count
  <2>1. ASSUME NEW x \in Alert, NEW y, y = [x EXCEPT !.open = ~ @]
        PROVE  y \in Alert /\ y.rule = x.rule /\ y.window = x.window /\ y.count = x.count
    <3>1. (~ x.open) \in BOOLEAN
      OBVIOUS
    <3>2. QED
      BY <2>1, <3>1 DEF Alert
  <2>2. QED
    BY <1>2, <2>1
<1>4. alerts' = [alerts EXCEPT ![a] = q]
  BY <1>1, <1>2 DEF ChangeStatus, Alert
<1> HIDE DEF q
<1>5. QED
  BY <1>1, <1>3, <1>4 DEF AlertUpdated

LEMMA WriteCountInv ==
    ASSUME SpacingInv, NEW w \in Workers, WriteCount(w)
    PROVE  SpacingInv'
<1>1. TypeOK /\ UNCHANGED <<now, loaded, windows, current, matches, events, reloads, edits, failures, overlapped>>
  BY DEF SpacingInv, WriteCount, engineVars, bounds
<1>2. AlertUpdated(task[w].target)
  BY WriteCountType
<1>3. /\ task' \in [Workers -> Task] /\ task'[w].pc = "loop"
      /\ \A v \in Workers \ {w} : task'[v] = task[v]
  BY <1>1, ResumeType DEF WriteCount
<1>4. TypeOK'
  BY <1>1, <1>2, <1>3 DEF TypeOK, AlertUpdated
<1>5. QuietStep
  BY <1>1, <1>2, <1>3 DEF QuietStep, AlertUpdated
<1>6. QED
  BY <1>4, <1>5, QuietStepInv

LEMMA ChangeStatusInv ==
    ASSUME SpacingInv, NEW a \in DOMAIN alerts, ChangeStatus(a)
    PROVE  SpacingInv'
<1>1. /\ TypeOK /\ UNCHANGED <<now, loaded, windows, current, task, matches, events, reloads, failures, overlapped>>
      /\ edits' = edits + 1 /\ edits < MaxEdits /\ edits \in 0..MaxEdits /\ MaxEdits \in Nat
  BY EngineAssumption DEF SpacingInv, TypeOK, ChangeStatus, engineVars, EngineAssumption
<1>2. AlertUpdated(a)
  BY <1>1, ChangeStatusType
<1>3. TypeOK'
  <2>1. edits' \in 0..MaxEdits
    BY <1>1
  <2>2. QED
    BY <1>1, <1>2, <2>1 DEF TypeOK, AlertUpdated
<1>4. QuietStep
  BY <1>1, <1>2 DEF QuietStep, AlertUpdated
<1>5. QED
  BY <1>3, <1>4, QuietStepInv

LEMMA TickInv ==
    ASSUME SpacingInv, Tick \/ UNCHANGED vars
    PROVE  SpacingInv'
<1>1. /\ TypeOK /\ now' \in 0..MaxTime
      /\ UNCHANGED <<loaded, windows, current, alerts, task, matches, events, reloads, edits, failures, overlapped>>
  <2>1. TypeOK /\ now \in 0..MaxTime /\ MaxTime \in Nat
    BY EngineAssumption DEF SpacingInv, TypeOK, EngineAssumption
  <2>2. QED
    BY <2>1 DEF Tick, vars, engineVars, bounds
<1>2. TypeOK'
  BY <1>1 DEF TypeOK
<1>3. QuietStep
  BY <1>1 DEF QuietStep
<1>4. QED
  BY <1>2, <1>3, QuietStepInv

\* Tasks that start, end or give up change no window and no alert.
LEMMA ReleasingInv ==
    ASSUME SpacingInv, NEW w \in Workers,
           \/ \E hits \in SUBSET Rules : Receive(w, hits)
           \/ EndLoop(w)
           \/ FindNoAlert(w)
           \/ CallbackFails(w)
    PROVE  SpacingInv' /\ UNCHANGED <<engineVars, alerts, matches>> /\ Released(w)
<1>1. /\ TypeOK /\ events \in 0..MaxEvents /\ failures \in 0..MaxFailures /\ overlapped \in BOOLEAN
      /\ MaxEvents \in Nat /\ MaxFailures \in Nat
  BY EngineAssumption DEF SpacingInv, TypeOK, EngineAssumption
<1>2. CASE \E hits \in SUBSET Rules : Receive(w, hits)
  <2>1. PICK hits \in SUBSET Rules : Receive(w, hits)
    BY <1>2
  <2>2. UNCHANGED <<now, engineVars, alerts, matches, reloads, edits>> /\ failures' = failures
        /\ events' = events + 1 /\ events < MaxEvents
    BY <2>1 DEF Receive
  <2>3. Released(w)
    BY <1>1, <2>1, ReceiveType
  <2>4. events' \in 0..MaxEvents
    BY <1>1, <2>2
  <2>5. overlapped' \in BOOLEAN
    BY <2>1, Zenon DEF Receive
  <2>6. QED
    BY <1>1, <2>2, <2>3, <2>4, <2>5, ReleaseInv
<1>3. CASE EndLoop(w)
  <2>1. UNCHANGED <<now, engineVars, alerts, matches, events, reloads, edits, failures, overlapped>>
    BY <1>3 DEF EndLoop, bounds
  <2>2. QED
    BY <1>1, <1>3, <2>1, EndLoopType, ReleaseInv
<1>4. CASE FindNoAlert(w)
  <2>1. UNCHANGED <<now, engineVars, alerts, matches, events, reloads, edits, failures, overlapped>> /\ Resume(w)
    BY <1>4 DEF FindNoAlert, bounds
  <2>2. Released(w)
    BY <1>1, <2>1, ResumeType DEF Released
  <2>3. QED
    BY <1>1, <2>1, <2>2, ReleaseInv
<1>5. CASE CallbackFails(w)
  <2>1. UNCHANGED <<now, engineVars, alerts, matches, events, reloads, edits, overlapped>> /\ Resume(w)
        /\ failures' \in 0..MaxFailures
    BY <1>1, <1>5 DEF CallbackFails
  <2>2. Released(w)
    BY <1>1, <2>1, ResumeType DEF Released
  <2>3. QED
    BY <1>1, <2>1, <2>2, ReleaseInv
<1>6. QED
  BY <1>2, <1>3, <1>4, <1>5

LEMMA NextSpacing == SpacingInv /\ [Next]_vars => SpacingInv'
<1> SUFFICES ASSUME SpacingInv, [Next]_vars PROVE SpacingInv'
  OBVIOUS
<1>1. ASSUME NEW w \in Workers, NEW r \in Rules,
             MatchImmediate(w, r) \/ MatchInWindow(w, r) \/ MatchOpensWindow(w, r)
      PROVE  SpacingInv'
  BY <1>1, MatchImmediateInv, MatchInWindowInv, OpensWindowInv
<1>2. ASSUME NEW w \in Workers,
             CreateAlert(w) \/ FindAlert(w) \/ WriteCount(w)
      PROVE  SpacingInv'
  BY <1>2, CreateAlertInv, FindAlertInv, WriteCountInv
<1>3. ASSUME NEW w \in Workers,
             \/ \E hits \in SUBSET Rules : Receive(w, hits)
             \/ EndLoop(w) \/ FindNoAlert(w) \/ CallbackFails(w)
      PROVE  SpacingInv'
  BY <1>3, ReleasingInv
<1>4. ASSUME NEW active \in SUBSET Rules, LoadRules(active) PROVE SpacingInv'
  BY <1>4, LoadRulesInv
<1>5. ASSUME NEW a \in DOMAIN alerts, ChangeStatus(a) PROVE SpacingInv'
  BY <1>5, ChangeStatusInv
<1>6. CASE Tick \/ UNCHANGED vars
  BY <1>6, TickInv
<1>7. QED
  BY <1>1, <1>2, <1>3, <1>4, <1>5, <1>6 DEF Next, WorkerStep

\* SpacingInv is an invariant of the engine.
THEOREM SpacingInvariant == Spec => []SpacingInv
<1>1. QED
  BY InitSpacing, NextSpacing, PTL DEF Spec

\* TypeOK, for every number of tasks, rules and events.
THEOREM TypeCorrect == Spec => []TypeOK
<1>1. SpacingInv => TypeOK
  BY DEF SpacingInv
<1>2. QED
  BY <1>1, SpacingInvariant, PTL

\* AlertsSpaced: one alert per window, and windows that raised alerts of one
\* rule are WindowLen apart between two reloads, in any interleaving.
THEOREM WindowsThrottleAlerts == Spec => []AlertsSpaced
<1>1. ASSUME SpacingInv,
             NEW a \in DOMAIN alerts, NEW b \in DOMAIN alerts, a # b,
             alerts[a].window # 0, alerts[b].window # 0, alerts[a].rule = alerts[b].rule,
             windows[alerts[a].window].epoch = windows[alerts[b].window].epoch
      PROVE  \/ windows[alerts[a].window].opened >= windows[alerts[b].window].opened + WindowLen
             \/ windows[alerts[b].window].opened >= windows[alerts[a].window].opened + WindowLen
  <2> DEFINE i == alerts[a].window
             j == alerts[b].window
  <2>1. /\ i \in Windows /\ j \in Windows /\ i # j /\ windows[i].rule = windows[j].rule
    BY <1>1 DEF SpacingInv, AlertWindows
  <2>2. windows[i].epoch = windows[j].epoch
    BY <1>1
  <2>3. i \in Nat /\ j \in Nat
    BY <1>1, <2>1, WindowsType DEF SpacingInv
  <2> HIDE DEF i, j
  <2>4. i < j \/ j < i
    BY <2>1, <2>3
  <2>5. \/ windows[i].opened >= windows[j].opened + WindowLen
        \/ windows[j].opened >= windows[i].opened + WindowLen
    BY <1>1, <2>1, <2>2, <2>4 DEF SpacingInv, WindowsSpaced
  <2>6. QED
    BY <2>5 DEF i, j
<1>2. SpacingInv => AlertsSpaced
  BY <1>1 DEF SpacingInv, AlertWindows, AlertsSpaced
<1>3. QED
  BY <1>2, SpacingInvariant, PTL

-----------------------------------------------------------------------------
(* The counters. *)

\* Steps in which the matches of no rule decrease and every task but w keeps
\* its place; w may hold only a count the matches cover.
LEMMA CountsKept ==
    ASSUME SpacingInv, CountInv, SpacingInv', NEW w \in Workers,
           \A q \in Rules : matches'[q] >= matches[q],
           \A i \in Windows' : windows'[i].count <= matches'[windows'[i].rule],
           \A v \in Workers \ {w} : task'[v] = task[v],
           task'[w].pc \in {"creating", "finding", "writing"} =>
               task'[w].count <= matches'[task'[w].rule] /\ 1 <= matches'[task'[w].rule],
           \A a \in DOMAIN alerts' : alerts'[a].count <= matches'[alerts'[a].rule]
    PROVE  CountInv'
<1>1. /\ matches \in [Rules -> Nat] /\ matches' \in [Rules -> Nat]
      /\ task \in [Workers -> Task]
  BY DEF SpacingInv, TypeOK
<1>2. ASSUME NEW v \in Workers, task'[v].pc \in {"creating", "finding", "writing"}
      PROVE  task'[v].count <= matches'[task'[v].rule] /\ 1 <= matches'[task'[v].rule]
  <2>1. CASE v = w
    BY <1>2, <2>1
  <2>2. CASE v # w
    <3>1. /\ task'[v] = task[v] /\ task[v].rule \in Rules /\ task[v].count \in Nat
          /\ task[v].count <= matches[task[v].rule] /\ 1 <= matches[task[v].rule]
      BY <1>1, <1>2, <2>2 DEF SpacingInv, WaitingTasks, CountInv, Task
    <3>2. QED
      BY <1>1, <3>1
  <2>3. QED
    BY <2>1, <2>2
<1>3. QED
  BY <1>2 DEF CountInv, NeverOvercounts

LEMMA AlertsType ==
    ASSUME TypeOK
    PROVE  \A a \in DOMAIN alerts : alerts[a].count \in Nat /\ alerts[a].rule \in Rules
<1>1. alerts \in Seq(Alert)
  BY DEF TypeOK
<1>2. \A a \in DOMAIN alerts : alerts[a] \in Alert
  BY <1>1
<1>3. QED
  BY <1>2 DEF Alert

\* A match raises the count of its rule by one and leaves the alerts alone.
LEMMA MatchCounts ==
    ASSUME SpacingInv, CountInv, NEW r \in Rules, Matched(r), UNCHANGED alerts
    PROVE  /\ matches'[r] = matches[r] + 1 /\ matches[r] \in Nat
           /\ \A q \in Rules : matches'[q] \in Nat /\ matches'[q] >= matches[q]
           /\ \A i \in Windows : windows[i].count <= matches'[windows[i].rule]
           /\ \A a \in DOMAIN alerts' : alerts'[a].count <= matches'[alerts'[a].rule]
<1>1. matches \in [Rules -> Nat] /\ matches' = [matches EXCEPT ![r] = @ + 1]
  BY DEF SpacingInv, TypeOK, Matched
<1>2. /\ matches'[r] = matches[r] + 1 /\ matches[r] \in Nat
      /\ \A q \in Rules : matches[q] \in Nat /\ matches'[q] \in Nat /\ matches'[q] >= matches[q]
  BY <1>1
<1>3. ASSUME NEW i \in Windows PROVE windows[i].count <= matches'[windows[i].rule]
  <2>1. windows[i].count \in Nat /\ windows[i].rule \in Rules
    BY WindowsType, EngineAssumption DEF SpacingInv, EngineAssumption
  <2>2. windows[i].count <= matches[windows[i].rule]
    BY DEF CountInv
  <2>3. QED
    BY <1>2, <2>1, <2>2
<1>4. ASSUME NEW a \in DOMAIN alerts PROVE alerts[a].count <= matches'[alerts[a].rule]
  <2>1. alerts[a].count \in Nat /\ alerts[a].rule \in Rules
    BY AlertsType DEF SpacingInv
  <2>2. alerts[a].count <= matches[alerts[a].rule]
    BY DEF CountInv, NeverOvercounts
  <2>3. QED
    BY <1>2, <2>1, <2>2
<1>5. QED
  BY <1>2, <1>3, <1>4

LEMMA MatchCountInv ==
    ASSUME SpacingInv, CountInv, SpacingInv', NEW w \in Workers, NEW r \in Rules,
           MatchImmediate(w, r) \/ MatchInWindow(w, r) \/ MatchOpensWindow(w, r)
    PROVE  CountInv'
<1>1. Matched(r) /\ alerts' = alerts /\ TypeOK
  BY DEF MatchImmediate, MatchInWindow, MatchOpensWindow, SpacingInv
<1>2. /\ matches'[r] = matches[r] + 1 /\ matches[r] \in Nat
      /\ \A q \in Rules : matches'[q] \in Nat /\ matches'[q] >= matches[q]
      /\ \A i \in Windows : windows[i].count <= matches'[windows[i].rule]
      /\ \A a \in DOMAIN alerts' : alerts'[a].count <= matches'[alerts'[a].rule]
  BY <1>1, MatchCounts
<1>3. CASE MatchImmediate(w, r)
  <2>1. Await(w, "creating", r, 1, 0) /\ 0 \in Nat /\ 1 \in Nat /\ windows' = windows
    BY <1>3 DEF MatchImmediate, engineVars
  <2>2. /\ task'[w].rule = r /\ task'[w].count = 1
        /\ \A v \in Workers \ {w} : task'[v] = task[v]
    BY ONLY <1>1, <2>1, w \in Workers, r \in Rules, AwaitType
  <2>3. task'[w].count <= matches'[task'[w].rule] /\ 1 <= matches'[task'[w].rule]
    BY <1>2, <2>2
  <2>4. \A i \in Windows' : windows'[i].count <= matches'[windows'[i].rule]
    BY <1>2, <2>1 DEF Windows
  <2>5. QED
    BY <1>2, <2>2, <2>3, <2>4, CountsKept
<1>4. CASE MatchInWindow(w, r)
  <2> DEFINE c == current[r]
             n == windows[c].count + 1
  <2>1. /\ c \in Windows /\ windows[c].rule = r /\ Windows' = Windows
        /\ windows'[c] = [windows[c] EXCEPT !.count = @ + 1]
        /\ \A i \in Windows \ {c} : windows'[i] = windows[i]
    BY <1>1, <1>4, CountsEvent DEF Windows
  <2>2. windows[c] \in Window /\ windows[c].count \in Nat /\ n \in Nat /\ c \in Nat
    BY <1>1, <2>1, WindowsType
  <2>3. windows'[c].count = n /\ windows'[c].rule = r
    BY <2>1, <2>2 DEF Window
  <2>4. Await(w, "finding", r, n, c)
    BY <1>4 DEF MatchInWindow
  <2>5. n <= matches'[r] /\ 1 <= matches'[r]
    <3>1. windows[c].count <= matches[r]
      BY <2>1 DEF CountInv
    <3>2. QED
      BY <1>2, <2>2, <3>1
  <2> HIDE DEF n, c
  <2>6. /\ task'[w].rule = r /\ task'[w].count = n
        /\ \A v \in Workers \ {w} : task'[v] = task[v]
    BY ONLY <1>1, <2>2, <2>4, w \in Workers, r \in Rules, AwaitType
  <2>7. \A i \in Windows' : windows'[i].count <= matches'[windows'[i].rule]
    BY <1>2, <2>1, <2>3, <2>5
  <2>8. QED
    BY <1>2, <2>5, <2>6, <2>7, CountsKept
<1>5. CASE MatchOpensWindow(w, r)
  <2> DEFINE k == Len(windows) + 1
  <2>1. windows \in Seq(Window) /\ k \in Nat /\ 1 \in Nat /\ Windows = 1..Len(windows)
    BY <1>1, WindowsType DEF TypeOK
  <2>2. /\ Windows' = Windows \cup {k} /\ k \notin Windows
        /\ windows'[k].count = 1 /\ windows'[k].rule = r
        /\ \A i \in Windows : windows'[i] = windows[i]
    BY <1>5, <2>1 DEF MatchOpensWindow, Windows
  <2>3. Await(w, "creating", r, 1, k)
    BY <1>5 DEF MatchOpensWindow
  <2> HIDE DEF k
  <2>4. /\ task'[w].rule = r /\ task'[w].count = 1
        /\ \A v \in Workers \ {w} : task'[v] = task[v]
    BY ONLY <1>1, <2>1, <2>3, w \in Workers, r \in Rules, AwaitType
  <2>5. 1 <= matches'[r]
    BY <1>2
  <2>6. \A i \in Windows' : windows'[i].count <= matches'[windows'[i].rule]
    BY <1>2, <2>2, <2>5
  <2>7. QED
    BY <1>2, <2>4, <2>5, <2>6, CountsKept
<1>6. QED
  BY <1>3, <1>4, <1>5

\* A callback that ends well: an alert is created with one event, found, or
\* given the count its task holds.
LEMMA CallbackCountInv ==
    ASSUME SpacingInv, CountInv, SpacingInv', NEW w \in Workers,
           CreateAlert(w) \/ FindAlert(w) \/ WriteCount(w)
    PROVE  CountInv'
<1>1. /\ TypeOK /\ windows' = windows /\ matches' = matches
      /\ \A q \in Rules : matches[q] \in Nat /\ matches'[q] >= matches[q]
      /\ \A i \in Windows' : windows'[i].count <= matches'[windows'[i].rule]
  <2>1. windows' = windows /\ matches' = matches
    BY DEF CreateAlert, FindAlert, WriteCount, engineVars
  <2>2. TypeOK /\ \A q \in Rules : matches[q] \in Nat
    BY DEF SpacingInv, TypeOK
  <2>3. QED
    BY <2>1, <2>2 DEF CountInv, Windows
<1>2. CASE CreateAlert(w)
  <2> DEFINE x == [rule |-> task[w].rule, open |-> TRUE, count |-> 1, window |-> task[w].window]
             n == Len(alerts) + 1
  <2>1. /\ alerts \in Seq(Alert) /\ x \in Alert /\ x.rule = task[w].rule /\ x.count = 1
        /\ task[w].pc = "creating"
    BY <1>2 DEF SpacingInv, WaitingTasks, TypeOK, Task, Alert, CreateAlert
  <2>2. alerts' = Append(alerts, x) /\ Resume(w)
    BY <1>2 DEF CreateAlert
  <2>3. task'[w].pc = "loop" /\ \A v \in Workers \ {w} : task'[v] = task[v]
    BY <1>1, <2>2, ResumeType
  <2>4. 1 <= matches[task[w].rule]
    BY <2>1 DEF CountInv
  <2> HIDE DEF x
  <2>5. /\ DOMAIN alerts' = DOMAIN alerts \cup {n} /\ alerts'[n] = x
        /\ \A a \in DOMAIN alerts : alerts'[a] = alerts[a]
    BY <2>1, <2>2
  <2>6. \A a \in DOMAIN alerts' : alerts'[a].count <= matches'[alerts'[a].rule]
    BY <1>1, <2>1, <2>4, <2>5 DEF CountInv, NeverOvercounts
  <2>7. QED
    BY <1>1, <2>3, <2>6, CountsKept
<1>3. CASE FindAlert(w)
  <2>1. /\ task[w].pc = "finding" /\ task'[w].rule = task[w].rule /\ task'[w].count = task[w].count
        /\ \A v \in Workers \ {w} : task'[v] = task[v]
    BY <1>1, <1>3, FindAlertType
  <2>2. task'[w].count <= matches'[task'[w].rule] /\ 1 <= matches'[task'[w].rule]
    BY <1>1, <2>1 DEF CountInv
  <2>3. \A a \in DOMAIN alerts' : alerts'[a].count <= matches'[alerts'[a].rule]
    BY <1>1, <1>3 DEF FindAlert, CountInv, NeverOvercounts
  <2>4. QED
    BY <1>1, <2>1, <2>2, <2>3, CountsKept
<1>4. CASE WriteCount(w)
  <2> DEFINE t == task[w].target
  <2>1. /\ AlertUpdated(t) /\ t \in DOMAIN alerts /\ alerts'[t].count = task[w].count
    BY <1>4, WriteCountType
  <2>2. /\ task[w].pc = "writing" /\ alerts[t].rule = task[w].rule
        /\ task[w].count <= matches[task[w].rule]
    BY <1>4 DEF WriteCount, SpacingInv, WaitingTasks, CountInv
  <2>3. task'[w].pc = "loop" /\ \A v \in Workers \ {w} : task'[v] = task[v]
    BY <1>1, <1>4, ResumeType DEF WriteCount
  <2> HIDE DEF t
  <2>4. \A a \in DOMAIN alerts' : alerts'[a].count <= matches'[alerts'[a].rule]
    BY <1>1, <2>1, <2>2 DEF AlertUpdated, CountInv, NeverOvercounts
  <2>5. QED
    BY <1>1, <2>3, <2>4, CountsKept
<1>5. QED
  BY <1>2, <1>3, <1>4

\* Tasks that start or give up hold no count; reloads, edits and time change none.
LEMMA OtherCountInv ==
    ASSUME SpacingInv, CountInv, SpacingInv',
           \/ \E w \in Workers : \/ \E hits \in SUBSET Rules : Receive(w, hits)
                                 \/ EndLoop(w) \/ FindNoAlert(w) \/ CallbackFails(w)
           \/ \E active \in SUBSET Rules : LoadRules(active)
           \/ \E a \in DOMAIN alerts : ChangeStatus(a)
           \/ Tick
           \/ UNCHANGED vars
    PROVE  CountInv'
<1>1. TypeOK /\ \A q \in Rules : matches[q] \in Nat
  BY DEF SpacingInv, TypeOK
<1>2. ASSUME NEW w \in Workers,
             \/ \E hits \in SUBSET Rules : Receive(w, hits)
             \/ EndLoop(w) \/ FindNoAlert(w) \/ CallbackFails(w)
      PROVE  CountInv'
  <2>1. UNCHANGED <<windows, alerts, matches>> /\ Released(w)
    BY <1>2, ReleasingInv DEF engineVars
  <2>2. /\ \A i \in Windows' : windows'[i].count <= matches'[windows'[i].rule]
        /\ \A a \in DOMAIN alerts' : alerts'[a].count <= matches'[alerts'[a].rule]
        /\ \A q \in Rules : matches'[q] >= matches[q]
    BY <1>1, <2>1 DEF CountInv, NeverOvercounts, Windows
  <2>3. QED
    BY <2>1, <2>2, CountsKept DEF Released
<1>3. CASE (\E active \in SUBSET Rules : LoadRules(active)) \/ Tick \/ UNCHANGED vars
  <2>1. UNCHANGED <<windows, alerts, matches, task>>
    BY <1>3 DEF LoadRules, Tick, vars, engineVars
  <2>2. QED
    BY <2>1 DEF CountInv, NeverOvercounts, Windows
<1>4. ASSUME NEW a \in DOMAIN alerts, ChangeStatus(a) PROVE CountInv'
  <2>1. UNCHANGED <<windows, matches, task>> /\ AlertUpdated(a) /\ alerts'[a].count = alerts[a].count
    BY <1>1, <1>4, ChangeStatusType DEF ChangeStatus, engineVars
  <2>2. \A b \in DOMAIN alerts' : alerts'[b].count <= matches'[alerts'[b].rule]
    BY <2>1 DEF AlertUpdated, CountInv, NeverOvercounts
  <2>3. QED
    BY <2>1, <2>2 DEF CountInv, NeverOvercounts, Windows
<1>5. QED
  BY <1>2, <1>3, <1>4

LEMMA InitCounts == Init => CountInv
<1> SUFFICES ASSUME Init PROVE CountInv
  OBVIOUS
<1>1. /\ Windows = {} /\ DOMAIN alerts = {} /\ \A w \in Workers : task[w].pc = "idle"
  BY DEF Init, Windows, Idle
<1>2. QED
  BY <1>1 DEF CountInv, NeverOvercounts

LEMMA NextCounts == SpacingInv /\ SpacingInv' /\ CountInv /\ [Next]_vars => CountInv'
<1> SUFFICES ASSUME SpacingInv, SpacingInv', CountInv, [Next]_vars PROVE CountInv'
  OBVIOUS
<1>1. ASSUME NEW w \in Workers, NEW r \in Rules,
             MatchImmediate(w, r) \/ MatchInWindow(w, r) \/ MatchOpensWindow(w, r)
      PROVE  CountInv'
  BY <1>1, MatchCountInv
<1>2. ASSUME NEW w \in Workers, CreateAlert(w) \/ FindAlert(w) \/ WriteCount(w) PROVE CountInv'
  BY <1>2, CallbackCountInv
<1>3. QED
  BY <1>1, <1>2, OtherCountInv DEF Next, WorkerStep

\* NeverOvercounts: no alert shows more events than matched its rule, whatever
\* the tasks, users, reloads and failures do.
THEOREM CountersNeverOvercount == Spec => []NeverOvercounts
<1>1. Spec => []CountInv
  BY InitCounts, NextCounts, SpacingInvariant, PTL DEF Spec
<1>2. CountInv => NeverOvercounts
  BY DEF CountInv
<1>3. QED
  BY <1>1, <1>2, PTL
-----------------------------------------------------------------------------
(* The counters of an engine that is left alone. *)

\* Events were evaluated one after the other, the database answered and nobody
\* edited alerts.
Undisturbed == failures = 0 /\ edits = 0 /\ ~overlapped

Waiting(w) == task[w].pc \in {"finding", "writing"}

OneTask == \A v, w \in Workers : v # w => task[v].pc = "idle" \/ task[w].pc = "idle"

\* Alerts are open, and a rule with windows raises alerts for windows only, in
\* the order of the windows.
AlertsOrdered ==
    /\ \A a \in DOMAIN alerts :
           alerts[a].open /\ (alerts[a].rule \in Windowed => alerts[a].window # 0)
    /\ \A a, b \in DOMAIN alerts :
           (a < b /\ alerts[a].rule = alerts[b].rule /\ alerts[a].rule \in Windowed)
           => alerts[a].window < alerts[b].window

\* No window of r is younger than the one numbered i.
Youngest(r, i) == \A j \in Windows : windows[j].rule = r => j <= i

CurrentIsYoungest == \A r \in Windowed : current[r] # 0 => Youngest(r, current[r])

\* Every window raised its alert, or a task is about to create it.
WindowsRaised ==
    \A i \in Windows : \/ \E a \in DOMAIN alerts : alerts[a].window = i
                       \/ \E w \in Workers : Creating(w) /\ task[w].window = i

\* A callback works for the youngest window of its rule, with its counter, and
\* has found the alert of that window.
CallbacksFit ==
    \A w \in Workers :
        /\ task[w].pc = "creating" /\ task[w].window = 0 => task[w].rule \notin Windowed
        /\ Creating(w) => Youngest(task[w].rule, task[w].window)
                          /\ windows[task[w].window].count = 1
        /\ Waiting(w) => /\ task[w].rule \in Windowed
                         /\ task[w].window \in Windows
                         /\ windows[task[w].window].rule = task[w].rule
                         /\ Youngest(task[w].rule, task[w].window)
                         /\ task[w].count = windows[task[w].window].count
        /\ task[w].pc = "writing" => alerts[task[w].target].window = task[w].window

\* A counter that is not shown yet is in the hands of a callback.
CountersFit ==
    \A a \in DOMAIN alerts : alerts[a].window # 0 =>
        \/ alerts[a].count = windows[alerts[a].window].count
        \/ \E w \in Workers : Waiting(w) /\ task[w].window = alerts[a].window

Settling ==
    /\ OneTask
    /\ AlertsOrdered
    /\ CurrentIsYoungest
    /\ WindowsRaised
    /\ CallbacksFit
    /\ CountersFit

SettledInv == Undisturbed => Settling

\* When w acts every other task is idle, and stays so.
LEMMA OthersIdle ==
    ASSUME OneTask, NEW w \in Workers, task[w].pc # "idle",
           \A v \in Workers \ {w} : task'[v] = task[v]
    PROVE  /\ OneTask'
           /\ \A v \in Workers \ {w} : task[v].pc = "idle" /\ task'[v].pc = "idle"
BY DEF OneTask

\* A task that starts or ends its loop holds nothing anyone needs.
LEMMA NothingHandled ==
    ASSUME Settling, NEW w \in Workers, Released(w),
           task[w].pc \in {"idle", "received", "loop"},
           \A v \in Workers \ {w} : task[v].pc = "idle",
           UNCHANGED <<windows, current, alerts>>
    PROVE  Settling'
<1>1. \A v \in Workers : /\ ~Creating(v) /\ ~Creating(v)' /\ ~Waiting(v) /\ ~Waiting(v)'
                         /\ task'[v].pc \notin {"creating", "finding", "writing"}
  BY DEF Released, Creating, Waiting
<1>2. OneTask'
  BY DEF Released, OneTask
<1>3. AlertsOrdered' /\ CurrentIsYoungest'
  BY DEF Settling, AlertsOrdered, CurrentIsYoungest, Youngest, Windows
<1>4. WindowsRaised' /\ CountersFit'
  BY <1>1 DEF Settling, WindowsRaised, CountersFit, Windows
<1>5. CallbacksFit'
  BY <1>1 DEF CallbacksFit
<1> QED BY <1>2, <1>3, <1>4, <1>5 DEF Settling

LEMMA ImmediateSettles ==
    ASSUME SpacingInv, Settling, NEW w \in Workers, NEW r \in Rules, MatchImmediate(w, r)
    PROVE  Settling'
<1>1. /\ TypeOK /\ Await(w, "creating", r, 1, 0) /\ 0 \in Nat /\ 1 \in Nat
      /\ UNCHANGED <<windows, current, alerts>> /\ r \notin Windowed
      /\ task[w].pc \in {"received", "loop"}
  BY DEF SpacingInv, MatchImmediate, engineVars, NextMatch, ToDo
<1>2. /\ task'[w].pc = "creating" /\ task'[w].rule = r /\ task'[w].window = 0
      /\ \A v \in Workers \ {w} : task'[v] = task[v]
  BY ONLY <1>1, AwaitType
<1>3. OneTask' /\ \A v \in Workers \ {w} : task[v].pc = "idle" /\ task'[v].pc = "idle"
  BY <1>1, <1>2, OthersIdle DEF Settling
<1>4. \A v \in Workers : ~Creating(v) /\ ~Creating(v)' /\ ~Waiting(v) /\ ~Waiting(v)'
  BY <1>1, <1>2, <1>3 DEF Creating, Waiting
<1>5. AlertsOrdered' /\ CurrentIsYoungest'
  BY <1>1 DEF Settling, AlertsOrdered, CurrentIsYoungest, Youngest, Windows
<1>6. WindowsRaised' /\ CountersFit'
  BY <1>1, <1>4 DEF Settling, WindowsRaised, CountersFit, Windows
<1>7. CallbacksFit'
  BY <1>1, <1>2, <1>3, <1>4 DEF CallbacksFit
<1> QED BY <1>3, <1>5, <1>6, <1>7 DEF Settling

\* Inside a window: the window is the youngest of the rule, so its alert is the
\* one the callback will find, and its counter the one that callback writes.
LEMMA InWindowSettles ==
    ASSUME SpacingInv, Settling, NEW w \in Workers, NEW r \in Rules, MatchInWindow(w, r)
    PROVE  Settling'
<1> DEFINE c == current[r]
           n == windows[c].count + 1
<1>1. /\ TypeOK /\ Await(w, "finding", r, n, c) /\ UNCHANGED <<current, alerts>>
      /\ task[w].pc \in {"received", "loop"} /\ r \in Windowed /\ c # 0
  BY DEF SpacingInv, MatchInWindow, InWindow, NextMatch, ToDo
<1>2. /\ c \in Windows /\ windows[c].rule = r /\ Windows' = Windows
      /\ windows'[c] = [windows[c] EXCEPT !.count = @ + 1]
      /\ \A i \in Windows \ {c} : windows'[i] = windows[i]
      /\ \A i \in Windows : windows'[i].rule = windows[i].rule
  BY <1>1, CountsEvent DEF Windows
<1>3. windows[c] \in Window /\ windows[c].count \in Nat /\ n \in Nat /\ c \in Nat
  BY <1>1, <1>2, WindowsType
<1>4. windows'[c].count = n /\ Youngest(r, c)
  BY <1>1, <1>2, <1>3 DEF Window, Settling, CurrentIsYoungest
<1> HIDE DEF n, c
<1>5. /\ task'[w].pc = "finding" /\ task'[w].rule = r /\ task'[w].count = n /\ task'[w].window = c
      /\ \A v \in Workers \ {w} : task'[v] = task[v]
  BY ONLY <1>1, <1>3, w \in Workers, r \in Rules, AwaitType
<1>6. OneTask' /\ \A v \in Workers \ {w} : task[v].pc = "idle" /\ task'[v].pc = "idle"
  BY <1>1, <1>5, OthersIdle DEF Settling
<1>7. /\ \A v \in Workers : ~Creating(v) /\ ~Creating(v)' /\ ~Waiting(v)
      /\ \A v \in Workers : Waiting(v)' <=> v = w
  BY <1>1, <1>5, <1>6 DEF Creating, Waiting
<1>8. AlertsOrdered'
  BY <1>1 DEF Settling, AlertsOrdered
<1>9. \A j \in Windows' : windows'[j].rule = r => j <= c
  BY <1>2, <1>4 DEF Youngest
<1>10. CurrentIsYoungest'
  BY <1>1, <1>2 DEF Settling, CurrentIsYoungest, Youngest
<1>11. WindowsRaised'
  BY <1>1, <1>2, <1>7 DEF Settling, WindowsRaised
<1>12. CallbacksFit'
  <2>1. ASSUME NEW v \in Workers
        PROVE  /\ task'[v].pc # "creating" /\ task'[v].pc # "writing"
               /\ Waiting(v)' => v = w
    BY <1>5, <1>6, <1>7
  <2>2. /\ task'[w].rule \in Windowed /\ task'[w].window \in Windows'
        /\ windows'[task'[w].window].rule = task'[w].rule
        /\ task'[w].count = windows'[task'[w].window].count
    BY <1>1, <1>2, <1>4, <1>5
  <2>3. Youngest(task[w].rule, task[w].window)'
    BY <1>5, <1>9 DEF Youngest
  <2> QED BY <1>7, <2>1, <2>2, <2>3 DEF CallbacksFit
<1>13. CountersFit'
  <2>1. ASSUME NEW a \in DOMAIN alerts', alerts'[a].window # 0
        PROVE  \/ alerts'[a].count = windows'[alerts'[a].window].count
               \/ \E v \in Workers : Waiting(v)' /\ task'[v].window = alerts'[a].window
    <3>1. CASE alerts[a].window = c
      BY <1>1, <1>5, <1>7, <3>1
    <3>2. CASE alerts[a].window # c
      <4>1. alerts[a].window \in Windows
        BY <1>1, <2>1 DEF SpacingInv, AlertWindows
      <4>2. alerts[a].count = windows[alerts[a].window].count
        BY <1>1, <1>7, <2>1 DEF Settling, CountersFit
      <4> QED BY <1>1, <1>2, <3>2, <4>1, <4>2
    <3> QED BY <3>1, <3>2
  <2> QED BY <2>1 DEF CountersFit
<1> QED BY <1>6, <1>8, <1>10, <1>11, <1>12, <1>13 DEF Settling

\* A new window is the youngest of its rule, and its alert is being created.
LEMMA NewWindowSettles ==
    ASSUME SpacingInv, Settling, NEW w \in Workers, NEW r \in Rules, MatchOpensWindow(w, r)
    PROVE  Settling'
<1> DEFINE k == Len(windows) + 1
<1>1. /\ TypeOK /\ Await(w, "creating", r, 1, k) /\ alerts' = alerts
      /\ current' = [current EXCEPT ![r] = k]
      /\ task[w].pc \in {"received", "loop"} /\ r \in Windowed
  BY DEF SpacingInv, MatchOpensWindow, NextMatch, ToDo
<1>2. windows \in Seq(Window) /\ k \in Nat /\ k # 0 /\ 1 \in Nat /\ Windows = 1..Len(windows)
  BY <1>1, WindowsType DEF TypeOK
<1>3. /\ Windows' = Windows \cup {k} /\ k \notin Windows /\ k \in Windows'
      /\ windows'[k].count = 1 /\ windows'[k].rule = r
      /\ \A i \in Windows : windows'[i] = windows[i] /\ i < k
  BY <1>2 DEF MatchOpensWindow, Windows
<1>4. current'[r] = k /\ \A q \in Windowed \ {r} : current'[q] = current[q]
  BY <1>1 DEF TypeOK
<1> HIDE DEF k
<1>5. /\ task'[w].pc = "creating" /\ task'[w].rule = r /\ task'[w].window = k
      /\ \A v \in Workers \ {w} : task'[v] = task[v]
  BY ONLY <1>1, <1>2, w \in Workers, r \in Rules, AwaitType
<1>6. OneTask' /\ \A v \in Workers \ {w} : task[v].pc = "idle" /\ task'[v].pc = "idle"
  BY <1>1, <1>5, OthersIdle DEF Settling
<1>7. /\ \A v \in Workers : ~Creating(v) /\ ~Waiting(v)' /\ ~Waiting(v)
      /\ \A v \in Workers : Creating(v)' <=> v = w
  BY <1>1, <1>2, <1>5, <1>6 DEF Creating, Waiting
<1>8. AlertsOrdered'
  BY <1>1 DEF Settling, AlertsOrdered
<1>9. \A j \in Windows' : windows'[j].rule = r => j <= k
  <2>1. \A j \in Windows : j <= k
    BY <1>2, <1>3
  <2> QED BY <1>2, <1>3, <2>1
<1>10. CurrentIsYoungest'
  <2>1. ASSUME NEW q \in Windowed, current'[q] # 0,
               NEW j \in Windows', windows'[j].rule = q
        PROVE  j <= current'[q]
    <3>1. CASE q = r
      BY <1>4, <1>9, <2>1, <3>1
    <3>2. CASE q # r
      BY <1>3, <1>4, <2>1, <3>2 DEF Settling, CurrentIsYoungest, Youngest
    <3> QED BY <3>1, <3>2
  <2> QED BY <2>1 DEF CurrentIsYoungest, Youngest
<1>11. WindowsRaised'
  BY <1>1, <1>3, <1>5, <1>7 DEF Settling, WindowsRaised
<1>12. CallbacksFit'
  <2>1. \A v \in Workers : task'[v].pc \in {"creating", "writing"} => v = w
    BY <1>6
  <2> QED BY <1>2, <1>3, <1>5, <1>7, <1>9, <2>1 DEF CallbacksFit, Youngest
<1>13. CountersFit'
  <2>1. \A a \in DOMAIN alerts : alerts[a].window # 0 => alerts[a].window \in Windows
    BY DEF SpacingInv, AlertWindows
  <2> QED BY <1>1, <1>3, <1>7, <2>1 DEF Settling, CountersFit
<1> QED BY <1>6, <1>8, <1>10, <1>11, <1>12, <1>13 DEF Settling

\* The alert of a window is created with the one event the window counted.
LEMMA CreationSettles ==
    ASSUME SpacingInv, Settling, NEW w \in Workers, CreateAlert(w)
    PROVE  Settling'
<1> DEFINE n == Len(alerts) + 1
           x == [rule |-> task[w].rule, open |-> TRUE, count |-> 1, window |-> task[w].window]
<1>1. /\ TypeOK /\ task[w].pc = "creating" /\ Resume(w) /\ alerts' = Append(alerts, x)
      /\ UNCHANGED <<windows, current>>
  BY DEF SpacingInv, CreateAlert, engineVars
<1>2. /\ task'[w].pc = "loop" /\ \A v \in Workers \ {w} : task'[v] = task[v]
  BY <1>1, ResumeType
<1>3. alerts \in Seq(Alert) /\ Windows' = Windows
  BY <1>1 DEF TypeOK, Windows
<1>4. x.rule = task[w].rule /\ x.window = task[w].window /\ x.open /\ x.count = 1
  OBVIOUS
<1> HIDE DEF x
<1>5. /\ DOMAIN alerts' = DOMAIN alerts \cup {n} /\ n \notin DOMAIN alerts /\ alerts'[n] = x
      /\ \A a \in DOMAIN alerts : alerts'[a] = alerts[a] /\ a < n
      /\ \A a \in DOMAIN alerts' : a \in DOMAIN alerts \/ a = n
      /\ \A a \in DOMAIN alerts : ~(n < a)
  BY <1>1, <1>3
<1>6. ~(n < n)
  BY <1>3
<1> HIDE DEF n
<1>7. OneTask' /\ \A v \in Workers \ {w} : task[v].pc = "idle" /\ task'[v].pc = "idle"
  BY <1>1, <1>2, OthersIdle DEF Settling
<1>8. /\ \A v \in Workers : ~Creating(v)' /\ ~Waiting(v) /\ ~Waiting(v)'
      /\ \A v \in Workers : Creating(v) => v = w
      /\ \A v \in Workers : task'[v].pc \notin {"creating", "finding", "writing"}
  BY <1>1, <1>2, <1>7 DEF Creating, Waiting
<1>9. x.window # 0 => /\ Youngest(x.rule, x.window) /\ windows[x.window].count = 1
                      /\ x.window \in Windows
                      /\ \A a \in DOMAIN alerts : alerts[a].window # x.window
  BY <1>1, <1>4 DEF Settling, CallbacksFit, Creating, SpacingInv, CreationsPending
<1>10. x.rule \in Windowed => x.window # 0
  BY <1>1, <1>4 DEF Settling, CallbacksFit
<1>11. ASSUME NEW a \in DOMAIN alerts, alerts[a].rule = x.rule, x.rule \in Windowed
       PROVE  alerts[a].window < x.window
  <2>1. alerts[a].window \in Windows /\ windows[alerts[a].window].rule = x.rule
    BY <1>11 DEF Settling, AlertsOrdered, SpacingInv, AlertWindows
  <2>2. alerts[a].window <= x.window /\ alerts[a].window # x.window
    BY <1>9, <1>10, <1>11, <2>1 DEF Youngest
  <2>3. x.window \in Nat /\ alerts[a].window \in Nat
    BY <1>1, <1>9, <1>10, <1>11, <2>1, WindowsType
  <2> QED BY <2>2, <2>3
<1>12. AlertsOrdered'
  <2>1. ASSUME NEW a \in DOMAIN alerts'
        PROVE  alerts'[a].open /\ (alerts'[a].rule \in Windowed => alerts'[a].window # 0)
    BY <1>4, <1>5, <1>10 DEF Settling, AlertsOrdered
  <2>2. ASSUME NEW a \in DOMAIN alerts', NEW b \in DOMAIN alerts',
               a < b, alerts'[a].rule = alerts'[b].rule, alerts'[a].rule \in Windowed
        PROVE  alerts'[a].window < alerts'[b].window
    <3>1. CASE a = n
      BY <1>5, <1>6, <2>2, <3>1
    <3>2. CASE a \in DOMAIN alerts /\ b = n
      BY <1>5, <1>11, <2>2, <3>2
    <3>3. CASE a \in DOMAIN alerts /\ b \in DOMAIN alerts
      BY <1>5, <2>2, <3>3 DEF Settling, AlertsOrdered
    <3> QED BY <1>5, <3>1, <3>2, <3>3
  <2> QED BY <2>1, <2>2 DEF AlertsOrdered
<1>13. CurrentIsYoungest'
  BY <1>1, <1>3 DEF Settling, CurrentIsYoungest, Youngest
<1>14. WindowsRaised'
  <2>1. ASSUME NEW i \in Windows PROVE \E a \in DOMAIN alerts' : alerts'[a].window = i
    <3>1. CASE \E a \in DOMAIN alerts : alerts[a].window = i
      BY <1>5, <3>1
    <3>2. CASE \E v \in Workers : Creating(v) /\ task[v].window = i
      BY <1>4, <1>5, <1>8, <3>2
    <3> QED BY <3>1, <3>2 DEF Settling, WindowsRaised
  <2> QED BY <1>3, <2>1 DEF WindowsRaised
<1>15. CallbacksFit'
  BY <1>8 DEF CallbacksFit
<1>16. CountersFit'
  <2>1. ASSUME NEW a \in DOMAIN alerts', alerts'[a].window # 0
        PROVE  alerts'[a].count = windows[alerts'[a].window].count
    <3>1. CASE a = n
      BY <1>4, <1>5, <1>9, <2>1, <3>1
    <3>2. CASE a \in DOMAIN alerts
      BY <1>5, <1>8, <2>1, <3>2 DEF Settling, CountersFit
    <3> QED BY <1>5, <3>1, <3>2
  <2> QED BY <1>1, <2>1 DEF CountersFit
<1> QED BY <1>7, <1>12, <1>13, <1>14, <1>15, <1>16 DEF Settling

\* The alert a waiting callback is for exists, and is the last of its rule.
LEMMA AlertOfWaiting ==
    ASSUME SpacingInv, Settling, NEW w \in Workers, Waiting(w)
    PROVE  \E b \in OpenAlertsOf(task[w].rule) :
               /\ alerts[b].window = task[w].window
               /\ \A a \in OpenAlertsOf(task[w].rule) : b <= a => a = b
<1>1. /\ task[w].rule \in Windowed /\ task[w].window \in Windows
      /\ windows[task[w].window].rule = task[w].rule
      /\ Youngest(task[w].rule, task[w].window)
  BY DEF Settling, CallbacksFit
<1>2. \A v \in Workers : ~Creating(v)
  <2>1. task[w].pc # "idle" /\ task[w].pc # "creating"
    BY DEF Waiting
  <2> QED BY <2>1 DEF Settling, OneTask, Creating
<1>3. PICK b \in DOMAIN alerts : alerts[b].window = task[w].window
  BY <1>1, <1>2 DEF Settling, WindowsRaised
<1>4. /\ TypeOK /\ Len(windows) \in Nat /\ Windows = 1..Len(windows)
      /\ alerts \in Seq(Alert) /\ DOMAIN alerts = 1..Len(alerts) /\ Len(alerts) \in Nat
  BY WindowsType DEF SpacingInv, TypeOK
<1>5. alerts[b].window # 0 /\ alerts[b].rule = task[w].rule /\ alerts[b].open
  BY <1>1, <1>3, <1>4 DEF Settling, AlertsOrdered, SpacingInv, AlertWindows
<1>6. ASSUME NEW a \in OpenAlertsOf(task[w].rule), b <= a PROVE a = b
  <2>1. a \in DOMAIN alerts /\ alerts[a].rule = task[w].rule
    BY DEF OpenAlertsOf
  <2>2. ASSUME b < a PROVE FALSE
    <3>1. alerts[b].window < alerts[a].window
      BY <1>1, <1>5, <2>1, <2>2 DEF Settling, AlertsOrdered
    <3>2. alerts[a].window \in Windows /\ windows[alerts[a].window].rule = task[w].rule
      BY <1>1, <2>1 DEF Settling, AlertsOrdered, SpacingInv, AlertWindows
    <3>3. alerts[a].window <= task[w].window
      BY <1>1, <3>2 DEF Youngest
    <3> QED BY <1>1, <1>3, <1>4, <3>1, <3>2, <3>3
  <2> QED BY <1>4, <1>6, <2>1, <2>2
<1>7. b \in OpenAlertsOf(task[w].rule)
  BY <1>5 DEF OpenAlertsOf
<1> QED BY <1>3, <1>6, <1>7

LEMMA FindingSettles ==
    ASSUME SpacingInv, Settling, NEW w \in Workers, FindAlert(w)
    PROVE  Settling'
<1>1. TypeOK /\ UNCHANGED <<windows, current, alerts>> /\ Windows' = Windows
  BY DEF SpacingInv, FindAlert, engineVars, Windows
<1>2. /\ task'[w].pc = "writing" /\ task[w].pc = "finding" /\ task'[w].rule = task[w].rule
      /\ task'[w].count = task[w].count /\ task'[w].window = task[w].window
      /\ task'[w].target \in DOMAIN alerts /\ alerts[task'[w].target].rule = task[w].rule
      /\ \A b \in OpenAlertsOf(task[w].rule) : b <= task'[w].target
      /\ \A v \in Workers \ {w} : task'[v] = task[v]
  BY <1>1, FindAlertType
<1>3. Waiting(w) /\ OneTask' /\ \A v \in Workers \ {w} : task[v].pc = "idle" /\ task'[v].pc = "idle"
  BY <1>2, OthersIdle DEF Settling, Waiting
<1>4. \A v \in Workers : /\ ~Creating(v) /\ ~Creating(v)' /\ task'[v].pc # "creating"
                         /\ Waiting(v)' <=> v = w
                         /\ Waiting(v) <=> v = w
  BY <1>2, <1>3 DEF Creating, Waiting
<1>5. alerts[task'[w].target].window = task[w].window
  <2>1. PICK b \in OpenAlertsOf(task[w].rule) :
            /\ alerts[b].window = task[w].window
            /\ \A a \in OpenAlertsOf(task[w].rule) : b <= a => a = b
    BY <1>3, AlertOfWaiting
  <2>2. task'[w].target \in OpenAlertsOf(task[w].rule)
    BY <1>2 DEF OpenAlertsOf, Settling, AlertsOrdered
  <2> QED BY <1>2, <2>1, <2>2
<1>6. AlertsOrdered' /\ CurrentIsYoungest'
  BY <1>1 DEF Settling, AlertsOrdered, CurrentIsYoungest, Youngest
<1>7. WindowsRaised'
  BY <1>1, <1>4 DEF Settling, WindowsRaised
<1>8. CountersFit'
  BY <1>1, <1>2, <1>4 DEF Settling, CountersFit
<1>9. CallbacksFit'
  <2>1. /\ task'[w].rule \in Windowed /\ task'[w].window \in Windows'
        /\ windows'[task'[w].window].rule = task'[w].rule
        /\ task'[w].count = windows'[task'[w].window].count
    BY <1>1, <1>2, <1>3 DEF Settling, CallbacksFit
  <2>2. Youngest(task[w].rule, task[w].window)'
    BY <1>1, <1>2, <1>3 DEF Settling, CallbacksFit, Youngest
  <2>3. alerts'[task'[w].target].window = task'[w].window
    BY <1>1, <1>2, <1>5
  <2>4. \A v \in Workers : task'[v].pc = "writing" => v = w
    BY <1>3
  <2> QED BY <1>4, <2>1, <2>2, <2>3, <2>4 DEF CallbacksFit
<1> QED BY <1>3, <1>6, <1>7, <1>8, <1>9 DEF Settling

\* The callback leaves the window's counter in the window's alert.
LEMMA WritingSettles ==
    ASSUME SpacingInv, Settling, NEW w \in Workers, WriteCount(w)
    PROVE  Settling'
<1> DEFINE t == task[w].target
<1>1. /\ TypeOK /\ UNCHANGED <<windows, current>> /\ Windows' = Windows
      /\ task[w].pc = "writing" /\ Resume(w)
  BY DEF SpacingInv, WriteCount, engineVars, Windows
<1>2. /\ AlertUpdated(t) /\ t \in DOMAIN alerts
      /\ alerts'[t].count = task[w].count /\ alerts'[t].open = alerts[t].open
  BY WriteCountType
<1>3. task'[w].pc = "loop" /\ \A v \in Workers \ {w} : task'[v] = task[v]
  BY <1>1, ResumeType
<1>4. Waiting(w) /\ OneTask' /\ \A v \in Workers \ {w} : task[v].pc = "idle" /\ task'[v].pc = "idle"
  BY <1>1, <1>3, OthersIdle DEF Settling, Waiting
<1>5. \A v \in Workers : /\ ~Creating(v) /\ ~Creating(v)' /\ ~Waiting(v)'
                         /\ Waiting(v) => v = w
                         /\ task'[v].pc \notin {"creating", "finding", "writing"}
  BY <1>1, <1>3, <1>4 DEF Creating, Waiting
<1>6. alerts[t].window = task[w].window /\ task[w].count = windows[task[w].window].count
  BY <1>1, <1>4 DEF Settling, CallbacksFit
<1> HIDE DEF t
<1>7. /\ DOMAIN alerts' = DOMAIN alerts
      /\ \A a \in DOMAIN alerts : /\ alerts'[a].rule = alerts[a].rule
                                  /\ alerts'[a].window = alerts[a].window
                                  /\ alerts'[a].open = alerts[a].open
      /\ \A a \in DOMAIN alerts \ {t} : alerts'[a] = alerts[a]
  BY <1>2 DEF AlertUpdated
<1>8. AlertsOrdered'
  BY <1>7, Zenon DEF Settling, AlertsOrdered
<1>9. CurrentIsYoungest'
  BY <1>1 DEF Settling, CurrentIsYoungest, Youngest
<1>10. WindowsRaised'
  BY <1>1, <1>5, <1>7 DEF Settling, WindowsRaised
<1>11. CallbacksFit'
  BY <1>5 DEF CallbacksFit
<1>12. CountersFit'
  <2>1. ASSUME NEW a \in DOMAIN alerts, alerts[a].window # 0
        PROVE  alerts'[a].count = windows[alerts[a].window].count
    <3>1. CASE a = t
      BY <1>2, <1>6, <3>1
    <3>2. CASE a # t
      <4>1. alerts[a].window # alerts[t].window
        BY <1>2, <2>1, <3>2 DEF SpacingInv, AlertWindows
      <4> QED BY <1>5, <1>6, <1>7, <2>1, <3>2, <4>1 DEF Settling, CountersFit
    <3> QED BY <3>1, <3>2
  <2> QED BY <1>1, <1>7, <2>1 DEF CountersFit
<1> QED BY <1>4, <1>8, <1>9, <1>10, <1>11, <1>12 DEF Settling

\* What keeps the engine undisturbed: a failure, an edit or an event that comes
\* while another is evaluated ends it for good.
LEMMA StaysUndisturbed ==
    ASSUME SpacingInv, [Next]_vars, Undisturbed'
    PROVE  /\ Undisturbed
           /\ \A w \in Workers : ~CallbackFails(w)
           /\ \A a \in DOMAIN alerts : ~ChangeStatus(a)
           /\ \A w \in Workers : \A hits \in SUBSET Rules :
                  Receive(w, hits) => \A v \in Workers : task[v].pc = "idle"
<1>1. failures \in Nat /\ edits \in Nat
  BY EngineAssumption DEF SpacingInv, TypeOK, EngineAssumption
<1>2. failures' = 0 /\ edits' = 0 /\ ~overlapped'
  BY DEF Undisturbed
<1>3. \A w \in Workers : ~CallbackFails(w)
  BY <1>1, <1>2 DEF CallbackFails
<1>4. \A a \in DOMAIN alerts : ~ChangeStatus(a)
  BY <1>1, <1>2 DEF ChangeStatus
<1>5. ASSUME NEW w \in Workers, NEW hits \in SUBSET Rules, Receive(w, hits)
      PROVE  ~overlapped /\ failures = 0 /\ edits = 0 /\ \A v \in Workers : task[v].pc = "idle"
  <2>1. overlapped' = (overlapped \/ \E v \in Workers : task[v].pc # "idle")
        /\ failures' = failures /\ edits' = edits
    BY <1>5, Zenon DEF Receive
  <2>2. ~overlapped /\ \A v \in Workers : task[v].pc = "idle"
    BY <1>2, <2>1, Zenon
  <2> QED BY <1>2, <2>1, <2>2
<1>6. ASSUME UNCHANGED <<failures, edits, overlapped>> PROVE Undisturbed
  <2>1. failures' = failures /\ edits' = edits /\ overlapped' = overlapped
    BY <1>6
  <2> QED BY <1>2, <2>1, Zenon DEF Undisturbed
<1>7. \/ \E w \in Workers, hits \in SUBSET Rules : Receive(w, hits)
      \/ UNCHANGED <<failures, edits, overlapped>>
  BY <1>3, <1>4
     DEF Next, WorkerStep, MatchImmediate, MatchInWindow, MatchOpensWindow, EndLoop, CreateAlert,
         FindAlert, FindNoAlert, WriteCount, LoadRules, Tick, vars, bounds
<1> QED BY <1>3, <1>4, <1>5, <1>6, <1>7 DEF Undisturbed

LEMMA NextSettled == SpacingInv /\ SettledInv /\ [Next]_vars => SettledInv'
<1> SUFFICES ASSUME SpacingInv, SettledInv, [Next]_vars, Undisturbed' PROVE Settling'
  BY DEF SettledInv
<1>1. /\ Settling
      /\ \A w \in Workers : ~CallbackFails(w)
      /\ \A a \in DOMAIN alerts : ~ChangeStatus(a)
      /\ \A w \in Workers : \A hits \in SUBSET Rules :
             Receive(w, hits) => \A v \in Workers : task[v].pc = "idle"
  BY StaysUndisturbed DEF SettledInv
<1>2. ASSUME NEW w \in Workers, NEW r \in Rules,
             MatchImmediate(w, r) \/ MatchInWindow(w, r) \/ MatchOpensWindow(w, r)
      PROVE  Settling'
  BY <1>1, <1>2, ImmediateSettles, InWindowSettles, NewWindowSettles
<1>3. ASSUME NEW w \in Workers, CreateAlert(w) \/ FindAlert(w) \/ WriteCount(w)
      PROVE  Settling'
  BY <1>1, <1>3, CreationSettles, FindingSettles, WritingSettles
<1>4. ASSUME NEW w \in Workers, FindNoAlert(w) PROVE Settling'
  <2>1. Waiting(w) /\ OpenAlertsOf(task[w].rule) = {}
    BY <1>4 DEF FindNoAlert, Waiting
  <2> QED BY <1>1, <2>1, AlertOfWaiting
<1>5. ASSUME NEW w \in Workers, NEW hits \in SUBSET Rules, Receive(w, hits) PROVE Settling'
  <2>1. UNCHANGED <<windows, current, alerts>> /\ Released(w)
    BY <1>5, ReleasingInv DEF engineVars
  <2> QED BY <1>1, <1>5, <2>1, NothingHandled
<1>6. ASSUME NEW w \in Workers, EndLoop(w) PROVE Settling'
  <2>1. UNCHANGED <<windows, current, alerts>> /\ Released(w) /\ task[w].pc \in {"received", "loop"}
    BY <1>6, ReleasingInv DEF engineVars, EndLoop
  <2>2. \A v \in Workers \ {w} : task[v].pc = "idle"
    BY <1>1, <2>1 DEF Settling, OneTask
  <2> QED BY <1>1, <2>1, <2>2, NothingHandled
<1>7. ASSUME NEW active \in SUBSET Rules, LoadRules(active) PROVE Settling'
  <2>1. UNCHANGED <<windows, alerts, task>> /\ \A r \in Windowed : current'[r] = 0
    BY <1>7 DEF LoadRules
  <2>2. CurrentIsYoungest'
    BY <2>1 DEF CurrentIsYoungest
  <2> QED BY <1>1, <2>1, <2>2
          DEF Settling, OneTask, AlertsOrdered, WindowsRaised, CallbacksFit, CountersFit,
              Youngest, Windows, Creating, Waiting
<1>8. CASE Tick \/ UNCHANGED vars
  <2>1. UNCHANGED <<windows, current, alerts, task>>
    BY <1>8 DEF Tick, vars, engineVars
  <2> QED BY <1>1, <2>1
          DEF Settling, OneTask, AlertsOrdered, CurrentIsYoungest, WindowsRaised, CallbacksFit,
              CountersFit, Youngest, Windows, Creating, Waiting
<1> QED BY <1>1, <1>2, <1>3, <1>4, <1>5, <1>6, <1>7, <1>8 DEF Next, WorkerStep

\* CountersSettled: left alone, every alert of a window shows what the window
\* counted whenever no event is being evaluated, for any rules and reloads.
THEOREM CountersAlwaysSettle == Spec => []CountersSettled
<1>1. Init => SettledInv
  <2> SUFFICES ASSUME Init PROVE Settling
    BY DEF SettledInv
  <2>1. /\ Windows = {} /\ DOMAIN alerts = {}
        /\ \A w \in Workers : task[w].pc = "idle"
        /\ \A r \in Windowed : current[r] = 0
    BY DEF Init, Windows, Idle
  <2>2. AlertsOrdered /\ CurrentIsYoungest /\ WindowsRaised /\ CountersFit
    BY <2>1 DEF AlertsOrdered, CurrentIsYoungest, WindowsRaised, CountersFit
  <2>3. OneTask /\ CallbacksFit
    BY <2>1 DEF OneTask, CallbacksFit, Creating, Waiting
  <2> QED BY <2>2, <2>3 DEF Settling
<1>2. Spec => []SettledInv
  BY <1>1, NextSettled, SpacingInvariant, PTL DEF Spec
<1>3. SettledInv => CountersSettled
  BY DEF SettledInv, Undisturbed, Settling, CountersFit, Waiting, CountersSettled
<1> QED BY <1>2, <1>3, PTL

=============================================================================
