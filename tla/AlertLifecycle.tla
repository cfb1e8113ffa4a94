--------------------------- MODULE AlertLifecycle ---------------------------
(***************************************************************************)
(* The life of an alert behind the engine: the engine inserts it open, the *)
(* requests of admins change its status                                    *)
(* (PATCH /api/v1/alerts/{id}/estado, backend/app/api/alerts.py, and       *)
(* AlertService.actualizar_estado, services/alert_service.py), and the     *)
(* grouping task of the analysis service names its group and copies the    *)
(* risk of its entity (agrupar_alertas_abiertas, _grouping_loop of         *)
(* services/analysis_service.py).                                          *)
(*                                                                         *)
(* Every request and every grouping pass has a database session of its     *)
(* own.  A session reads a row, changes the object in memory and, when it  *)
(* commits, writes the columns that differ from what it read; an action is *)
(* what a session does around one await.                                   *)
(***************************************************************************)
EXTENDS Integers

CONSTANTS
    Alerts,       \* ids of alerts
    Rules,        \* ids of rules
    RuleOf,       \* the rule that raised each alert
    Requests,     \* status requests
    Nobody,       \* no request
    Asked,        \* what the requests ask for: statuses, or words that are none
    Scores,       \* risk_score values of table entity_risks
    NoScore,      \* NULL
    MaxFailures   \* bound: database calls that fail

\* The five words actualizar_estado_alerta accepts, and which of them close.
Active == {"open", "acknowledged", "investigating"}
Closed == {"resolved", "false_positive"}
Statuses == Active \cup Closed

ASSUME LifecycleAssumption ==
    /\ Alerts # {}
    /\ RuleOf \in [Alerts -> Rules]
    /\ Nobody \notin Requests
    /\ NoScore \notin Scores
    /\ Asked \subseteq STRING
    /\ MaxFailures \in Nat

VARIABLES
    alert,      \* table alerts, by id; status "none" until the row is inserted
    request,    \* the status requests
    pass,       \* the grouping task
    failures    \* history, for the bound

vars == <<alert, request, pass, failures>>

-----------------------------------------------------------------------------
(* The rows.  resolver is the request that set resolved_at (the instant is  *)
(* when that request ran) and Nobody stands for NULL; named tells whether   *)
(* group_name is set; decider and late are histories: the request that      *)
(* committed last, and the passes that wrote the row since it was closed.   *)

NoAlert == [status |-> "none", resolver |-> Nobody, named |-> FALSE,
            risk |-> NoScore, decider |-> Nobody, late |-> 0]

Inserted(a) == alert[a].status # "none"
IsActive(a) == alert[a].status \in Active
IsClosed(a) == alert[a].status \in Closed

\* A request: seen is the status its session read, answer what it was answered,
\* overtaken (history) whether another request for the same alert committed
\* after it read the row.
NewRequest(a, asked) == [stage |-> "reading", alert |-> a, asked |-> asked, seen |-> "none",
                         answer |-> "none", overtaken |-> FALSE]

\* The grouping task between two passes: it sleeps.  todo are the groups of the
\* pass not looked at yet, touched those with changes waiting for the commit and
\* score the risk they will be given; expired tells that a rollback expired the
\* rows the session had read.
Sleeping == [stage |-> "sleeping", selected |-> {}, todo |-> {}, touched |-> {},
             score |-> [k \in Rules |-> NoScore], expired |-> FALSE]

Init ==
    /\ alert = [a \in Alerts |-> NoAlert]
    /\ request = [r \in Requests |-> [NewRequest(CHOOSE a \in Alerts : TRUE, "open")
                                      EXCEPT !.stage = "absent"]]
    /\ pass = Sleeping
    /\ failures = 0

Fails == failures < MaxFailures /\ failures' = failures + 1
Works == UNCHANGED failures

\* crear_alerta_desde_engine: the engine's callback inserts an open alert.  Its
\* group_key is "<rule>:unknown", for the callback is given neither source_ip
\* nor source: a group is a rule.
InsertAlert(a) ==
    /\ ~Inserted(a)
    /\ alert' = [alert EXCEPT ![a].status = "open"]
    /\ Works
    /\ UNCHANGED <<request, pass>>

-----------------------------------------------------------------------------
(* A status request. *)

At(r, stage) == request[r].stage = stage

\* The request r is answered, with the status in the body of a 200 or an error.
Answered(r, answer) == [request EXCEPT ![r].stage = "answered", ![r].answer = answer]

\* A word that is no status is refused with 400 before the row is read.
Arrive(r, a, asked) ==
    /\ At(r, "absent")
    /\ LET new == [request EXCEPT ![r] = NewRequest(a, asked)]
       IN  request' = IF asked \in Statuses THEN new
                      ELSE [new EXCEPT ![r].stage = "answered", ![r].answer = "400"]
    /\ Works
    /\ UNCHANGED <<alert, pass>>

\* obtener_alerta; the object is changed at once and the commit awaited.
ReadAlert(r) ==
    LET a == request[r].alert
    IN  /\ At(r, "reading")
        /\ Inserted(a)
        /\ request' = [request EXCEPT ![r].stage = "committing", ![r].seen = alert[a].status]
        /\ Works
        /\ UNCHANGED <<alert, pass>>

ReadNoAlert(r) ==
    /\ At(r, "reading")
    /\ ~Inserted(request[r].alert)
    /\ request' = Answered(r, "404")
    /\ Works
    /\ UNCHANGED <<alert, pass>>

\* obtener_alerta turns every failure into "no such alert".
ReadFails(r) ==
    /\ At(r, "reading")
    /\ request' = Answered(r, "404")
    /\ Fails
    /\ UNCHANGED <<alert, pass>>

\* Requests under way for the same alert learn that r committed.
Overtake(r) ==
    [q \in Requests |->
        IF q # r /\ request[q].alert = request[r].alert
                 /\ request[q].stage \in {"committing", "refreshing"}
        THEN [request[q] EXCEPT !.overtaken = TRUE] ELSE request[q]]

\* What the UPDATE of request r leaves of a row: the status is written when it
\* is not the one the session read, resolved_at whenever a closing status is
\* asked for; reopening clears nothing.
Stamped(row, r, closing) ==
    LET status == IF request[r].asked # request[r].seen THEN request[r].asked ELSE row.status
    IN  [row EXCEPT !.status = status,
                    !.resolver = IF request[r].asked \in closing THEN r ELSE @,
                    !.decider = r,
                    !.late = IF row.status \in Closed /\ status \in Closed THEN @ ELSE 0]

\* Stamping that forgets the false positives.
Decided_ResolvedOnly(row, r) == Stamped(row, r, {"resolved"})

\* A lifecycle that goes forward only: closed alerts keep their status.
Decided_ForwardOnly(row, r) ==
    [Stamped(row, r, Closed) EXCEPT !.status = IF row.status \in Closed THEN row.status ELSE @]

Decided(row, r) == Stamped(row, r, Closed)

CommitStatus(r) ==
    /\ At(r, "committing")
    /\ alert' = [alert EXCEPT ![request[r].alert] = Decided(@, r)]
    /\ request' = [Overtake(r) EXCEPT ![r].stage = "refreshing"]
    /\ Works
    /\ UNCHANGED pass

\* The row is read again and its status returned.
Refresh(r) ==
    /\ At(r, "refreshing")
    /\ request' = Answered(r, alert[request[r].alert].status)
    /\ Works
    /\ UNCHANGED <<alert, pass>>

\* Nothing catches a failing commit or refresh: 500, whether or not the status
\* was committed.
UpdateFails(r) ==
    /\ At(r, "committing") \/ At(r, "refreshing")
    /\ request' = Answered(r, "500")
    /\ Fails
    /\ UNCHANGED <<alert, pass>>

\* A pass that also takes the alerts that are closed.
ToGroup_All == { a \in Alerts : Inserted(a) }

-----------------------------------------------------------------------------
(* A grouping pass.  One loop runs them, one after the other. *)

ToGroup == { a \in Alerts : IsActive(a) }

\* After sleep(60) the open alerts are read; without any the pass is over.
BeginPass ==
    /\ pass.stage = "sleeping"
    /\ ToGroup # {}
    /\ pass' = [Sleeping EXCEPT !.stage = "grouping", !.selected = ToGroup,
                                !.todo = { RuleOf[a] : a \in ToGroup }]
    /\ Works
    /\ UNCHANGED <<alert, request>>

\* The groups come in the order of a dictionary.  The title of the first alert
\* of a group is read before its risk is looked up.
NextGroup(k) == pass.stage = "grouping" /\ k \in pass.todo /\ ~pass.expired

LookUp(k, score) ==
    /\ NextGroup(k)
    /\ pass' = [pass EXCEPT !.todo = @ \ {k}, !.touched = @ \cup {k}, !.score[k] = score]
    /\ Works
    /\ UNCHANGED <<alert, request>>

\* "Could not get risk_score": the rollback takes the changes of the groups
\* before with it and expires every row, then the group goes on without a score.
LookUpFails(k) ==
    /\ NextGroup(k)
    /\ pass' = [pass EXCEPT !.todo = @ \ {k}, !.touched = {k}, !.score[k] = NoScore,
                            !.expired = TRUE]
    /\ Fails
    /\ UNCHANGED <<alert, request>>

\* An exception that ends the task instead of the pass.
TitleExpired_EndsLoop ==
    /\ pass.stage = "grouping"
    /\ pass.expired /\ pass.todo # {}
    /\ pass' = [Sleeping EXCEPT !.stage = "ended"]
    /\ UNCHANGED <<alert, request, failures>>

\* The title of an expired row would have to be loaded, which an async session
\* cannot do there: it raises MissingGreenlet, and the pass is over.
TitleExpired ==
    /\ pass.stage = "grouping"
    /\ pass.expired /\ pass.todo # {}
    /\ pass' = Sleeping
    /\ UNCHANGED <<alert, request, failures>>

Grouped(a) ==
    IF a \in pass.selected /\ RuleOf[a] \in pass.touched
    THEN [alert[a] EXCEPT !.named = TRUE, !.risk = pass.score[RuleOf[a]],
                          !.late = IF IsClosed(a) /\ @ < 2 THEN @ + 1 ELSE @]
    ELSE alert[a]

CommitPass ==
    /\ pass.stage = "grouping" /\ pass.todo = {}
    /\ alert' = [a \in Alerts |-> Grouped(a)]
    /\ pass' = Sleeping
    /\ Works
    /\ UNCHANGED request

\* "Error in grouping task": a select or a commit that fails; the loop goes on.
PassError ==
    /\ \/ pass.stage = "sleeping"
       \/ pass.stage = "grouping" /\ pass.todo = {}
    /\ pass' = Sleeping
    /\ Fails
    /\ UNCHANGED <<alert, request>>

PassStep ==
    \/ BeginPass \/ TitleExpired \/ CommitPass
    \/ \E k \in Rules, score \in Scores \cup {NoScore} : LookUp(k, score)

PassFails == PassError \/ \E k \in Rules : LookUpFails(k)

-----------------------------------------------------------------------------
(* The end of the process: requests and the pass are lost, the tables stay. *)

LostRequests ==
    [r \in Requests |-> IF request[r].stage \in {"reading", "committing", "refreshing"}
                        THEN [request[r] EXCEPT !.stage = "lost"] ELSE request[r]]

EndProcess ==
    /\ request' = LostRequests
    /\ pass' = Sleeping
    /\ UNCHANGED <<alert, failures>>

RequestStep(r) ==
    \/ \E a \in Alerts, asked \in Asked : Arrive(r, a, asked)
    \/ ReadAlert(r) \/ ReadNoAlert(r) \/ CommitStatus(r) \/ Refresh(r)

RequestFails(r) == ReadFails(r) \/ UpdateFails(r)

Next ==
    \/ \E a \in Alerts : InsertAlert(a)
    \/ \E r \in Requests : RequestStep(r) \/ RequestFails(r)
    \/ PassStep \/ PassFails
    \/ EndProcess

Spec == Init /\ [][Next]_vars

-----------------------------------------------------------------------------
(* Properties. *)

Row == [status : Statuses \cup {"none"}, resolver : Requests \cup {Nobody},
        named : BOOLEAN, risk : Scores \cup {NoScore}, decider : Requests \cup {Nobody},
        late : 0..2]

Request == [stage : {"absent", "reading", "committing", "refreshing", "answered", "lost"},
            alert : Alerts, asked : Asked \cup {"open"}, seen : Statuses \cup {"none"},
            answer : Statuses \cup {"none", "400", "404", "500"}, overtaken : BOOLEAN]

Pass == [stage : {"sleeping", "grouping"}, selected : SUBSET Alerts, todo : SUBSET Rules,
         touched : SUBSET Rules, score : [Rules -> Scores \cup {NoScore}], expired : BOOLEAN]

TypeOK ==
    /\ alert \in [Alerts -> Row]
    /\ request \in [Requests -> Request]
    /\ pass \in Pass
    /\ failures \in 0..MaxFailures

\* What was decided stands: the status of an alert is the one the last request
\* that committed for it asked for, and no grouping pass, however stale the rows
\* it read, and no restart undoes it; only a request that asked for the status it
\* had read, and that another request overtook, writes none.  A request answered
\* with 200 that none overtook is answered with what it asked for.
DecisionsStand ==
    /\ \A a \in Alerts :
           LET r == alert[a].decider
           IN  r # Nobody => \/ alert[a].status = request[r].asked
                             \/ request[r].overtaken /\ request[r].asked = request[r].seen
    /\ \A r \in Requests :
           request[r].answer \in Statuses /\ ~request[r].overtaken
               => request[r].answer = request[r].asked

\* A closed alert carries the resolved_at of a request that asked to close it,
\* whatever crossed: the commit that closes it stamps it, and a commit whose
\* session found it closed already stamps it again.
ClosedAlertsStamped ==
    \A a \in Alerts : IsClosed(a) =>
        /\ alert[a].resolver # Nobody
        /\ request[alert[a].resolver].asked \in Closed

\* A closed alert settles: grouping may still write its name and risk once, by
\* the pass that was under way when it was closed, and never again before it is
\* reopened.
ClosedAlertsSettle == \A a \in Alerts : IsClosed(a) => alert[a].late <= 1
=============================================================================
