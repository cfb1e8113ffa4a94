----------------------- MODULE AnalysisServiceProofs -----------------------
(***************************************************************************)
(* Proofs about AlertLifecycle, for any alerts, rules, requests and        *)
(* failures, about MLEngine, for any events, thresholds and failures, both *)
(* for any number of restarts, and that the analysis service is made of    *)
(* these parts: every behaviour of AnalysisService is one of each, so what *)
(* is proved of the parts holds of the whole.                              *)
(***************************************************************************)
EXTENDS AnalysisService, SequenceTheorems, TLAPS

-----------------------------------------------------------------------------
(* The alert lifecycle.  The three properties speak of rows and answers;     *)
(* what makes them hold is what a request knows between its awaits and what  *)
(* the pass has selected.                                                    *)

\* A request under way asks for a status, and what it read still is the status
\* of its alert unless another request overtook it; once it committed, so is what
\* it asked for.
ReadingsHold ==
    \A r \in Requests :
        /\ request[r].stage \in {"reading", "committing", "refreshing"} =>
               request[r].asked \in Statuses
        /\ At(r, "committing") =>
               /\ request[r].seen \in Statuses /\ Inserted(request[r].alert)
               /\ ~request[r].overtaken => alert[request[r].alert].status = request[r].seen
        /\ At(r, "refreshing") /\ ~request[r].overtaken =>
               alert[request[r].alert].status = request[r].asked

\* A request that may have committed: it will not change what it asked any more.
Past(r) == request[r].stage \in {"refreshing", "answered", "lost"}

\* Deciders and resolvers have committed.
CommittersPast ==
    \A a \in Alerts :
        /\ alert[a].decider # Nobody => Past(alert[a].decider) /\ Inserted(a)
        /\ alert[a].resolver # Nobody => Past(alert[a].resolver)

\* A closed alert that was written since is not in the hands of a pass.
WrittenAlertsReleased ==
    \A a \in Alerts : IsClosed(a) /\ alert[a].late = 1 => a \notin pass.selected

LifecycleInv ==
    /\ TypeOK
    /\ ReadingsHold /\ CommittersPast
    /\ DecisionsStand /\ ClosedAlertsStamped
    /\ ClosedAlertsSettle /\ WrittenAlertsReleased

-----------------------------------------------------------------------------
(* The initial states. *)

LEMMA FailuresBounded == MaxFailures \in Nat
BY LifecycleAssumption

LEMMA InitInv == Init => LifecycleInv
<1> SUFFICES ASSUME Init PROVE LifecycleInv
  OBVIOUS
<1>1. (CHOOSE a \in Alerts : TRUE) \in Alerts
  BY LifecycleAssumption
<1>2. /\ alert = [a \in Alerts |-> NoAlert] /\ pass = Sleeping /\ failures = 0
      /\ request = [r \in Requests |-> [NewRequest(CHOOSE a \in Alerts : TRUE, "open")
                                        EXCEPT !.stage = "absent"]]
  BY DEF Init
<1>3. TypeOK
  <2>1. NoAlert \in Row
    BY DEF NoAlert, Row
  <2>2. [NewRequest(CHOOSE a \in Alerts : TRUE, "open") EXCEPT !.stage = "absent"] \in Request
    BY <1>1 DEF NewRequest, Request
  <2>3. Sleeping \in Pass
    BY DEF Sleeping, Pass
  <2>4. failures \in 0..MaxFailures
    <3>1. failures = 0
      BY <1>2
    <3> QED BY <3>1, FailuresBounded
  <2> QED BY <1>2, <2>1, <2>2, <2>3, <2>4 DEF TypeOK
<1>4. ReadingsHold /\ CommittersPast
  BY <1>2, LifecycleAssumption DEF ReadingsHold, CommittersPast, NewRequest, NoAlert, At, Inserted
<1>5. DecisionsStand
  BY <1>2, LifecycleAssumption
  DEF DecisionsStand, NewRequest, NoAlert, Statuses, Active, Closed
<1>6. ClosedAlertsStamped /\ ClosedAlertsSettle /\ WrittenAlertsReleased
  BY <1>2 DEF ClosedAlertsStamped, ClosedAlertsSettle, WrittenAlertsReleased, IsClosed, NoAlert, Closed
<1> QED BY <1>3, <1>4, <1>5, <1>6 DEF LifecycleInv

-----------------------------------------------------------------------------
(* Steps of one request that leave the table alone. *)

\* Request r goes on as q, which asks what r asked and may have learned the
\* status of its alert.
LEMMA OneRequest ==
    ASSUME LifecycleInv, NEW r \in Requests, NEW q \in Request,
           request' = [request EXCEPT ![r] = q], UNCHANGED <<alert, pass>>,
           failures' \in 0..MaxFailures,
           ~Past(r) \/ (q.stage # "reading" /\ q.stage # "committing" /\ q.stage # "absent"),
           Past(r) => q.asked = request[r].asked /\ q.seen = request[r].seen
                      /\ q.overtaken = request[r].overtaken,
           q.stage \in {"reading", "committing", "refreshing"} => q.asked \in Statuses,
           q.stage = "committing" =>
               /\ q.seen \in Statuses /\ Inserted(q.alert)
               /\ ~q.overtaken => alert[q.alert].status = q.seen,
           q.stage # "refreshing",
           q.answer \in Statuses /\ ~q.overtaken => q.answer = q.asked
    PROVE  LifecycleInv'
<1>1. /\ request \in [Requests -> Request] /\ alert \in [Alerts -> Row]
      /\ request' \in [Requests -> Request]
      /\ request'[r] = q /\ \A s \in Requests : s # r => request'[s] = request[s]
  BY DEF LifecycleInv, TypeOK
<1>2. TypeOK'
  BY <1>1 DEF LifecycleInv, TypeOK
<1>3. ReadingsHold'
  BY <1>1 DEF LifecycleInv, ReadingsHold, At, Inserted
<1>4. CommittersPast'
  <2>1. q.stage \in {"absent", "reading", "committing", "refreshing", "answered", "lost"}
    BY DEF Request
  <2>2. \A s \in Requests : Past(s) => Past(s)'
    BY <1>1, <2>1 DEF Past
  <2>3. \A a \in Alerts : /\ alert[a].decider \in Requests \cup {Nobody}
                          /\ alert[a].resolver \in Requests \cup {Nobody}
    BY <1>1 DEF Row
  <2> QED BY <2>2, <2>3 DEF LifecycleInv, CommittersPast, Inserted
<1>5. \A a \in Alerts : /\ alert[a].decider # Nobody => Past(alert[a].decider)
                        /\ alert[a].resolver # Nobody => Past(alert[a].resolver)
                        /\ alert[a].decider \in Requests \cup {Nobody}
                        /\ alert[a].resolver \in Requests \cup {Nobody}
  BY <1>1 DEF LifecycleInv, CommittersPast, Row
<1>6. \A s \in Requests : Past(s) => /\ request'[s].asked = request[s].asked
                                     /\ request'[s].seen = request[s].seen
                                     /\ request'[s].overtaken = request[s].overtaken
  BY <1>1
<1>7. DecisionsStand'
  <2>1. \A a \in Alerts : alert[a].decider # Nobody =>
            \/ alert[a].status = request'[alert[a].decider].asked
            \/ /\ request'[alert[a].decider].overtaken
               /\ request'[alert[a].decider].asked = request'[alert[a].decider].seen
    BY <1>5, <1>6 DEF LifecycleInv, DecisionsStand
  <2>2. \A s \in Requests : request'[s].answer \in Statuses /\ ~request'[s].overtaken
                                => request'[s].answer = request'[s].asked
    BY <1>1 DEF LifecycleInv, DecisionsStand
  <2> QED BY <2>1, <2>2 DEF DecisionsStand
<1>8. ClosedAlertsStamped'
  BY <1>5, <1>6 DEF LifecycleInv, ClosedAlertsStamped, IsClosed
<1>9. ClosedAlertsSettle' /\ WrittenAlertsReleased'
  BY DEF LifecycleInv, ClosedAlertsSettle, WrittenAlertsReleased, IsClosed
<1> QED BY <1>2, <1>3, <1>4, <1>7, <1>8, <1>9 DEF LifecycleInv

LEMMA RequestKept ==
    ASSUME LifecycleInv, NEW r \in Requests,
           \/ \E a \in Alerts, asked \in Asked : Arrive(r, a, asked)
           \/ ReadAlert(r) \/ ReadNoAlert(r) \/ Refresh(r)
           \/ RequestFails(r)
    PROVE  LifecycleInv'
<1>1. /\ request \in [Requests -> Request] /\ alert \in [Alerts -> Row]
      /\ failures \in 0..MaxFailures
  BY DEF LifecycleInv, TypeOK
<1>2. request[r] \in Request /\ request[r].alert \in Alerts
  BY <1>1 DEF Request
<1>3. \A word \in {"400", "404", "500", "none"} : word \notin Statuses
  BY DEF Statuses, Active, Closed
<1>4. \A answer \in Statuses \cup {"400", "404", "500"} :
          LET q == [request[r] EXCEPT !.stage = "answered", !.answer = answer]
          IN  /\ q \in Request /\ q.stage = "answered" /\ q.answer = answer
              /\ q.asked = request[r].asked /\ q.seen = request[r].seen
              /\ q.overtaken = request[r].overtaken
              /\ Answered(r, answer) = [request EXCEPT ![r] = q]
  BY <1>1, <1>2 DEF Answered, Request
<1>5. failures' \in 0..MaxFailures
  <2>1. failures' = failures \/ (failures < MaxFailures /\ failures' = failures + 1)
    BY Zenon
    DEF Arrive, ReadAlert, ReadNoAlert, Refresh, RequestFails, ReadFails, UpdateFails, Works, Fails
  <2>2. failures \in 0..MaxFailures
    BY <1>1
  <2> QED BY <2>1, <2>2, FailuresBounded
<1>6. ASSUME NEW a \in Alerts, NEW asked \in Asked, Arrive(r, a, asked) PROVE LifecycleInv'
  <2> DEFINE q == IF asked \in Statuses THEN NewRequest(a, asked)
                  ELSE [NewRequest(a, asked) EXCEPT !.stage = "answered", !.answer = "400"]
  <2>1. /\ q \in Request /\ q.answer \notin Statuses
        /\ q.stage \in {"reading", "answered"}
        /\ q.stage = "reading" => q.asked \in Statuses
    BY <1>3 DEF NewRequest, Request
  <2>2. request' = [request EXCEPT ![r] = q]
    BY <1>1, <1>6 DEF Arrive, NewRequest
  <2>3. ~Past(r) /\ UNCHANGED <<alert, pass>>
    BY <1>6 DEF Arrive, At, Past
  <2> HIDE DEF q
  <2> QED BY <1>5, <2>1, <2>2, <2>3, OneRequest
<1>7. CASE ReadAlert(r)
  <2> DEFINE q == [request[r] EXCEPT !.stage = "committing", !.seen = alert[request[r].alert].status]
  <2>1. /\ q \in Request /\ q.stage = "committing" /\ q.alert = request[r].alert
        /\ q.seen = alert[request[r].alert].status /\ q.asked = request[r].asked
        /\ q.answer = request[r].answer /\ q.overtaken = request[r].overtaken
    BY <1>1, <1>2 DEF Request, Row
  <2>2. q.seen \in Statuses /\ q.asked \in Statuses /\ Inserted(q.alert)
    BY <1>1, <1>2, <1>7, <2>1 DEF ReadAlert, At, Inserted, Row, LifecycleInv, ReadingsHold
  <2>3. request' = [request EXCEPT ![r] = q]
    BY <1>1, <1>7 DEF ReadAlert
  <2>4. ~Past(r) /\ UNCHANGED <<alert, pass>>
    BY <1>7 DEF ReadAlert, At, Past
  <2>5. q.answer \in Statuses /\ ~q.overtaken => q.answer = q.asked
    BY <2>1 DEF LifecycleInv, DecisionsStand
  <2> HIDE DEF q
  <2> QED BY <1>5, <2>1, <2>2, <2>3, <2>4, <2>5, OneRequest
<1>8. ASSUME ReadNoAlert(r) \/ RequestFails(r) PROVE LifecycleInv'
  <2>1. PICK answer \in {"404", "500"} : request' = Answered(r, answer)
    BY <1>8 DEF ReadNoAlert, RequestFails, ReadFails, UpdateFails
  <2>2. UNCHANGED <<alert, pass>>
    BY <1>8 DEF ReadNoAlert, RequestFails, ReadFails, UpdateFails
  <2> DEFINE q == [request[r] EXCEPT !.stage = "answered", !.answer = answer]
  <2>3. /\ q \in Request /\ q.stage = "answered" /\ q.answer = answer
        /\ q.asked = request[r].asked /\ q.seen = request[r].seen
        /\ q.overtaken = request[r].overtaken
        /\ request' = [request EXCEPT ![r] = q]
    BY <1>4, <2>1
  <2> HIDE DEF q
  <2> QED BY <1>3, <1>5, <2>2, <2>3, OneRequest
<1>9. CASE Refresh(r)
  <2> DEFINE answer == alert[request[r].alert].status
             q == [request[r] EXCEPT !.stage = "answered", !.answer = answer]
  <2>1. UNCHANGED <<alert, pass>> /\ request' = Answered(r, answer) /\ At(r, "refreshing")
    BY <1>9 DEF Refresh
  <2>2. answer \in Statuses \cup {"none"}
    BY <1>1, <1>2 DEF Row
  <2>3. /\ q \in Request /\ q.stage = "answered" /\ q.answer = answer
        /\ q.asked = request[r].asked /\ q.seen = request[r].seen
        /\ q.overtaken = request[r].overtaken
        /\ request' = [request EXCEPT ![r] = q]
    BY <1>1, <1>2, <2>1, <2>2 DEF Answered, Request
  <2>4. ~q.overtaken => q.answer = q.asked
    BY <2>1, <2>3 DEF LifecycleInv, ReadingsHold
  <2> HIDE DEF q
  <2> QED BY <1>5, <2>1, <2>3, <2>4, OneRequest
<1> QED BY <1>6, <1>7, <1>8, <1>9

-----------------------------------------------------------------------------
(* Steps that change a row. *)

\* A commit overtakes the others and decides.
LEMMA CommitKept ==
    ASSUME LifecycleInv, NEW r \in Requests, CommitStatus(r)
    PROVE  LifecycleInv'
<1> DEFINE b == request[r].alert
           row == alert[b]
           q == request[r]
           new == Decided(row, r)
<1>1. /\ request \in [Requests -> Request] /\ alert \in [Alerts -> Row] /\ pass \in Pass
      /\ q \in Request /\ b \in Alerts /\ row \in Row
  BY DEF LifecycleInv, TypeOK, Request
<1>2. /\ q.stage = "committing" /\ q.asked \in Statuses /\ q.seen \in Statuses
      /\ row.status # "none"
      /\ ~q.overtaken => row.status = q.seen
  BY DEF CommitStatus, At, LifecycleInv, ReadingsHold, Inserted
<1>3. /\ new \in Row
      /\ new.status = IF q.asked # q.seen THEN q.asked ELSE row.status
      /\ new.resolver = IF q.asked \in Closed THEN r ELSE row.resolver
      /\ new.decider = r
      /\ new.late = IF row.status \in Closed /\ new.status \in Closed THEN row.late ELSE 0
  <2>1. /\ row.status \in Statuses \cup {"none"} /\ row.resolver \in Requests \cup {Nobody}
        /\ row.late \in 0..2
    BY <1>1 DEF Row
  <2> DEFINE status == IF q.asked # q.seen THEN q.asked ELSE row.status
             resolver == IF q.asked \in Closed THEN r ELSE row.resolver
             late == IF row.status \in Closed /\ status \in Closed THEN row.late ELSE 0
  <2>2. new = [row EXCEPT !.status = status, !.resolver = resolver, !.decider = r, !.late = late]
    BY DEF Decided, Stamped
  <2>3. /\ status \in Statuses \cup {"none"} /\ resolver \in Requests \cup {Nobody}
        /\ late \in 0..2
    BY <1>2, <2>1
  <2> HIDE DEF status, resolver, late, new
  <2>4. /\ new \in Row /\ new.status = status /\ new.resolver = resolver
        /\ new.decider = r /\ new.late = late
    BY <1>1, <2>2, <2>3 DEF Row
  <2> QED BY <2>4 DEF status, resolver, late
<1>4. alert' = [alert EXCEPT ![b] = new] /\ UNCHANGED <<pass, failures>>
  BY DEF CommitStatus, Works
<1>5. new.status # "none"
  BY <1>2, <1>3 DEF Statuses, Active, Closed
<1>6. /\ alert' \in [Alerts -> Row] /\ alert'[b] = new
      /\ \A a \in Alerts : a # b => alert'[a] = alert[a]
  BY <1>1, <1>3, <1>4
<1> DEFINE other(s) == IF s # r /\ request[s].alert = b
                                /\ request[s].stage \in {"committing", "refreshing"}
                       THEN [request[s] EXCEPT !.overtaken = TRUE] ELSE request[s]
           mine == [q EXCEPT !.stage = "refreshing"]
<1>7. /\ request' \in [Requests -> Request] /\ request'[r] = mine
      /\ \A s \in Requests : s # r => request'[s] = other(s)
  <2>1. \A s \in Requests : other(s) \in Request
    BY <1>1 DEF Request
  <2>2. mine \in Request
    BY <1>1 DEF Request
  <2>3. Overtake(r) = [s \in Requests |-> other(s)]
    BY DEF Overtake
  <2>4. other(r) = q
    OBVIOUS
  <2>5. request' = [Overtake(r) EXCEPT ![r].stage = "refreshing"]
    BY DEF CommitStatus
  <2> HIDE DEF other
  <2>6. request' = [s \in Requests |-> IF s = r THEN mine ELSE other(s)]
    BY <2>3, <2>4, <2>5
  <2> QED BY <2>1, <2>2, <2>6
<1>8. /\ mine.stage = "refreshing" /\ mine.alert = b /\ mine.asked = q.asked
      /\ mine.seen = q.seen /\ mine.overtaken = q.overtaken /\ mine.answer = q.answer
  BY <1>1 DEF Request
<1>9. \A s \in Requests : s # r =>
          /\ request'[s].stage = request[s].stage /\ request'[s].alert = request[s].alert
          /\ request'[s].asked = request[s].asked /\ request'[s].seen = request[s].seen
          /\ request'[s].answer = request[s].answer
          /\ request[s].overtaken => request'[s].overtaken
          /\ request[s].alert = b /\ request[s].stage \in {"committing", "refreshing"}
                 => request'[s].overtaken
          /\ request[s].stage \notin {"committing", "refreshing"}
                 => request'[s].overtaken = request[s].overtaken
  BY <1>1, <1>7 DEF Request
<1> HIDE DEF b, row, q, new, other, mine
<1>10. TypeOK'
  BY <1>4, <1>6, <1>7 DEF LifecycleInv, TypeOK
<1>11. ReadingsHold'
  <2> SUFFICES ASSUME NEW s \in Requests
               PROVE  /\ request'[s].stage \in {"reading", "committing", "refreshing"} =>
                             request'[s].asked \in Statuses
                      /\ request'[s].stage = "committing" =>
                             /\ request'[s].seen \in Statuses
                             /\ alert'[request'[s].alert].status # "none"
                             /\ ~request'[s].overtaken =>
                                    alert'[request'[s].alert].status = request'[s].seen
                      /\ request'[s].stage = "refreshing" /\ ~request'[s].overtaken =>
                             alert'[request'[s].alert].status = request'[s].asked
    BY DEF ReadingsHold, At, Inserted
  <2>1. CASE s = r
    BY <1>2, <1>3, <1>6, <1>7, <1>8, <2>1
  <2>2. CASE s # r
    <3>1. request[s].alert \in Alerts
      BY <1>1 DEF Request
    <3> QED BY <1>6, <1>9, <1>5, <2>2, <3>1 DEF LifecycleInv, ReadingsHold, At, Inserted
  <2> QED BY <2>1, <2>2
<1>12. CommittersPast'
  <2>1. \A s \in Requests : Past(s) => Past(s)'
    BY <1>7, <1>8, <1>9 DEF Past
  <2>2. Past(r)'
    BY <1>7, <1>8 DEF Past
  <2>3. \A a \in Alerts : /\ alert[a].decider \in Requests \cup {Nobody}
                          /\ alert[a].resolver \in Requests \cup {Nobody}
    BY <1>1 DEF Row
  <2>4. new.resolver \in {r, row.resolver}
    BY <1>3
  <2> QED BY <1>1, <1>3, <1>6, <1>5, <2>1, <2>2, <2>3, <2>4
          DEF LifecycleInv, CommittersPast, Inserted, row
<1>13. \A a \in Alerts : /\ alert[a].decider # Nobody =>
                                alert[a].decider \in Requests \ {r}
                         /\ alert[a].resolver # Nobody =>
                                alert[a].resolver \in Requests \ {r}
  BY <1>1, <1>2 DEF LifecycleInv, CommittersPast, Past, Row, q
<1>14. DecisionsStand'
  <2>1. \A a \in Alerts : alert'[a].decider # Nobody =>
            \/ alert'[a].status = request'[alert'[a].decider].asked
            \/ /\ request'[alert'[a].decider].overtaken
               /\ request'[alert'[a].decider].asked = request'[alert'[a].decider].seen
    <3> TAKE a \in Alerts
    <3>1. CASE a = b
      BY <1>2, <1>3, <1>6, <1>7, <1>8, <3>1
    <3>2. CASE a # b
      BY <1>6, <1>9, <1>13, <3>2 DEF LifecycleInv, DecisionsStand
    <3> QED BY <3>1, <3>2
  <2>2. \A s \in Requests : request'[s].answer \in Statuses /\ ~request'[s].overtaken
                                => request'[s].answer = request'[s].asked
    BY <1>1, <1>7, <1>8, <1>9 DEF LifecycleInv, DecisionsStand, q
  <2> QED BY <2>1, <2>2 DEF DecisionsStand
<1>15. ClosedAlertsStamped'
  <2> SUFFICES ASSUME NEW a \in Alerts, alert'[a].status \in Closed
               PROVE  /\ alert'[a].resolver # Nobody
                      /\ request'[alert'[a].resolver].asked \in Closed
    BY DEF ClosedAlertsStamped, IsClosed
  <2>1. CASE a # b \/ q.asked \notin Closed
    <3>1. alert[a].status \in Closed /\ alert'[a].resolver = alert[a].resolver
      BY <1>3, <1>6, <2>1 DEF row
    <3> QED BY <1>9, <1>13, <3>1 DEF LifecycleInv, ClosedAlertsStamped, IsClosed
  <2>2. CASE a = b /\ q.asked \in Closed
    BY <1>3, <1>6, <1>7, <1>8, <2>2, LifecycleAssumption
  <2> QED BY <2>1, <2>2
<1>16. ClosedAlertsSettle' /\ WrittenAlertsReleased'
  <2> SUFFICES ASSUME NEW a \in Alerts, alert'[a].status \in Closed
               PROVE  alert'[a].late <= 1 /\ (alert'[a].late = 1 => a \notin pass.selected)
    BY <1>4 DEF ClosedAlertsSettle, WrittenAlertsReleased, IsClosed
  <2>1. alert'[a].late = 0 \/ (alert[a].status \in Closed /\ alert'[a].late = alert[a].late)
    BY <1>3, <1>6 DEF row
  <2> QED BY <2>1 DEF LifecycleInv, ClosedAlertsSettle, WrittenAlertsReleased, IsClosed
<1> QED BY <1>10, <1>11, <1>12, <1>14, <1>15, <1>16 DEF LifecycleInv

\* A new row is open and was decided by nobody.
LEMMA InsertKept ==
    ASSUME LifecycleInv, NEW b \in Alerts, InsertAlert(b)
    PROVE  LifecycleInv'
<1>1. /\ request \in [Requests -> Request] /\ alert \in [Alerts -> Row]
      /\ UNCHANGED <<request, pass, failures>>
      /\ alert[b].status = "none" /\ alert' = [alert EXCEPT ![b].status = "open"]
  BY DEF LifecycleInv, TypeOK, InsertAlert, Inserted, Works
<1>2. /\ alert' \in [Alerts -> Row]
      /\ \A a \in Alerts : /\ alert'[a].resolver = alert[a].resolver
                           /\ alert'[a].decider = alert[a].decider
                           /\ alert'[a].late = alert[a].late
                           /\ alert'[a].status = IF a = b THEN "open" ELSE alert[a].status
  BY <1>1 DEF Row, Statuses, Active
<1>3. TypeOK'
  BY <1>1, <1>2 DEF LifecycleInv, TypeOK
<1>4. \A s \in Requests : request[s].stage \in {"committing", "refreshing"} /\ ~request[s].overtaken
                              => request[s].alert # b
  BY <1>1 DEF LifecycleInv, ReadingsHold, At, Statuses, Active, Closed
<1>5. ReadingsHold'
  <2>1. \A s \in Requests : request[s].alert \in Alerts
    BY <1>1 DEF Request
  <2> QED BY <1>1, <1>2, <1>4, <2>1 DEF LifecycleInv, ReadingsHold, At, Inserted
<1>6. CommittersPast'
  <2>1. \A s \in Requests : Past(s) => Past(s)'
    BY <1>1 DEF Past
  <2>2. \A a \in Alerts : /\ alert[a].decider \in Requests \cup {Nobody}
                          /\ alert[a].resolver \in Requests \cup {Nobody}
    BY <1>1 DEF Row
  <2> QED BY <1>2, <2>1, <2>2 DEF LifecycleInv, CommittersPast, Inserted
<1>7. DecisionsStand'
  <2>1. alert[b].decider = Nobody
    BY <1>1 DEF LifecycleInv, CommittersPast, Inserted
  <2> QED BY <1>1, <1>2, <2>1 DEF LifecycleInv, DecisionsStand
<1>8. \A a \in Alerts : alert'[a].status \in Closed => alert'[a].status = alert[a].status
  BY <1>2 DEF Closed
<1>9. ClosedAlertsStamped' /\ ClosedAlertsSettle' /\ WrittenAlertsReleased'
  BY <1>1, <1>2, <1>8
  DEF LifecycleInv, ClosedAlertsStamped, ClosedAlertsSettle, WrittenAlertsReleased, IsClosed
<1> QED BY <1>3, <1>5, <1>6, <1>7, <1>9 DEF LifecycleInv

\* The commit of a pass touches names and risks, and counts once for an alert that
\* was closed since it was selected.
LEMMA CommitPassKept ==
    ASSUME LifecycleInv, CommitPass
    PROVE  LifecycleInv'
<1>1. /\ alert \in [Alerts -> Row] /\ pass \in Pass
      /\ UNCHANGED <<request, failures>> /\ pass' = Sleeping
      /\ alert' = [a \in Alerts |-> Grouped(a)]
  BY DEF LifecycleInv, TypeOK, CommitPass, Works
<1>2. \A a \in Alerts :
          /\ Grouped(a) \in Row
          /\ Grouped(a).status = alert[a].status
          /\ Grouped(a).resolver = alert[a].resolver
          /\ Grouped(a).decider = alert[a].decider
          /\ \/ Grouped(a).late = alert[a].late
             \/ /\ a \in pass.selected /\ alert[a].late < 2
                /\ Grouped(a).late = alert[a].late + 1
  <2> TAKE a \in Alerts
  <2>1. alert[a] \in Row /\ alert[a].late \in 0..2
    BY <1>1 DEF Row
  <2>2. RuleOf[a] \in Rules /\ pass.score \in [Rules -> Scores \cup {NoScore}]
    BY <1>1, LifecycleAssumption DEF Pass
  <2>3. CASE a \in pass.selected /\ RuleOf[a] \in pass.touched
    <3> DEFINE late == IF IsClosed(a) /\ alert[a].late < 2 THEN alert[a].late + 1 ELSE alert[a].late
               risk == pass.score[RuleOf[a]]
    <3>1. Grouped(a) = [alert[a] EXCEPT !.named = TRUE, !.risk = risk, !.late = late]
      BY <2>3 DEF Grouped
    <3>2. /\ late \in 0..2 /\ risk \in Scores \cup {NoScore}
          /\ late = alert[a].late \/ (alert[a].late < 2 /\ late = alert[a].late + 1)
      BY <2>1, <2>2
    <3> HIDE DEF late, risk
    <3> QED BY <2>1, <2>3, <3>1, <3>2 DEF Row
  <2>4. CASE ~(a \in pass.selected /\ RuleOf[a] \in pass.touched)
    BY <2>1, <2>4 DEF Grouped
  <2> QED BY <2>3, <2>4
<1>3. Sleeping \in Pass /\ Sleeping.selected = {}
  BY DEF Sleeping, Pass
<1>4. TypeOK'
  BY <1>1, <1>2, <1>3 DEF LifecycleInv, TypeOK
<1>5. \A a \in Alerts : /\ alert'[a].status = alert[a].status
                        /\ alert'[a].resolver = alert[a].resolver
                        /\ alert'[a].decider = alert[a].decider
  BY <1>1, <1>2
<1>6. ReadingsHold'
  <2>1. \A s \in Requests : request[s].alert \in Alerts
    BY DEF LifecycleInv, TypeOK, Request
  <2> QED BY <1>1, <1>5, <2>1 DEF LifecycleInv, ReadingsHold, At, Inserted
<1>7. CommittersPast'
  BY <1>1, <1>5 DEF LifecycleInv, CommittersPast, Past, Inserted
<1>8. DecisionsStand' /\ ClosedAlertsStamped'
  BY <1>1, <1>5 DEF LifecycleInv, DecisionsStand, ClosedAlertsStamped, IsClosed
<1>9. ClosedAlertsSettle'
  <2> SUFFICES ASSUME NEW a \in Alerts, alert[a].status \in Closed
               PROVE  Grouped(a).late <= 1
    BY <1>1, <1>5 DEF ClosedAlertsSettle, IsClosed
  <2>1. alert[a].late \in 0..2 /\ alert[a].late <= 1
    BY <1>1 DEF Row, LifecycleInv, ClosedAlertsSettle, IsClosed
  <2>2. alert[a].late = 1 => a \notin pass.selected
    BY DEF LifecycleInv, WrittenAlertsReleased, IsClosed
  <2> QED BY <1>2, <2>1, <2>2
<1>10. WrittenAlertsReleased'
  BY <1>1, <1>3 DEF WrittenAlertsReleased
<1> QED BY <1>4, <1>6, <1>7, <1>8, <1>9, <1>10 DEF LifecycleInv

-----------------------------------------------------------------------------
(* Steps of the pass that leave the tables alone, and the end of a process. *)

\* A pass that selects nothing or only active alerts, or keeps what it selected.
LEMMA OnePass ==
    ASSUME LifecycleInv, UNCHANGED <<alert, request>>, failures' \in 0..MaxFailures,
           pass' \in Pass,
           \/ pass'.selected = pass.selected
           \/ \A a \in pass'.selected : ~IsClosed(a)
    PROVE  LifecycleInv'
<1>1. TypeOK'
  BY DEF LifecycleInv, TypeOK
<1>2. ReadingsHold' /\ CommittersPast'
  BY DEF LifecycleInv, ReadingsHold, CommittersPast, At, Past, Inserted
<1>3. DecisionsStand' /\ ClosedAlertsStamped' /\ ClosedAlertsSettle'
  BY DEF LifecycleInv, DecisionsStand, ClosedAlertsStamped, ClosedAlertsSettle, IsClosed
<1>4. WrittenAlertsReleased'
  BY DEF LifecycleInv, WrittenAlertsReleased, IsClosed
<1> QED BY <1>1, <1>2, <1>3, <1>4 DEF LifecycleInv

LEMMA PassKept ==
    ASSUME LifecycleInv, PassStep \/ PassFails
    PROVE  LifecycleInv'
<1>1. pass \in Pass /\ failures \in 0..MaxFailures
  BY DEF LifecycleInv, TypeOK
<1>2. Sleeping \in Pass /\ Sleeping.selected = {}
  BY DEF Sleeping, Pass
<1>3. CASE BeginPass
  <2>1. /\ UNCHANGED <<alert, request, failures>>
        /\ pass' = [Sleeping EXCEPT !.stage = "grouping", !.selected = ToGroup,
                                    !.todo = { RuleOf[a] : a \in ToGroup }]
    BY <1>3 DEF BeginPass, Works
  <2>2. ToGroup \subseteq Alerts /\ { RuleOf[a] : a \in ToGroup } \subseteq Rules
    BY LifecycleAssumption DEF ToGroup
  <2>3. pass' \in Pass /\ pass'.selected = ToGroup
    BY <1>2, <2>1, <2>2 DEF Pass
  <2>4. \A a \in ToGroup : ~IsClosed(a)
    BY DEF ToGroup, IsActive, IsClosed, Active, Closed
  <2> QED BY <1>1, <2>1, <2>3, <2>4, OnePass
<1>4. CASE TitleExpired \/ PassError
  <2>1. /\ UNCHANGED <<alert, request>> /\ pass' = Sleeping
        /\ failures' = failures \/ (failures < MaxFailures /\ failures' = failures + 1)
    BY <1>4 DEF TitleExpired, PassError, Fails
  <2>2. failures' \in 0..MaxFailures
    BY <1>1, <2>1, FailuresBounded
  <2> QED BY <1>2, <2>1, <2>2, OnePass
<1>5. CASE CommitPass
  BY <1>5, CommitPassKept
<1>6. ASSUME NEW k \in Rules, NEW score \in Scores \cup {NoScore}, LookUp(k, score)
      PROVE  LifecycleInv'
  <2>1. /\ UNCHANGED <<alert, request, failures>>
        /\ pass' = [pass EXCEPT !.todo = @ \ {k}, !.touched = @ \cup {k}, !.score[k] = score]
    BY <1>6 DEF LookUp, Works
  <2>2. pass' \in Pass /\ pass'.selected = pass.selected
    BY <1>1, <1>6, <2>1 DEF Pass
  <2> QED BY <1>1, <2>1, <2>2, OnePass
<1>7. ASSUME NEW k \in Rules, LookUpFails(k)
      PROVE  LifecycleInv'
  <2>1. /\ UNCHANGED <<alert, request>>
        /\ failures < MaxFailures /\ failures' = failures + 1
        /\ pass' = [pass EXCEPT !.todo = @ \ {k}, !.touched = {k}, !.score[k] = NoScore,
                                !.expired = TRUE]
    BY <1>7 DEF LookUpFails, Fails
  <2>2. pass' \in Pass /\ pass'.selected = pass.selected
    BY <1>1, <1>7, <2>1 DEF Pass
  <2>3. failures' \in 0..MaxFailures
    BY <1>1, <2>1, FailuresBounded
  <2> QED BY <2>1, <2>2, <2>3, OnePass
<1> QED BY <1>3, <1>4, <1>5, <1>6, <1>7 DEF PassStep, PassFails

\* A lost request has decided what it decided.
LEMMA EndKept ==
    ASSUME LifecycleInv, EndProcess
    PROVE  LifecycleInv'
<1>1. /\ request \in [Requests -> Request] /\ alert \in [Alerts -> Row]
      /\ UNCHANGED <<alert, failures>> /\ pass' = Sleeping /\ request' = LostRequests
  BY DEF LifecycleInv, TypeOK, EndProcess
<1>2. /\ request' \in [Requests -> Request]
      /\ \A s \in Requests :
             /\ request'[s].asked = request[s].asked /\ request'[s].seen = request[s].seen
             /\ request'[s].overtaken = request[s].overtaken
             /\ request'[s].answer = request[s].answer
             /\ request'[s].stage \notin {"reading", "committing", "refreshing"}
             /\ Past(s) => request'[s].stage \in {"refreshing", "answered", "lost"}
  BY <1>1 DEF LostRequests, Request, Past
<1>3. Sleeping \in Pass /\ Sleeping.selected = {}
  BY DEF Sleeping, Pass
<1>4. TypeOK'
  BY <1>1, <1>2, <1>3 DEF LifecycleInv, TypeOK
<1>5. ReadingsHold'
  BY <1>2 DEF ReadingsHold, At
<1>6. \A a \in Alerts : /\ alert[a].decider \in Requests \cup {Nobody}
                        /\ alert[a].resolver \in Requests \cup {Nobody}
  BY <1>1 DEF Row
<1>7. CommittersPast'
  BY <1>1, <1>2, <1>6 DEF LifecycleInv, CommittersPast, Past, Inserted
<1>8. DecisionsStand'
  BY <1>1, <1>2, <1>6 DEF LifecycleInv, DecisionsStand
<1>9. ClosedAlertsStamped' /\ ClosedAlertsSettle' /\ WrittenAlertsReleased'
  BY <1>1, <1>2, <1>3, <1>6
  DEF LifecycleInv, ClosedAlertsStamped, ClosedAlertsSettle, WrittenAlertsReleased, IsClosed
<1> QED BY <1>4, <1>5, <1>7, <1>8, <1>9 DEF LifecycleInv

LEMMA StutterKept ==
    ASSUME LifecycleInv, UNCHANGED vars
    PROVE  LifecycleInv'
<1>1. UNCHANGED <<alert, request, pass, failures>>
  BY DEF vars
<1> QED BY <1>1
    DEF LifecycleInv, TypeOK, ReadingsHold, CommittersPast, DecisionsStand, ClosedAlertsStamped,
        ClosedAlertsSettle, WrittenAlertsReleased, At, Past, Inserted, IsClosed

-----------------------------------------------------------------------------
(* The theorems. *)

THEOREM LifecycleInvariant == Spec => []LifecycleInv
<1>1. ASSUME LifecycleInv, [Next]_vars PROVE LifecycleInv'
  <2>1. ASSUME NEW a \in Alerts, InsertAlert(a) PROVE LifecycleInv'
    BY <1>1, <2>1, InsertKept
  <2>2. ASSUME NEW r \in Requests, RequestStep(r) \/ RequestFails(r) PROVE LifecycleInv'
    BY <1>1, <2>2, RequestKept, CommitKept DEF RequestStep
  <2>3. CASE PassStep \/ PassFails
    BY <1>1, <2>3, PassKept
  <2>4. CASE EndProcess
    BY <1>1, <2>4, EndKept
  <2>5. CASE UNCHANGED vars
    BY <1>1, <2>5, StutterKept
  <2> QED BY <1>1, <2>1, <2>2, <2>3, <2>4, <2>5 DEF Next
<1> QED BY InitInv, <1>1, PTL DEF Spec

\* Every row, request and pass keeps its type.
THEOREM TypeCorrect == Spec => []TypeOK
<1>1. LifecycleInv => TypeOK
  BY DEF LifecycleInv
<1> QED BY LifecycleInvariant, <1>1, PTL

\* However many requests cross each other, grouping passes and restarts, the
\* status of an alert is the one its last decider asked for.
THEOREM DecisionsAlwaysStand == Spec => []DecisionsStand
<1>1. LifecycleInv => DecisionsStand
  BY DEF LifecycleInv
<1> QED BY LifecycleInvariant, <1>1, PTL

\* No closed alert is without the resolved_at of a request that closed it.
THEOREM ClosedAlertsAlwaysStamped == Spec => []ClosedAlertsStamped
<1>1. LifecycleInv => ClosedAlertsStamped
  BY DEF LifecycleInv
<1> QED BY LifecycleInvariant, <1>1, PTL

\* No closed alert is written by more than one pass.
THEOREM ClosedAlertsAlwaysSettle == Spec => []ClosedAlertsSettle
<1>1. LifecycleInv => ClosedAlertsSettle
  BY DEF LifecycleInv
<1> QED BY LifecycleInvariant, <1>1, PTL

-----------------------------------------------------------------------------
(* The scorer. *)

Stages == {"selecting", "selected", "scaler", "scaled", "model", "over"}
Fitting == {"scaler", "scaled", "model"}

\* At most one training holds the loop, it fits its own scaler and model, and
\* neither is fitted before its turn.
OneFit ==
    /\ \A k \in DOMAIN training : training[k] \in Fitting => fitting = k
    /\ fitting # 0 =>
           /\ fitting \in DOMAIN training /\ training[fitting] \in Fitting
           /\ scaler.of = fitting
           /\ training[fitting] = "scaler" => ~scaler.fitted
           /\ training[fitting] = "model" => model.of = fitting /\ ~model.fitted

\* While no fit runs, a scaler and a model that both work belong together.
FittedTogether ==
    fitting = 0 /\ scaler.fitted /\ model.fitted => scaler.of = model.of

\* A prediction that no fit disturbed still has the scaler of the engine.
WorkerUpToDate ==
    worker.scaler # 0 =>
        /\ jobs # <<>>
        /\ ~worker.disturbed => /\ fitting = 0 /\ scaler.fitted
                                /\ scaler.of = worker.scaler

\* Before the first training there is nothing to score with.
NothingBefore ==
    training = <<>> =>
        /\ count = 0 /\ ~trained /\ jobs = <<>>
        /\ \A e \in Events : call[e].stage \notin {"queued", "computed", "raised"}

MLInv ==
    /\ MLTypeOK
    /\ OneFit /\ FittedTogether /\ WorkerUpToDate /\ NothingBefore
    /\ ScoresOfOneTraining

-----------------------------------------------------------------------------
(* Lemmas. *)

\* A training that goes on is still one of as many.
LEMMA TrainingGoesOn ==
    ASSUME NEW s \in Seq(Stages), NEW k \in DOMAIN s, NEW stage \in Stages,
           NEW t, t = [s EXCEPT ![k] = stage]
    PROVE  /\ t \in Seq(Stages) /\ Len(t) = Len(s) /\ DOMAIN t = DOMAIN s
           /\ t # <<>> /\ s # <<>>
           /\ \A j \in DOMAIN s : t[j] = IF j = k THEN stage ELSE s[j]
<1>1. t \in Seq(Stages) /\ Len(t) = Len(s) /\ DOMAIN t = DOMAIN s
  BY ExceptSeq
<1>2. s # <<>> /\ t # <<>>
  BY <1>1
<1> QED BY <1>1, <1>2

LEMMA MLInitInv == MLInit => MLInv
<1> SUFFICES ASSUME MLInit PROVE MLInv
  OBVIOUS
<1>1. /\ stored \in Nat /\ scaler = Nothing /\ model = Nothing /\ trained = FALSE /\ count = 0
      /\ training = <<>> /\ fitting = 0 /\ jobs = <<>> /\ worker = Free
      /\ call = [e \in Events |-> NoCall] /\ mlFailures = 0
  BY DEF MLInit
<1>2. MLTypeOK
  <2>1. 0 \in Trainings
    BY <1>1 DEF Trainings
  <2>2. mlFailures \in 0..MaxMLFailures /\ count \in Nat
    BY <1>1, MLAssumption
  <2>3. training \in Seq(Stages) /\ jobs \in Seq(Events)
    BY <1>1
  <2> QED BY <1>1, <2>1, <2>2, <2>3 DEF MLTypeOK, Nothing, Free, NoCall, Stages
<1>3. OneFit /\ FittedTogether /\ WorkerUpToDate /\ NothingBefore
  BY <1>1 DEF OneFit, FittedTogether, WorkerUpToDate, NothingBefore, Nothing, Free, NoCall, Fitting
<1>4. ScoresOfOneTraining
  BY <1>1 DEF ScoresOfOneTraining, NoCall
<1> QED BY <1>2, <1>3, <1>4 DEF MLInv

-----------------------------------------------------------------------------
(* Training. *)

\* The types of what a training touches.
LEMMA MLTypes ==
    ASSUME MLInv
    PROVE  /\ training \in Seq(Stages) /\ Len(training) \in Nat
           /\ DOMAIN training = 1..Len(training)
           /\ scaler \in [of : 0..Len(training), fitted : BOOLEAN]
           /\ model \in [of : 0..Len(training), fitted : BOOLEAN]
           /\ worker \in [scaler : 0..Len(training), disturbed : BOOLEAN]
           /\ fitting \in 0..Len(training) /\ count \in Nat /\ jobs \in Seq(Events)
           /\ mlFailures \in 0..MaxMLFailures /\ MaxMLFailures \in Nat
           /\ Interval \in Nat \ {0}
BY MLAssumption DEF MLInv, MLTypeOK, Trainings, Stages

\* Training k goes on to a stage; what is fitted follows the rules of OneFit and
\* every prediction under way is told of a fit.
LEMMA FitGoesOn ==
    ASSUME MLInv, NEW k \in DOMAIN training, NEW stage \in Stages,
           training' = [training EXCEPT ![k] = stage],
           training[k] \in Fitting => fitting = k,
           fitting \in {0, k},
           stage \in Fitting => fitting' = k, stage \notin Fitting => fitting' = 0,
           scaler' \in [of : 0..Len(training), fitted : BOOLEAN],
           model' \in [of : 0..Len(training), fitted : BOOLEAN],
           stage \in Fitting => scaler'.of = k,
           stage = "scaler" => ~scaler'.fitted,
           stage = "model" => model'.of = k /\ ~model'.fitted,
           FittedTogether',
           worker' = Disturbed \/ (UNCHANGED <<worker, scaler>> /\ fitting' = 0 /\ fitting = 0),
           trained' \in BOOLEAN, mlFailures' \in 0..MaxMLFailures,
           UNCHANGED <<stored, count, jobs, call>>
    PROVE  MLInv'
<1>1. /\ training' \in Seq(Stages) /\ Len(training') = Len(training)
      /\ DOMAIN training' = DOMAIN training
      /\ training' # <<>> /\ training # <<>>
      /\ \A j \in DOMAIN training : training'[j] = IF j = k THEN stage ELSE training[j]
  BY MLTypes, TrainingGoesOn
<1>2. k \in 0..Len(training) /\ k # 0
  BY MLTypes
<1>3. /\ worker' \in [scaler : 0..Len(training), disturbed : BOOLEAN]
      /\ worker'.scaler = worker.scaler
      /\ worker'.scaler # 0 /\ ~worker'.disturbed =>
             UNCHANGED <<worker, scaler>> /\ fitting' = 0
  BY MLTypes DEF Disturbed
<1>4. MLTypeOK'
  BY <1>1, <1>2, <1>3, MLTypes DEF MLInv, MLTypeOK, Trainings, Stages
<1>5. OneFit'
  BY <1>1, <1>2 DEF MLInv, OneFit
<1>6. WorkerUpToDate'
  BY <1>3 DEF MLInv, WorkerUpToDate
<1>7. NothingBefore'
  BY <1>1 DEF MLInv, NothingBefore
<1>8. ScoresOfOneTraining'
  BY DEF MLInv, ScoresOfOneTraining
<1> QED BY <1>4, <1>5, <1>6, <1>7, <1>8 DEF MLInv

LEMMA TrainingKept ==
    ASSUME MLInv, NEW k \in DOMAIN training, TrainingStep(k) \/ TrainingFails(k)
    PROVE  MLInv'
<1> USE DEF TrainingAt, LoopIsFree
<1>1. k \in 0..Len(training) /\ k # 0
  BY MLTypes
<1>2. training[k] \in Fitting => fitting = k
  BY DEF MLInv, OneFit
<1>3. mlFailures \in 0..MaxMLFailures
      /\ (mlFailures' = mlFailures \/ (mlFailures < MaxMLFailures /\ mlFailures' = mlFailures + 1)
              => mlFailures' \in 0..MaxMLFailures)
  BY MLTypes
<1>4. trained \in BOOLEAN
  BY DEF MLInv, MLTypeOK
<1>5. CASE SelectRows(k) \/ SelectRowsFails(k)
  <2>1. PICK stage \in {"over", "selected"} : training' = [training EXCEPT ![k] = stage]
    BY <1>5 DEF SelectRows, SelectRowsFails
  <2>2. /\ fitting = 0
        /\ UNCHANGED <<stored, scaler, model, trained, count, fitting, jobs, worker, call>>
        /\ mlFailures' = mlFailures \/ (mlFailures < MaxMLFailures /\ mlFailures' = mlFailures + 1)
    BY <1>5 DEF SelectRows, SelectRowsFails, MLWorks, MLFails
  <2>3. stage \in Stages /\ stage \notin Fitting
    BY <2>1 DEF Stages, Fitting
  <2>4. FittedTogether'
    BY <2>2 DEF MLInv, FittedTogether
  <2> QED BY <1>2, <1>3, <1>4, <2>1, <2>2, <2>3, <2>4, MLTypes, FitGoesOn
<1>6. CASE NewScaler(k)
  <2>1. /\ training' = [training EXCEPT ![k] = "scaler"] /\ fitting = 0 /\ fitting' = k
        /\ scaler' = [of |-> k, fitted |-> FALSE] /\ worker' = Disturbed
        /\ UNCHANGED <<stored, model, trained, count, jobs, call, mlFailures>>
    BY <1>6 DEF NewScaler
  <2>2. "scaler" \in Stages /\ "scaler" \in Fitting
    BY DEF Stages, Fitting
  <2>3. FittedTogether'
    BY <2>1 DEF FittedTogether
  <2> QED BY <1>1, <1>2, <1>3, <1>4, <2>1, <2>2, <2>3, MLTypes, FitGoesOn
<1>7. CASE FitScaler(k)
  <2>1. /\ training' = [training EXCEPT ![k] = "scaled"] /\ training[k] = "scaler"
        /\ scaler' = [scaler EXCEPT !.fitted = TRUE] /\ worker' = Disturbed
        /\ UNCHANGED <<stored, model, trained, count, fitting, jobs, call, mlFailures>>
    BY <1>7 DEF FitScaler, MLWorks
  <2>2. "scaled" \in Stages /\ "scaled" \in Fitting /\ training[k] \in Fitting
    BY <2>1 DEF Stages, Fitting
  <2>3. fitting = k /\ scaler.of = k
    BY <1>1, <1>2, <2>2 DEF MLInv, OneFit
  <2>4. scaler'.of = k /\ scaler' \in [of : 0..Len(training), fitted : BOOLEAN]
    BY <2>1, <2>3, MLTypes
  <2>5. FittedTogether'
    BY <1>1, <2>1, <2>3 DEF FittedTogether
  <2> QED BY <1>1, <1>2, <1>3, <1>4, <2>1, <2>2, <2>3, <2>4, <2>5, MLTypes, FitGoesOn
<1>8. CASE NewModel(k)
  <2>1. /\ training' = [training EXCEPT ![k] = "model"] /\ training[k] = "scaled"
        /\ model' = [of |-> k, fitted |-> FALSE] /\ worker' = Disturbed
        /\ UNCHANGED <<stored, scaler, trained, count, fitting, jobs, call, mlFailures>>
    BY <1>8 DEF NewModel
  <2>2. "model" \in Stages /\ "model" \in Fitting /\ training[k] \in Fitting
    BY <2>1 DEF Stages, Fitting
  <2>3. fitting = k /\ scaler.of = k
    BY <1>1, <1>2, <2>2 DEF MLInv, OneFit
  <2>4. FittedTogether'
    BY <2>1 DEF FittedTogether
  <2> QED BY <1>1, <1>2, <1>3, <1>4, <2>1, <2>2, <2>3, <2>4, MLTypes, FitGoesOn
<1>9. CASE FitModel(k)
  <2>1. /\ training' = [training EXCEPT ![k] = "over"] /\ training[k] = "model"
        /\ model' = [model EXCEPT !.fitted = TRUE] /\ worker' = Disturbed
        /\ trained' = TRUE /\ fitting' = 0
        /\ UNCHANGED <<stored, scaler, count, jobs, call, mlFailures>>
    BY <1>9 DEF FitModel, MLWorks
  <2>2. "over" \in Stages /\ "over" \notin Fitting /\ training[k] \in Fitting
    BY <2>1 DEF Stages, Fitting
  <2>3. fitting = k /\ scaler.of = k /\ model.of = k
    BY <1>1, <1>2, <2>1, <2>2 DEF MLInv, OneFit
  <2>4. model'.of = k /\ model' \in [of : 0..Len(training), fitted : BOOLEAN]
    BY <2>1, <2>3, MLTypes
  <2>5. FittedTogether'
    BY <2>1, <2>3, <2>4 DEF FittedTogether
  <2> QED BY <1>1, <1>2, <1>3, <1>4, <2>1, <2>2, <2>3, <2>4, <2>5, MLTypes, FitGoesOn
<1>10. CASE FitFails(k)
  <2>1. /\ training' = [training EXCEPT ![k] = "over"]
        /\ training[k] = "scaler" \/ training[k] = "model"
        /\ worker' = Disturbed /\ fitting' = 0
        /\ mlFailures < MaxMLFailures /\ mlFailures' = mlFailures + 1
        /\ UNCHANGED <<stored, scaler, model, trained, count, jobs, call>>
    BY <1>10 DEF FitFails, MLFails
  <2>2. "over" \in Stages /\ "over" \notin Fitting /\ training[k] \in Fitting
    BY <2>1 DEF Stages, Fitting
  <2>3. fitting = k /\ (~scaler.fitted \/ ~model.fitted)
    BY <1>1, <1>2, <2>1, <2>2 DEF MLInv, OneFit
  <2>4. FittedTogether'
    BY <2>1, <2>3 DEF FittedTogether
  <2> QED BY <1>1, <1>2, <1>3, <1>4, <2>1, <2>2, <2>3, <2>4, MLTypes, FitGoesOn
<1> QED BY <1>5, <1>6, <1>7, <1>8, <1>9, <1>10 DEF TrainingStep, TrainingFails

-----------------------------------------------------------------------------
(* Scoring. *)

Records == [stage : {"absent", "queued", "computed", "raised", "scored", "none", "lost"},
            scaler : Nat, model : Nat, disturbed : BOOLEAN]

\* A call goes on as the record c, which carries a score only if it is honest, and
\* the queue of the executor changes with it.
LEMMA CallGoesOn ==
    ASSUME MLInv, NEW e \in Events, NEW c \in Records, call' = [call EXCEPT ![e] = c],
           c.stage \in {"computed", "scored"} => c.disturbed \/ c.scaler = c.model,
           c.stage \in {"queued", "computed", "raised"} => training # <<>>,
           jobs' \in Seq(Events), jobs' # <<>> => training # <<>>,
           worker' = worker \/ worker' = Free,
           worker'.scaler # 0 => jobs' # <<>>,
           UNCHANGED <<stored, scaler, model, trained, count, training, fitting, mlFailures>>
    PROVE  MLInv'
<1>1. call \in [Events -> Records]
  BY DEF MLInv, MLTypeOK, Records
<1>2. /\ call' \in [Events -> Records] /\ call'[e] = c
      /\ \A d \in Events : d # e => call'[d] = call[d]
  BY <1>1
<1>3. worker' \in [scaler : 0..Len(training), disturbed : BOOLEAN]
  <2>1. 0 \in 0..Len(training) /\ worker \in [scaler : 0..Len(training), disturbed : BOOLEAN]
    BY MLTypes
  <2>2. Free \in [scaler : 0..Len(training), disturbed : BOOLEAN]
    BY <2>1 DEF Free
  <2> QED BY <2>1, <2>2
<1>4. MLTypeOK'
  BY <1>2, <1>3, MLTypes DEF MLInv, MLTypeOK, Trainings, Records
<1>5. OneFit' /\ FittedTogether'
  BY DEF MLInv, OneFit, FittedTogether
<1>6. WorkerUpToDate'
  BY DEF MLInv, WorkerUpToDate, Free
<1>7. NothingBefore'
  BY <1>2 DEF MLInv, NothingBefore
<1>8. ScoresOfOneTraining'
  BY <1>2 DEF MLInv, ScoresOfOneTraining
<1> QED BY <1>4, <1>5, <1>6, <1>7, <1>8 DEF MLInv

LEMMA CountKept ==
    ASSUME MLInv, NEW e \in Events, CountScore(e)
    PROVE  MLInv'
<1>1. call \in [Events -> Records] /\ call[e].stage = "computed"
  BY DEF MLInv, MLTypeOK, Records, CountScore
<1>2. /\ count' = count + 1
      /\ training' = IF (count + 1) % Interval = 0 THEN Append(training, "selecting") ELSE training
      /\ call' = [call EXCEPT ![e].stage = "scored"]
      /\ UNCHANGED <<stored, scaler, model, trained, fitting, jobs, worker, mlFailures>>
  BY DEF CountScore
<1>3. training # <<>> /\ count' \in Nat
  BY <1>1, <1>2, MLTypes DEF MLInv, NothingBefore
<1>4. /\ call' \in [Events -> Records]
      /\ \A d \in Events : /\ call'[d].scaler = call[d].scaler
                           /\ call'[d].model = call[d].model
                           /\ call'[d].disturbed = call[d].disturbed
                           /\ call'[d].stage = IF d = e THEN "scored" ELSE call[d].stage
  BY <1>1, <1>2 DEF Records
<1>5. ScoresOfOneTraining'
  BY <1>1, <1>4 DEF MLInv, ScoresOfOneTraining
<1>6. CASE (count + 1) % Interval = 0
  <2>1. training' = Append(training, "selecting") /\ "selecting" \in Stages
    BY <1>2, <1>6 DEF Stages
  <2>2. /\ training' \in Seq(Stages) /\ training' # <<>>
        /\ Len(training') = Len(training) + 1
        /\ \A j \in 1..Len(training) : training'[j] = training[j]
        /\ training'[Len(training) + 1] = "selecting"
    BY <2>1, MLTypes, AppendProperties
  <2>3. /\ DOMAIN training' = 1..Len(training')
        /\ 0..Len(training) \subseteq 0..Len(training')
        /\ DOMAIN training' = DOMAIN training \cup {Len(training) + 1}
    BY <2>2, MLTypes
  <2>4. MLTypeOK'
    BY <1>2, <1>3, <1>4, <2>2, <2>3, MLTypes DEF MLInv, MLTypeOK, Trainings, Stages, Records
  <2>5. OneFit'
    BY <1>2, <2>2, <2>3, MLTypes DEF MLInv, OneFit, Fitting
  <2>6. FittedTogether' /\ WorkerUpToDate' /\ NothingBefore'
    BY <1>2, <2>2 DEF MLInv, FittedTogether, WorkerUpToDate, NothingBefore
  <2> QED BY <1>5, <2>4, <2>5, <2>6 DEF MLInv
<1>7. CASE (count + 1) % Interval # 0
  <2>1. training' = training
    BY <1>2, <1>7
  <2>2. MLTypeOK'
    BY <1>2, <1>3, <1>4, <2>1, MLTypes DEF MLInv, MLTypeOK, Trainings, Records
  <2>3. OneFit' /\ FittedTogether' /\ WorkerUpToDate'
    BY <1>2, <2>1 DEF MLInv, OneFit, FittedTogether, WorkerUpToDate
  <2>4. NothingBefore'
    BY <1>3, <2>1 DEF NothingBefore
  <2> QED BY <1>5, <2>2, <2>3, <2>4 DEF MLInv
<1> QED BY <1>6, <1>7

LEMMA ScoringKept ==
    ASSUME MLInv, NEW e \in Events, ScoreNothing(e) \/ Score(e) \/ ReturnNone(e)
    PROVE  MLInv'
<1>1. call \in [Events -> Records]
  BY DEF MLInv, MLTypeOK, Records
<1>2. CASE ScoreNothing(e) \/ ReturnNone(e)
  <2> DEFINE c == [NoCall EXCEPT !.stage = "none"]
  <2>1. c \in Records /\ c.stage = "none"
    BY DEF NoCall, Records
  <2>2. /\ call' = [call EXCEPT ![e] = c]
        /\ UNCHANGED <<stored, scaler, model, trained, count, training, fitting, jobs, worker,
                       mlFailures>>
    BY <1>2 DEF ScoreNothing, ReturnNone, NoneReturned
  <2>3. (jobs # <<>> => training # <<>>) /\ (worker.scaler # 0 => jobs # <<>>)
    BY DEF MLInv, NothingBefore, WorkerUpToDate
  <2> HIDE DEF c
  <2> QED BY <2>1, <2>2, <2>3, MLTypes, CallGoesOn
<1>3. CASE Score(e)
  <2> DEFINE c == [call[e] EXCEPT !.stage = "queued"]
  <2>1. c \in Records /\ c.stage = "queued"
    BY <1>1 DEF Records
  <2>2. /\ call' = [call EXCEPT ![e] = c] /\ jobs' = Append(jobs, e) /\ model.of # 0
        /\ UNCHANGED <<stored, scaler, model, trained, count, training, fitting, worker, mlFailures>>
    BY <1>1, <1>3 DEF Score, HasModel
  <2>3. jobs' \in Seq(Events) /\ jobs' # <<>>
    BY <2>2, MLTypes, AppendProperties
  <2>4. training # <<>>
    BY <2>2, MLTypes
  <2> HIDE DEF c
  <2> QED BY <2>1, <2>2, <2>3, <2>4, CallGoesOn
<1> QED BY <1>2, <1>3

LEMMA WorkerKept ==
    ASSUME MLInv, WorkerStep
    PROVE  MLInv'
<1>1. CASE Transform
  <2>1. /\ jobs # <<>> /\ scaler.fitted /\ worker' = [scaler |-> scaler.of, disturbed |-> ~(fitting = 0)]
        /\ UNCHANGED <<stored, scaler, model, trained, count, training, fitting, jobs, call, mlFailures>>
    BY <1>1 DEF Transform, LoopIsFree
  <2>2. worker' \in [scaler : 0..Len(training), disturbed : BOOLEAN]
    BY <2>1, MLTypes
  <2>3. MLTypeOK'
    BY <2>1, <2>2, MLTypes DEF MLInv, MLTypeOK, Trainings
  <2>4. OneFit' /\ FittedTogether' /\ NothingBefore' /\ ScoresOfOneTraining'
    BY <2>1 DEF MLInv, OneFit, FittedTogether, NothingBefore, ScoresOfOneTraining
  <2>5. WorkerUpToDate'
    BY <2>1 DEF WorkerUpToDate
  <2> QED BY <2>3, <2>4, <2>5 DEF MLInv
<1>2. ASSUME jobs # <<>> PROVE /\ Head(jobs) \in Events /\ Tail(jobs) \in Seq(Events)
                               /\ training # <<>>
  BY <1>2, MLTypes, HeadTailProperties DEF MLInv, NothingBefore
<1>3. CASE Decide
  <2> DEFINE c == [stage |-> "computed", scaler |-> worker.scaler, model |-> model.of,
                   disturbed |-> worker.disturbed \/ ~(fitting = 0)]
  <2>1. /\ worker.scaler # 0 /\ model.fitted
        /\ call' = [call EXCEPT ![Head(jobs)] = c] /\ jobs' = Tail(jobs) /\ worker' = Free
        /\ UNCHANGED <<stored, scaler, model, trained, count, training, fitting, mlFailures>>
    BY <1>3 DEF Decide, LoopIsFree
  <2>2. jobs # <<>>
    BY <2>1 DEF MLInv, WorkerUpToDate
  <2>3. c \in Records
    BY MLTypes DEF Records
  <2>4. c.disturbed \/ c.scaler = c.model
    BY <2>1 DEF MLInv, WorkerUpToDate, FittedTogether
  <2>5. Free.scaler = 0
    BY DEF Free
  <2> HIDE DEF c
  <2> QED BY <1>2, <2>1, <2>2, <2>3, <2>4, <2>5, CallGoesOn
<1>4. CASE PredictRaises
  <2> DEFINE c == [NoCall EXCEPT !.stage = "raised"]
  <2>1. /\ jobs # <<>>
        /\ call' = [call EXCEPT ![Head(jobs)] = c] /\ jobs' = Tail(jobs) /\ worker' = Free
        /\ UNCHANGED <<stored, scaler, model, trained, count, training, fitting, mlFailures>>
    BY <1>4 DEF PredictRaises
  <2>2. c \in Records /\ c.stage = "raised"
    BY DEF NoCall, Records
  <2>3. Free.scaler = 0
    BY DEF Free
  <2> HIDE DEF c
  <2> QED BY <1>2, <2>1, <2>2, <2>3, CallGoesOn
<1> QED BY <1>1, <1>3, <1>4 DEF WorkerStep

-----------------------------------------------------------------------------
(* Start, end, and the theorems about the scorer. *)

LEMMA StartKept ==
    ASSUME MLInv, StartTraining
    PROVE  MLInv'
<1>1. /\ training = <<>> /\ training' = <<"selecting">>
      /\ UNCHANGED <<stored, scaler, model, trained, count, fitting, jobs, worker, call, mlFailures>>
  BY DEF StartTraining
<1>2. /\ training' \in Seq(Stages) /\ Len(training') = 1 /\ Len(training) = 0
      /\ DOMAIN training' = {1} /\ training'[1] = "selecting" /\ training' # <<>>
  BY <1>1 DEF Stages
<1>3. fitting = 0 /\ count = 0
  BY <1>1, <1>2, MLTypes DEF MLInv, NothingBefore
<1>4. MLTypeOK'
  BY <1>1, <1>2, MLTypes DEF MLInv, MLTypeOK, Trainings, Stages
<1>5. OneFit'
  BY <1>1, <1>2, <1>3 DEF OneFit, Fitting
<1>6. FittedTogether' /\ WorkerUpToDate' /\ NothingBefore' /\ ScoresOfOneTraining'
  BY <1>1, <1>2 DEF MLInv, FittedTogether, WorkerUpToDate, NothingBefore, ScoresOfOneTraining
<1> QED BY <1>4, <1>5, <1>6 DEF MLInv

LEMMA EngineEndKept ==
    ASSUME MLInv, EndEngine
    PROVE  MLInv'
<1>1. /\ scaler' = Nothing /\ model' = Nothing /\ trained' = FALSE /\ count' = 0
      /\ training' = <<>> /\ fitting' = 0 /\ jobs' = <<>> /\ worker' = Free
      /\ call' = [e \in Events |-> IF call[e].stage \in {"queued", "computed", "raised"}
                                   THEN [NoCall EXCEPT !.stage = "lost"] ELSE call[e]]
      /\ UNCHANGED <<stored, mlFailures>>
  BY DEF EndEngine
<1>2. call \in [Events -> Records] /\ [NoCall EXCEPT !.stage = "lost"] \in Records
      /\ [NoCall EXCEPT !.stage = "lost"].stage = "lost"
  BY DEF MLInv, MLTypeOK, Records, NoCall
<1>3. /\ call' \in [Events -> Records]
      /\ \A e \in Events : call'[e].stage \notin {"queued", "computed", "raised"}
      /\ \A e \in Events : call'[e] = call[e] \/ call'[e].stage = "lost"
  BY <1>1, <1>2
<1>4. MLTypeOK'
  <2>1. 0 \in Trainings'
    BY <1>1 DEF Trainings
  <2>2. training' \in Seq(Stages) /\ jobs' \in Seq(Events)
    BY <1>1
  <2> QED BY <1>1, <1>3, <2>1, <2>2, MLTypes
      DEF MLInv, MLTypeOK, Nothing, Free, Stages, Records
<1>5. OneFit' /\ FittedTogether' /\ WorkerUpToDate' /\ NothingBefore'
  BY <1>1, <1>3 DEF OneFit, FittedTogether, WorkerUpToDate, NothingBefore, Nothing, Free
<1>6. ScoresOfOneTraining'
  BY <1>1, <1>3 DEF MLInv, ScoresOfOneTraining
<1> QED BY <1>4, <1>5, <1>6 DEF MLInv

THEOREM ScorerInvariant == MLSpec => []MLInv
<1>1. ASSUME MLInv, [MLNext]_mlVars PROVE MLInv'
  <2>1. CASE StoreEvent
    <3>1. /\ stored' = stored + 1
          /\ UNCHANGED <<scaler, model, trained, count, training, fitting, jobs, worker, call,
                         mlFailures>>
      BY <2>1 DEF StoreEvent
    <3>2. MLTypeOK'
      BY <1>1, <3>1 DEF MLInv, MLTypeOK, Trainings
    <3> QED BY <1>1, <3>1, <3>2
        DEF MLInv, OneFit, FittedTogether, WorkerUpToDate, NothingBefore, ScoresOfOneTraining
  <2>2. CASE UNCHANGED mlVars
    <3>1. UNCHANGED <<stored, scaler, model, trained, count, training, fitting, jobs, worker, call,
                      mlFailures>>
      BY <2>2 DEF mlVars
    <3> QED BY <1>1, <3>1
        DEF MLInv, MLTypeOK, Trainings, OneFit, FittedTogether, WorkerUpToDate, NothingBefore,
            ScoresOfOneTraining
  <2>3. ASSUME NEW k \in DOMAIN training, TrainingStep(k) \/ TrainingFails(k) PROVE MLInv'
    BY <1>1, <2>3, TrainingKept
  <2>4. ASSUME NEW e \in Events, ScoreNothing(e) \/ Score(e) \/ CountScore(e) \/ ReturnNone(e)
        PROVE  MLInv'
    BY <1>1, <2>4, ScoringKept, CountKept
  <2> QED BY <1>1, <2>1, <2>2, <2>3, <2>4, StartKept, WorkerKept, EngineEndKept DEF MLNext
<1> QED BY MLInitInv, <1>1, PTL DEF MLSpec

\* Every variable of the scorer keeps its type.
THEOREM ScorerTypeCorrect == MLSpec => []MLTypeOK
<1>1. MLInv => MLTypeOK
  BY DEF MLInv
<1> QED BY ScorerInvariant, <1>1, PTL

\* However predictions, trainings and failing fits interleave, a score that no fit
\* disturbed comes from one training.
THEOREM ScoresAlwaysOfOneTraining == MLSpec => []ScoresOfOneTraining
<1>1. MLInv => ScoresOfOneTraining
  BY DEF MLInv
<1> QED BY ScorerInvariant, <1>1, PTL

\* However many events follow, a scorer that no fit is about to replace and that
\* lacks a fitted scaler or model is not trained again before the next start.
THEOREM OutOfUseAlwaysForGood == MLSpec => OutOfUseForGood
<1>1. ASSUME MLInv, OutOfUse, [MLNext]_mlVars PROVE OutOfUse' \/ training' = <<>>
  <2>1. /\ training # <<>> /\ \A k \in DOMAIN training : training[k] = "over"
        /\ ~(scaler.fitted /\ model.fitted)
        /\ worker.scaler = 0 \/ ~model.fitted
        /\ \A e \in Events : call[e].stage # "computed"
    BY <1>1 DEF OutOfUse
  <2>2. call \in [Events -> Records] /\ Free.scaler = 0
    BY <1>1 DEF MLInv, MLTypeOK, Records, Free
  <2>3. ASSUME UNCHANGED <<training, scaler, model>>,
               worker' = worker \/ worker' = Free \/ ~model.fitted,
               NEW d \in Events, NEW c \in Records, c.stage # "computed",
               UNCHANGED call \/ call' = [call EXCEPT ![d] = c]
        PROVE  OutOfUse'
    <3>1. \A e \in Events : call'[e].stage # "computed"
      BY <2>1, <2>2, <2>3
    <3> QED BY <2>1, <2>2, <2>3, <3>1 DEF OutOfUse
  <2>4. CASE UNCHANGED mlVars \/ StoreEvent
    BY <2>1, <2>4 DEF mlVars, StoreEvent, OutOfUse
  <2>5. ASSUME NEW k \in DOMAIN training, TrainingStep(k) \/ TrainingFails(k) PROVE FALSE
    BY <2>1, <2>5 DEF TrainingStep, TrainingFails, SelectRows, NewScaler, FitScaler, NewModel,
                      FitModel, SelectRowsFails, FitFails, TrainingAt
  <2>6. ASSUME NEW e \in Events, ScoreNothing(e) \/ ReturnNone(e) PROVE OutOfUse'
    <3> DEFINE c == [NoCall EXCEPT !.stage = "none"]
    <3>1. c \in Records /\ c.stage # "computed"
      BY DEF NoCall, Records
    <3>2. call' = [call EXCEPT ![e] = c] /\ UNCHANGED <<training, scaler, model, worker>>
      BY <2>6 DEF ScoreNothing, ReturnNone, NoneReturned
    <3> HIDE DEF c
    <3> QED BY <2>3, <3>1, <3>2
  <2>7. ASSUME NEW e \in Events, Score(e) PROVE OutOfUse'
    <3> DEFINE c == [call[e] EXCEPT !.stage = "queued"]
    <3>1. c \in Records /\ c.stage # "computed"
      BY <2>2 DEF Records
    <3>2. call' = [call EXCEPT ![e] = c] /\ UNCHANGED <<training, scaler, model, worker>>
      BY <2>2, <2>7 DEF Score
    <3> HIDE DEF c
    <3> QED BY <2>3, <3>1, <3>2
  <2>8. ASSUME NEW e \in Events PROVE ~CountScore(e)
    BY <2>1 DEF CountScore
  <2>9. CASE Transform
    BY <2>1, <2>9 DEF Transform, OutOfUse
  <2>10. ~Decide
    BY <2>1 DEF Decide
  <2>11. CASE PredictRaises
    <3> DEFINE c == [NoCall EXCEPT !.stage = "raised"]
    <3>1. c \in Records /\ c.stage # "computed"
      BY DEF NoCall, Records
    <3>2. /\ jobs # <<>> /\ call' = [call EXCEPT ![Head(jobs)] = c]
          /\ worker' = Free /\ UNCHANGED <<training, scaler, model>>
      BY <2>11 DEF PredictRaises
    <3>3. Head(jobs) \in Events
      BY <1>1, <3>2, MLTypes, HeadTailProperties
    <3> HIDE DEF c
    <3> QED BY <2>3, <3>1, <3>2, <3>3
  <2>12. ~StartTraining /\ (EndEngine => training' = <<>>)
    BY <2>1 DEF StartTraining, EndEngine
  <2> QED BY <1>1, <2>4, <2>5, <2>6, <2>7, <2>8, <2>9, <2>10, <2>11, <2>12
      DEF MLNext, WorkerStep
<1> QED BY ScorerInvariant, <1>1, PTL DEF MLSpec, OutOfUseForGood

-----------------------------------------------------------------------------
(* The service is the lifecycle and the scorer side by side: whatever it does *)
(* is a step of either that the module of each allows, or leaves it alone.    *)

LEMMA LoadKept == ServiceSpec => [](load \in Loads)
<1>1. ServiceInit => load \in Loads
  BY DEF ServiceInit
<1>2. ASSUME load \in Loads, [ServiceNext]_allVars PROVE (load \in Loads)'
  <2>1. ServiceNext => load' = load
    BY DEF ServiceNext, SeedBaselines, StartGrouping, Schedule, AnalysisStep, Analyze,
           AnalyzeUnscored, ScoreReturned, NoneReturns, Persist, RaiseRisk, Analyzing, Retrain,
           RetrainFails, Training, Predict, Engine, Admins, AdminsFail, Grouping, GroupingFails,
           OtherTask, Ends, Restart, serviceVars
  <2>2. UNCHANGED allVars => load' = load
    BY DEF allVars, serviceVars
  <2> QED BY <1>2, <2>1, <2>2
<1> QED BY <1>1, <1>2, PTL DEF ServiceSpec

LEMMA LifecycleGoesOn ==
    ASSUME load \in Loads, ServiceNext
    PROVE  Next \/ UNCHANGED vars
<1>1. CASE \/ SeedBaselines \/ StartGrouping \/ Retrain \/ RetrainFails \/ Predict \/ Restart
           \/ \E e \in Events : Schedule(e) \/ AnalysisStep(e)
  BY <1>1 DEF SeedBaselines, StartGrouping, Schedule, AnalysisStep, Analyze, AnalyzeUnscored,
              ScoreReturned, NoneReturns, Persist, RaiseRisk, Analyzing, Retrain, RetrainFails,
              Training, Predict, Restart, lifecycleKept
<1>2. load.alerts \subseteq Alerts /\ load.requests \subseteq Requests
  BY ServiceAssumption
<1>3. CASE Engine
  BY <1>2, <1>3 DEF Engine, OtherTask, Next
<1>4. CASE Admins \/ AdminsFail
  BY <1>2, <1>4 DEF Admins, AdminsFail, OtherTask, Next
<1>5. CASE Grouping \/ GroupingFails \/ Ends
  BY <1>5 DEF Grouping, GroupingFails, OtherTask, Ends, Next
<1> QED BY <1>1, <1>3, <1>4, <1>5 DEF ServiceNext

LEMMA ScorerGoesOn ==
    ASSUME ServiceNext
    PROVE  MLNext \/ UNCHANGED mlVars
<1>1. CASE \/ StartGrouping \/ Engine \/ Admins \/ AdminsFail \/ Grouping \/ GroupingFails
           \/ Restart
  BY <1>1 DEF StartGrouping, Engine, Admins, AdminsFail, Grouping, GroupingFails, OtherTask,
              Restart, mlKept
<1>2. CASE SeedBaselines \/ Predict \/ Ends
  BY <1>2 DEF SeedBaselines, Predict, Ends, MLNext
<1>3. CASE Retrain \/ RetrainFails
  BY <1>3 DEF Retrain, RetrainFails, Training, MLNext
<1>4. ASSUME NEW e \in Events, Schedule(e) \/ AnalysisStep(e)
      PROVE  MLNext \/ UNCHANGED mlVars
  BY <1>4 DEF Schedule, AnalysisStep, Analyze, AnalyzeUnscored, ScoreReturned, NoneReturns,
              Persist, RaiseRisk, Analyzing, mlKept, MLNext
<1> QED BY <1>1, <1>2, <1>3, <1>4 DEF ServiceNext

\* The alerts behind the analysis service live the life AlertLifecycle specifies.
THEOREM ServiceKeepsLifecycle == ServiceSpec => Spec
<1>1. ServiceInit => Init
  BY DEF ServiceInit
<1>2. load \in Loads /\ [ServiceNext]_allVars => [Next]_vars
  <2>1. UNCHANGED allVars => UNCHANGED vars
    BY DEF allVars
  <2> QED BY <2>1, LifecycleGoesOn
<1> QED BY <1>1, <1>2, LoadKept, PTL DEF ServiceSpec, Spec

\* The scorer inside the analysis service is the one MLEngine specifies.
THEOREM ServiceKeepsScorer == ServiceSpec => MLSpec
<1>1. ServiceInit => MLInit
  BY DEF ServiceInit
<1>2. [ServiceNext]_allVars => [MLNext]_mlVars
  <2>1. UNCHANGED allVars => UNCHANGED mlVars
    BY DEF allVars
  <2> QED BY <2>1, ScorerGoesOn
<1> QED BY <1>1, <1>2, PTL DEF ServiceSpec, MLSpec

\* So what is proved of either holds of the whole service, restarts included.
THEOREM ServiceCorrect ==
    ServiceSpec => /\ [](/\ DecisionsStand /\ ClosedAlertsStamped /\ ClosedAlertsSettle
                         /\ ScoresOfOneTraining)
                   /\ OutOfUseForGood
BY ServiceKeepsLifecycle, ServiceKeepsScorer, DecisionsAlwaysStand, ClosedAlertsAlwaysStamped,
   ClosedAlertsAlwaysSettle, ScoresAlwaysOfOneTraining, OutOfUseAlwaysForGood, PTL
=============================================================================
