--------------------------- MODULE RuleSyncProofs --------------------------
(***************************************************************************)
(* Proofs about RuleSync, for any number of concurrent requests and any    *)
(* rules: the engine only ever runs contents that were committed as        *)
(* active, and an engine out of step with the table has a reload on its    *)
(* way that nothing overtook, or a load that crossed or failed behind it.  *)
(***************************************************************************)
EXTENDS RuleSync, TLAPS

\* A row has a content, and an active row was committed as active.
TableCommitted ==
    \A r \in Rules :
        /\ db[r].status # "none" => db[r].ver # 0
        /\ db[r].status = "active" => <<r, db[r].ver>> \in committed

\* What a request holds of active rules was committed: the rows it selected
\* and its session's copy of its own rule.
RequestCommitted(a) ==
    /\ \A r \in Rules : req[a].found[r] # 0 => <<r, req[a].found[r]>> \in committed
    /\ req[a].copy.status = "active" => <<req[a].rule, req[a].copy.ver>> \in committed

\* Until another request commits, a refreshed copy is the row and the selected
\* rows are the active ones.
RequestCurrent(a) ==
    /\ req[a].op = "delete" => req[a].copy = NoRow
    /\ req[a].pc = "refreshed" /\ ~req[a].overtaken =>
           req[a].op = "delete" \/ req[a].copy = db[req[a].rule]
    /\ req[a].pc = "selected" /\ ~req[a].overtaken => req[a].found = Active(db)

SyncInv ==
    /\ TypeOK
    /\ TableCommitted
    /\ EngineRunsCommittedRules
    /\ \A a \in Admins : req[a] # NoRequest => RequestCommitted(a) /\ RequestCurrent(a)

-----------------------------------------------------------------------------
(* Facts about the operators. *)

\* A busy request is not the absent one.
LEMMA BusyRequest ==
    ASSUME TypeOK, NEW a \in Admins, req[a] # NoRequest
    PROVE  req[a] \in Requests
BY DEF TypeOK

LEMMA NewRequestType ==
    ASSUME RuleAssumption,
           NEW op \in {"create", "update", "toggle", "delete"}, NEW r \in Rules,
           NEW want \in Statuses \cup {"unset"},
           NEW pc \in {"read", "committed", "refreshed", "selected", "notfound"},
           NEW copy \in Row
    PROVE  /\ NewRequest(op, r, want, pc, copy) \in Requests
           /\ NewRequest(op, r, want, pc, copy) # NoRequest
<1>1. Unloaded \in [Rules -> 0..MaxWrites + 1]
  BY DEF Unloaded, RuleAssumption
<1>2. NewRequest(op, r, want, pc, copy) \in Requests
  BY <1>1 DEF NewRequest, Requests
<1>3. NewRequest(op, r, want, pc, copy).pc = pc /\ NoRequest.pc = "idle"
  BY DEF NewRequest, NoRequest
<1>4. QED
  BY <1>2, <1>3

\* The rules the table says are active, with their versions.
LEMMA ActiveType ==
    ASSUME db \in [Rules -> Row], RuleAssumption
    PROVE  Active(db) \in [Rules -> 0..MaxWrites + 1]
BY DEF Active, Row, RuleAssumption

-----------------------------------------------------------------------------
(* Commits. *)

\* What any commit of a type-correct row does to the invariant, given the
\* request that makes it.
LEMMA CommitInv ==
    ASSUME SyncInv, NEW a \in Admins, NEW row \in Row, NEW next \in Requests,
           Commit(a, row, next),
           UNCHANGED <<engine, attached, astray, failures, restarts>>,
           row.status # "none" => row.ver \in 1..MaxWrites + 1,
           next # NoRequest,
           next.pc \in {"read", "committed", "notfound"},
           next.op = "delete" => next.copy = NoRow,
           \A r \in Rules : next.found[r] # 0 => <<r, next.found[r]>> \in committed,
           next.copy.status = "active" => <<next.rule, next.copy.ver>> \in committed
    PROVE  SyncInv'
<1> USE RuleAssumption DEF RuleAssumption
<1>1. /\ TypeOK /\ next.rule \in Rules /\ db \in [Rules -> Row]
      /\ db' = [db EXCEPT ![next.rule] = row]
      /\ writes' = writes + 1 /\ writes < MaxWrites
      /\ committed \subseteq committed'
      /\ committed' \subseteq committed \cup {<<next.rule, row.ver>>}
      /\ row.status = "active" => <<next.rule, row.ver>> \in committed'
      /\ row.status # "active" => committed' = committed
  BY DEF SyncInv, TypeOK, Commit, Requests
<1>2. /\ req'[a] = next
      /\ \A b \in Admins \ {a} : req[b] = NoRequest => req'[b] = NoRequest
      /\ \A b \in Admins \ {a} : req[b] # NoRequest =>
             req'[b] = [req[b] EXCEPT !.overtaken = TRUE]
      /\ DOMAIN req' = Admins /\ req' = [b \in Admins |-> req'[b]]
  BY DEF Commit
<1>3. ASSUME NEW b \in Admins \ {a}, req[b] # NoRequest
      PROVE  /\ req'[b] \in Requests
             /\ req'[b].pc = req[b].pc /\ req'[b].op = req[b].op
             /\ req'[b].rule = req[b].rule /\ req'[b].copy = req[b].copy
             /\ req'[b].found = req[b].found /\ req'[b].overtaken = TRUE
  <2>1. req[b] \in Requests
    BY <1>1, <1>3, BusyRequest
  <2>2. req'[b] = [req[b] EXCEPT !.overtaken = TRUE]
    BY <1>2, <1>3
  <2>3. QED
    BY <2>1, <2>2 DEF Requests
<1>4. TypeOK'
  <2>1. db' \in [Rules -> Row]
    BY <1>1
  <2>2. \A b \in Admins : req'[b] \in Requests \cup {NoRequest}
    BY <1>2, <1>3
  <2>3. req' \in [Admins -> Requests \cup {NoRequest}]
    BY <1>2, <2>2
  <2>4. committed' \subseteq Rules \X (1..MaxWrites + 1)
    BY <1>1 DEF TypeOK
  <2>5. writes' \in 0..MaxWrites
    BY <1>1 DEF TypeOK
  <2>6. QED
    BY <1>1, <2>1, <2>3, <2>4, <2>5 DEF TypeOK
<1>5. TableCommitted'
  BY <1>1 DEF SyncInv, TableCommitted
<1>6. EngineRunsCommittedRules'
  BY <1>1 DEF SyncInv, EngineRunsCommittedRules
<1>7. ASSUME NEW b \in Admins, req'[b] # NoRequest
      PROVE  RequestCommitted(b)' /\ RequestCurrent(b)'
  <2>1. CASE b = a
    BY <1>1, <1>2, <2>1 DEF RequestCommitted, RequestCurrent
  <2>2. CASE b # a
    <3>1. req[b] # NoRequest
      BY <1>2, <1>7, <2>2
    <3>2. RequestCommitted(b) /\ RequestCurrent(b)
      BY <3>1 DEF SyncInv
    <3>3. QED
      BY <1>1, <1>3, <2>2, <3>1, <3>2 DEF RequestCommitted, RequestCurrent
  <2>3. QED
    BY <2>1, <2>2
<1>8. QED
  BY <1>4, <1>5, <1>6, <1>7 DEF SyncInv

-----------------------------------------------------------------------------
(* Steps that commit nothing. *)

\* A step that leaves the table alone and moves one request on.
LEMMA RequestStepInv ==
    ASSUME SyncInv, NEW a \in Admins, NEW q \in Requests \cup {NoRequest},
           req' = [req EXCEPT ![a] = q],
           UNCHANGED <<db, attached, writes, committed, restarts>>,
           failures' \in 0..MaxFailures, astray' \in BOOLEAN,
           engine' \in [Rules -> 0..MaxWrites + 1],
           \A r \in Rules : engine'[r] # 0 => <<r, engine'[r]>> \in committed,
           q # NoRequest =>
               /\ \A r \in Rules : q.found[r] # 0 => <<r, q.found[r]>> \in committed
               /\ q.copy.status = "active" => <<q.rule, q.copy.ver>> \in committed
               /\ q.op = "delete" => q.copy = NoRow
               /\ q.pc = "refreshed" /\ ~q.overtaken =>
                      q.op = "delete" \/ q.copy = db[q.rule]
               /\ q.pc = "selected" /\ ~q.overtaken => q.found = Active(db)
    PROVE  SyncInv'
<1>1. req'[a] = q /\ \A b \in Admins \ {a} : req'[b] = req[b]
  BY DEF SyncInv, TypeOK
<1>2. TypeOK'
  BY DEF SyncInv, TypeOK
<1>3. TableCommitted' /\ EngineRunsCommittedRules'
  BY DEF SyncInv, TableCommitted, EngineRunsCommittedRules
<1>4. Active(db)' = Active(db)
  BY DEF Active
<1>5. ASSUME NEW b \in Admins, req'[b] # NoRequest
      PROVE  RequestCommitted(b)' /\ RequestCurrent(b)'
  <2>1. CASE b = a
    BY <1>1, <1>4, <1>5, <2>1 DEF RequestCommitted, RequestCurrent
  <2>2. CASE b # a
    BY <1>1, <1>4, <1>5, <2>2 DEF SyncInv, RequestCommitted, RequestCurrent
  <2>3. QED
    BY <2>1, <2>2
<1>6. QED
  BY <1>2, <1>3, <1>5 DEF SyncInv

\* A request that ends, and leaves the engine alone.
LEMMA FinishInv ==
    ASSUME SyncInv, NEW a \in Admins, Finish(a),
           UNCHANGED <<db, engine, attached, writes, committed, restarts>>,
           failures' \in 0..MaxFailures, astray' \in BOOLEAN
    PROVE  SyncInv'
<1>1. engine \in [Rules -> 0..MaxWrites + 1] /\ EngineRunsCommittedRules
  BY DEF SyncInv, TypeOK
<1>2. QED
  BY <1>1, RequestStepInv DEF Finish, EngineRunsCommittedRules

LEMMA InitInv == Init => SyncInv
<1> SUFFICES ASSUME Init PROVE SyncInv
  OBVIOUS
<1>1. db \in [Rules -> Row]
  BY RuleAssumption DEF Init, Row, NoRow, RuleAssumption, Statuses
<1>2. committed \subseteq Rules \X (1..MaxWrites + 1)
  BY RuleAssumption DEF Init, RuleAssumption
<1>3. engine \in [Rules -> 0..MaxWrites + 1]
  BY <1>1, ActiveType, RuleAssumption DEF Init
<1>4. TypeOK
  <2>1. attached \in BOOLEAN /\ astray \in BOOLEAN
    BY DEF Init
  <2>2. /\ req \in [Admins -> Requests \cup {NoRequest}]
        /\ writes \in 0..MaxWrites /\ failures \in 0..MaxFailures /\ restarts \in 0..MaxRestarts
    BY RuleAssumption DEF Init, RuleAssumption
  <2>3. QED
    BY <1>1, <1>2, <1>3, <2>1, <2>2 DEF TypeOK
<1>5. TableCommitted
  BY DEF Init, TableCommitted, NoRow
<1>6. EngineRunsCommittedRules
  BY <1>5 DEF Init, EngineRunsCommittedRules, TableCommitted, Active
<1>7. QED
  BY <1>4, <1>5, <1>6 DEF Init, SyncInv

\* What the selected rows, merged with the session's copy, are.
FoundBy(a) ==
    LET own == req[a].rule
        copy == req[a].copy
        rows == Active(db)
    IN  IF rows[own] = 0 \/ copy = NoRow THEN rows
        ELSE [rows EXCEPT ![own] = IF copy.status = "active" THEN copy.ver ELSE 0]

LEMMA FoundByFacts ==
    ASSUME SyncInv, NEW a \in Admins, Busy(a, "refreshed")
    PROVE  /\ FoundBy(a) \in [Rules -> 0..MaxWrites + 1]
           /\ \A r \in Rules : FoundBy(a)[r] # 0 => <<r, FoundBy(a)[r]>> \in committed
           /\ ~req[a].overtaken => FoundBy(a) = Active(db)
<1>1. /\ db \in [Rules -> Row] /\ req[a] \in Requests /\ req[a].pc = "refreshed"
      /\ RequestCommitted(a) /\ RequestCurrent(a) /\ TableCommitted
  BY BusyRequest DEF SyncInv, TypeOK, Busy
<1>2. req[a].rule \in Rules /\ req[a].copy \in Row
  BY <1>1 DEF Requests
<1>3. /\ Active(db) \in [Rules -> 0..MaxWrites + 1]
      /\ \A r \in Rules : Active(db)[r] # 0 =>
             db[r].status = "active" /\ Active(db)[r] = db[r].ver
  BY <1>1, ActiveType, RuleAssumption DEF Active
<1>4. req[a].copy.ver \in 0..MaxWrites + 1 /\ 0 \in 0..MaxWrites + 1
  BY <1>2, RuleAssumption DEF Row, RuleAssumption
<1>5. FoundBy(a) \in [Rules -> 0..MaxWrites + 1]
  BY <1>2, <1>3, <1>4 DEF FoundBy
<1>6. \A r \in Rules : FoundBy(a)[r] # 0 => <<r, FoundBy(a)[r]>> \in committed
  BY <1>1, <1>2, <1>3 DEF FoundBy, RequestCommitted, TableCommitted
<1>7. ASSUME ~req[a].overtaken
      PROVE  FoundBy(a) = Active(db)
  <2>1. req[a].copy = NoRow \/ req[a].copy = db[req[a].rule]
    BY <1>1, <1>7 DEF RequestCurrent
  <2>2. QED
    BY <1>2, <1>3, <2>1 DEF FoundBy
<1>8. QED
  BY <1>5, <1>6, <1>7

LEMMA NextInv ==
    ASSUME SyncInv, [Next]_vars
    PROVE  SyncInv'
<1> USE RuleAssumption
<1>0. /\ TypeOK /\ TableCommitted /\ EngineRunsCommittedRules
      /\ writes \in 0..MaxWrites /\ MaxWrites \in Nat
      /\ db \in [Rules -> Row] /\ engine \in [Rules -> 0..MaxWrites + 1]
      /\ failures \in 0..MaxFailures /\ astray \in BOOLEAN
      /\ \A r \in Rules : engine[r] # 0 => <<r, engine[r]>> \in committed
      /\ NoRow \in Row /\ NoRow.status = "none"
      /\ \A r \in Rules : Unloaded[r] = 0
  BY DEF SyncInv, TypeOK, EngineRunsCommittedRules, NoRow, Row, Unloaded, RuleAssumption
<1>1. ASSUME NEW a \in Admins, NEW r \in Rules, NEW status \in Statuses,
             CreateRule(a, r, status)
      PROVE  SyncInv'
  <2> DEFINE q == NewRequest("create", r, status, "committed", NoRow)
  <2> DEFINE row == [status |-> status, ver |-> NextVersion]
  <2>1. q \in Requests /\ q # NoRequest
    BY <1>0, NewRequestType
  <2>2. /\ q.pc = "committed" /\ q.op = "create" /\ q.copy = NoRow /\ q.found = Unloaded
    BY DEF NewRequest
  <2>3. writes < MaxWrites /\ Commit(a, row, q) /\ UNCHANGED <<engine, attached, astray, failures, restarts>>
    BY <1>1 DEF CreateRule, Commit
  <2>4. row \in Row /\ row.ver \in 1..MaxWrites + 1
    BY <1>0, <2>3 DEF NextVersion, Row
  <2> HIDE DEF q, row
  <2>5. QED
    BY <1>0, <2>1, <2>2, <2>3, <2>4, CommitInv
<1>2. ASSUME NEW a \in Admins, NEW r \in Rules, NEW op \in {"update", "toggle"},
             NEW want \in Statuses \cup {"unset"}, ReadRule(a, op, r, want)
      PROVE  SyncInv'
  <2> DEFINE q == NewRequest(op, r, want, "read", db[r])
  <2>1. q \in Requests /\ q # NoRequest
    BY <1>0, NewRequestType
  <2>2. q.pc = "read" /\ q.op = op /\ q.rule = r /\ q.copy = db[r] /\ q.found = Unloaded
    BY DEF NewRequest
  <2>3. req' = [req EXCEPT ![a] = q] /\ UNCHANGED <<db, engine, attached, writes, committed, astray, failures, restarts>>
    BY <1>2 DEF ReadRule
  <2> HIDE DEF q
  <2>4. QED
    BY <1>0, <2>1, <2>2, <2>3, RequestStepInv DEF TableCommitted
<1>3. ASSUME NEW a \in Admins, WriteRule(a)
      PROVE  SyncInv'
  <2> DEFINE q == [req[a] EXCEPT !.pc = "committed", !.overtaken = FALSE]
  <2> DEFINE row == Updated(db[req[a].rule], req[a])
  <2>1. /\ req[a] # NoRequest /\ req[a].pc = "read"
        /\ writes < MaxWrites /\ Commit(a, row, q) /\ UNCHANGED <<engine, attached, astray, failures, restarts>>
        /\ db[req[a].rule].status # "none"
    BY <1>3 DEF WriteRule, Busy, Commit
  <2>2. req[a] \in Requests /\ RequestCommitted(a) /\ RequestCurrent(a)
    BY <1>0, <2>1, BusyRequest DEF SyncInv
  <2>3. /\ q \in Requests /\ q.pc = "committed" /\ q.op = req[a].op
        /\ q.copy = req[a].copy /\ q.found = req[a].found /\ q.rule = req[a].rule
    BY <2>2 DEF Requests
  <2>4. q # NoRequest
    <3>1. NoRequest.pc = "idle"
      BY DEF NoRequest
    <3>2. QED
      BY <2>3, <3>1
  <2>5. row \in Row /\ (row.status # "none" => row.ver \in 1..MaxWrites + 1)
    <3>1. req[a].rule \in Rules /\ db[req[a].rule] \in Row /\ req[a].want \in Statuses \cup {"unset"}
      BY <1>0, <2>2 DEF Requests
    <3>2. NextVersion \in 1..MaxWrites + 1
      BY <1>0, <2>1 DEF NextVersion
    <3>3. row \in Row
      BY <3>1, <3>2 DEF Updated, Row, Statuses
    <3>4. row.ver # 0
      <4>1. row.ver = IF req[a].op = "update" THEN NextVersion ELSE db[req[a].rule].ver
        BY DEF Updated
      <4>2. db[req[a].rule].ver # 0
        <5>1. \A r \in Rules : db[r].status # "none" => db[r].ver # 0
          BY <1>0 DEF TableCommitted
        <5>2. QED
          BY <2>1, <3>1, <5>1
      <4>3. NextVersion # 0
        BY <3>2
      <4>4. QED
        BY <4>1, <4>2, <4>3
    <3>5. QED
      BY <3>3, <3>4 DEF Row
  <2> HIDE DEF q, row
  <2>6. QED
    BY <2>1, <2>2, <2>3, <2>4, <2>5, CommitInv DEF RequestCommitted, RequestCurrent
<1>4. ASSUME NEW a \in Admins, RowVanished(a) \/ AnswerNotFound(a) \/ SkipReload(a)
      PROVE  SyncInv'
  BY <1>0, <1>4, FinishInv DEF RowVanished, AnswerNotFound, SkipReload
<1>5. ASSUME NEW a \in Admins, NEW r \in Rules, DeleteRule(a, r)
      PROVE  SyncInv'
  <2> DEFINE q == NewRequest("delete", r, "unset", "committed", NoRow)
  <2> DEFINE row == [db[r] EXCEPT !.status = "none"]
  <2>1. q \in Requests /\ q # NoRequest
    BY <1>0, NewRequestType
  <2>2. q.pc = "committed" /\ q.copy = NoRow /\ q.found = Unloaded
    BY DEF NewRequest
  <2>3. Commit(a, row, q) /\ UNCHANGED <<engine, attached, astray, failures, restarts>>
    BY <1>5 DEF DeleteRule
  <2>4. row \in Row /\ row.status = "none"
    BY <1>0 DEF Row
  <2> HIDE DEF q, row
  <2>5. QED
    BY <1>0, <2>1, <2>2, <2>3, <2>4, CommitInv
<1>6. ASSUME NEW a \in Admins, NEW r \in Rules, DeleteNotFound(a, r)
      PROVE  SyncInv'
  <2> DEFINE q == NewRequest("delete", r, "unset", "notfound", NoRow)
  <2>1. q \in Requests /\ q # NoRequest
    BY <1>0, NewRequestType
  <2>2. q.pc = "notfound" /\ q.copy = NoRow /\ q.found = Unloaded
    BY DEF NewRequest
  <2>3. req' = [req EXCEPT ![a] = q] /\ UNCHANGED <<db, engine, attached, writes, committed, astray, failures, restarts>>
    BY <1>6 DEF DeleteNotFound
  <2> HIDE DEF q
  <2>4. QED
    BY <1>0, <2>1, <2>2, <2>3, RequestStepInv
<1>7. ASSUME NEW a \in Admins, RefreshCopy(a)
      PROVE  SyncInv'
  <2> DEFINE copy == IF req[a].op = "delete" THEN req[a].copy ELSE db[req[a].rule]
  <2> DEFINE q == [req[a] EXCEPT !.pc = "refreshed", !.overtaken = FALSE, !.copy = copy]
  <2>1. req[a] # NoRequest /\ req[a] \in Requests /\ RequestCommitted(a) /\ RequestCurrent(a)
    BY <1>0, <1>7, BusyRequest DEF RefreshCopy, Busy, SyncInv
  <2>2. copy \in Row
    BY <1>0, <2>1 DEF Requests
  <2>3. /\ q \in Requests /\ q.pc = "refreshed" /\ q.op = req[a].op
        /\ q.copy = copy /\ q.found = req[a].found /\ q.rule = req[a].rule
    BY <2>1, <2>2 DEF Requests
  <2>4. req' = [req EXCEPT ![a] = q] /\ UNCHANGED <<db, engine, attached, writes, committed, astray, failures, restarts>>
    BY <1>0, <1>7, <2>1 DEF RefreshCopy, TypeOK, Requests
  <2>5. req[a].rule \in Rules
    BY <2>1 DEF Requests
  <2> HIDE DEF q
  <2>6. QED
    BY <1>0, <2>1, <2>3, <2>4, <2>5, RequestStepInv
       DEF RequestCommitted, RequestCurrent, TableCommitted
<1>8. ASSUME NEW a \in Admins, SelectActive(a)
      PROVE  SyncInv'
  <2> DEFINE q == [req[a] EXCEPT !.pc = "selected", !.found = FoundBy(a)]
  <2>1. /\ req[a] # NoRequest /\ req[a] \in Requests /\ RequestCommitted(a)
        /\ RequestCurrent(a) /\ Busy(a, "refreshed")
    BY <1>0, <1>8, BusyRequest DEF SelectActive, Busy, SyncInv
  <2>2. /\ FoundBy(a) \in [Rules -> 0..MaxWrites + 1]
        /\ \A r \in Rules : FoundBy(a)[r] # 0 => <<r, FoundBy(a)[r]>> \in committed
        /\ ~req[a].overtaken => FoundBy(a) = Active(db)
    BY <2>1, FoundByFacts
  <2>3. /\ q \in Requests /\ q.pc = "selected" /\ q.op = req[a].op /\ q.copy = req[a].copy
        /\ q.found = FoundBy(a) /\ q.rule = req[a].rule /\ q.overtaken = req[a].overtaken
    BY <2>1, <2>2 DEF Requests
  <2>4. req' = [req EXCEPT ![a] = q] /\ UNCHANGED <<db, engine, attached, writes, committed, astray, failures, restarts>>
    BY <1>8 DEF SelectActive, FoundBy
  <2> HIDE DEF q
  <2>5. QED
    BY <1>0, <2>1, <2>2, <2>3, <2>4, RequestStepInv DEF RequestCommitted, RequestCurrent
<1>9. ASSUME NEW a \in Admins, LoadEngine(a)
      PROVE  SyncInv'
  <2>1. req[a] \in Requests /\ RequestCommitted(a)
    BY <1>0, <1>9, BusyRequest DEF LoadEngine, Busy, SyncInv
  <2>2. /\ engine' = req[a].found /\ req' = [req EXCEPT ![a] = NoRequest]
        /\ UNCHANGED <<db, attached, writes, committed, failures, restarts>>
        /\ astray' = req[a].overtaken
    BY <1>9 DEF LoadEngine, Finish
  <2>3. engine' \in [Rules -> 0..MaxWrites + 1] /\ astray' \in BOOLEAN
    BY <2>1, <2>2 DEF Requests
  <2>4. QED
    BY <1>0, <2>1, <2>2, <2>3, RequestStepInv DEF RequestCommitted
<1>10. ASSUME NEW a \in Admins, ReloadFails(a) \/ UpdateFails(a)
       PROVE  SyncInv'
  <2>1. failures' \in 0..MaxFailures
    BY <1>0, <1>10 DEF ReloadFails, UpdateFails, RuleAssumption
  <2>2. astray' \in BOOLEAN
    BY <1>10, Zenon DEF ReloadFails, UpdateFails
  <2>3. QED
    BY <1>10, <2>1, <2>2, FinishInv DEF ReloadFails, UpdateFails
<1>11. ASSUME NEW a \in Admins, ToggleMissesRow(a)
       PROVE  SyncInv'
  <2> DEFINE q == [req[a] EXCEPT !.pc = "refreshed", !.overtaken = FALSE,
                                 !.copy = db[req[a].rule]]
  <2>1. req[a] # NoRequest /\ req[a] \in Requests /\ RequestCommitted(a) /\ RequestCurrent(a)
        /\ req[a].op = "toggle"
    BY <1>0, <1>11, BusyRequest DEF ToggleMissesRow, Busy, SyncInv
  <2>2. req[a].rule \in Rules /\ db[req[a].rule] \in Row
    BY <1>0, <2>1 DEF Requests
  <2>3. /\ q \in Requests /\ q.pc = "refreshed" /\ q.op = "toggle"
        /\ q.copy = db[req[a].rule] /\ q.found = req[a].found /\ q.rule = req[a].rule
    BY <2>1, <2>2 DEF Requests
  <2>4. req' = [req EXCEPT ![a] = q] /\ UNCHANGED <<db, engine, attached, writes, committed, astray, failures, restarts>>
    BY <1>0, <1>11, <2>1 DEF ToggleMissesRow, TypeOK, Requests
  <2> HIDE DEF q
  <2>5. QED
    BY <1>0, <2>1, <2>2, <2>3, <2>4, RequestStepInv
       DEF RequestCommitted, TableCommitted
<1>12. CASE Restart \/ RestartUnread
  <2>1. /\ engine' = Active(db) \/ engine' = Unloaded
        /\ UNCHANGED <<db, writes, committed>>
        /\ req' = [a \in Admins |-> NoRequest]
        /\ attached' \in BOOLEAN /\ astray' \in BOOLEAN
    BY <1>12 DEF Restart, RestartUnread
  <2>2. failures' \in 0..MaxFailures /\ restarts' \in 0..MaxRestarts
    BY <1>12 DEF Restart, RestartUnread, SyncInv, TypeOK, RuleAssumption
  <2>3. Unloaded \in [Rules -> 0..MaxWrites + 1]
    BY DEF Unloaded, RuleAssumption
  <2>4. TypeOK'
    BY <1>0, <2>1, <2>3, <2>2, ActiveType DEF TypeOK
  <2>5. EngineRunsCommittedRules'
    BY <1>0, <2>1 DEF EngineRunsCommittedRules, Active, TableCommitted
  <2>6. QED
    BY <1>0, <2>1, <2>4, <2>5 DEF SyncInv, TableCommitted
<1>13. CASE UNCHANGED vars
  BY <1>13 DEF vars, SyncInv, TypeOK, TableCommitted, EngineRunsCommittedRules,
               RequestCommitted, RequestCurrent, Active
<1>14. QED
  BY <1>1, <1>2, <1>3, <1>4, <1>5, <1>6, <1>7, <1>8, <1>9, <1>10, <1>11, <1>12, <1>13 DEF Next

-----------------------------------------------------------------------------
(* The theorems. *)

\* Every reachable state satisfies the inductive invariant.
THEOREM InvariantHolds == Spec => []SyncInv
<1>1. Init => SyncInv
  BY InitInv
<1>2. SyncInv /\ [Next]_vars => SyncInv'
  BY NextInv
<1>3. QED
  BY <1>1, <1>2, PTL DEF Spec

\* Tables, requests and the engine's memory keep their types.
THEOREM TypeCorrect == Spec => []TypeOK
<1>1. SyncInv => TypeOK
  BY DEF SyncInv
<1>2. QED
  BY <1>1, InvariantHolds, PTL

\* The engine runs only contents that were committed as active rules.
THEOREM NeverRunsUncommitted == Spec => []EngineRunsCommittedRules
<1>1. SyncInv => EngineRunsCommittedRules
  BY DEF SyncInv
<1>2. QED
  BY <1>1, InvariantHolds, PTL

\* A reload no other commit overtook leaves the engine exactly in step with the
\* table, whatever races came before it.
LEMMA QuietReload ==
    ASSUME SyncInv, NEW a \in Admins, LoadEngine(a), ~req[a].overtaken
    PROVE  engine' = Active(db)'
<1>1. req[a] # NoRequest /\ req[a].pc = "selected" /\ engine' = req[a].found /\ db' = db
  BY DEF LoadEngine, Busy
<1>2. RequestCurrent(a)
  BY <1>1 DEF SyncInv
<1> QED BY <1>1, <1>2 DEF RequestCurrent, Active

-----------------------------------------------------------------------------
(* Why the engine is out of step. *)

\* The row a request has just written is there until another one commits, and
\* only an attached engine is given rows.
StaleInv ==
    /\ StalenessExplained
    /\ \A a \in Admins : req[a] # NoRequest =>
           /\ req[a].pc = "committed" /\ req[a].op # "delete" /\ ~req[a].overtaken =>
                  db[req[a].rule].status # "none"
           /\ req[a].pc = "selected" => attached

\* A step that moves one request on and keeps its reload, if it had one to do,
\* on its way.
LEMMA StaleGoesOn ==
    ASSUME SyncInv, StaleInv, NEW a \in Admins, NEW q,
           req' = [req EXCEPT ![a] = q],
           UNCHANGED <<db, engine, attached>>,
           astray => astray',
           Reloads(a) /\ ~req[a].overtaken /\ attached /\ engine # Active(db) =>
               astray' \/ (Reloads(a) /\ ~req[a].overtaken)',
           q # NoRequest =>
               /\ q.pc = "committed" /\ q.op # "delete" /\ ~q.overtaken =>
                      db[q.rule].status # "none"
               /\ q.pc = "selected" => attached
    PROVE  StaleInv'
<1>1. req'[a] = q /\ \A b \in Admins \ {a} : req'[b] = req[b]
  BY DEF SyncInv, TypeOK
<1>2. Active(db)' = Active(db) /\ Unloaded' = Unloaded
  BY DEF Active, Unloaded
<1>3. StalenessExplained'
  <2>1. CASE attached /\ engine # Active(db) /\ ~astray
    <3>1. PICK b \in Admins : Reloads(b) /\ ~req[b].overtaken
      BY <2>1 DEF StaleInv, StalenessExplained
    <3>2. CASE b = a
      BY <2>1, <3>1, <3>2 DEF StalenessExplained
    <3>3. CASE b # a
      <4>1. (Reloads(b) /\ ~req[b].overtaken)'
        BY <1>1, <3>1, <3>3 DEF Reloads
      <4> QED BY <2>1, <4>1 DEF StalenessExplained
    <3> QED BY <3>2, <3>3
  <2>2. CASE ~(attached /\ engine # Active(db) /\ ~astray)
    BY <1>2, <2>2 DEF StaleInv, StalenessExplained
  <2> QED BY <2>1, <2>2
<1> QED BY <1>1, <1>3 DEF StaleInv

\* A commit puts a reload on its way.
LEMMA StaleCommit ==
    ASSUME SyncInv, StaleInv, NEW a \in Admins, NEW row \in Row, NEW next,
           Commit(a, row, next), UNCHANGED <<engine, attached, astray, failures, restarts>>,
           next # NoRequest, next.pc = "committed", ~next.overtaken, next.rule \in Rules,
           next.op # "delete" => row.status # "none"
    PROVE  StaleInv'
<1>1. /\ req'[a] = next
      /\ \A b \in Admins \ {a} : req[b] = NoRequest => req'[b] = NoRequest
      /\ \A b \in Admins \ {a} : req[b] # NoRequest =>
             req'[b] = [req[b] EXCEPT !.overtaken = TRUE]
      /\ db'[next.rule] = row
  BY DEF Commit, SyncInv, TypeOK
<1>2. StalenessExplained'
  <2>1. Reloads(a)' /\ ~req'[a].overtaken
    BY <1>1 DEF Reloads
  <2> QED BY <2>1 DEF StaleInv, StalenessExplained
<1>3. ASSUME NEW b \in Admins, req'[b] # NoRequest
      PROVE  /\ req'[b].pc = "committed" /\ req'[b].op # "delete" /\ ~req'[b].overtaken =>
                    db'[req'[b].rule].status # "none"
             /\ req'[b].pc = "selected" => attached'
  <2>1. CASE b = a
    BY <1>1, <2>1
  <2>2. CASE b # a
    <3>1. req[b] # NoRequest /\ req'[b] = [req[b] EXCEPT !.overtaken = TRUE]
      BY <1>1, <1>3, <2>2
    <3>2. req[b] \in Requests
      BY <3>1, BusyRequest DEF SyncInv
    <3>3. req'[b].overtaken /\ req'[b].pc = req[b].pc
      BY <3>1, <3>2 DEF Requests
    <3> QED BY <3>1, <3>3 DEF StaleInv
  <2> QED BY <2>1, <2>2
<1> QED BY <1>2, <1>3 DEF StaleInv

LEMMA StaleKept ==
    ASSUME SyncInv, StaleInv, [Next]_vars
    PROVE  StaleInv'
<1>0. /\ db \in [Rules -> Row] /\ writes \in 0..MaxWrites /\ MaxWrites \in Nat
      /\ req \in [Admins -> Requests \cup {NoRequest}]
      /\ NoRow \in Row
  BY RuleAssumption DEF SyncInv, TypeOK, NoRow, Row, RuleAssumption
<1>1. ASSUME NEW a \in Admins, NEW r \in Rules, NEW status \in Statuses,
             CreateRule(a, r, status)
      PROVE  StaleInv'
  <2> DEFINE q == NewRequest("create", r, status, "committed", NoRow)
             row == [status |-> status, ver |-> NextVersion]
  <2>1. Commit(a, row, q) /\ UNCHANGED <<engine, attached, astray, failures, restarts>>
        /\ writes < MaxWrites
    BY <1>1 DEF CreateRule, Commit
  <2>2. row \in Row /\ row.status # "none"
    BY <1>0, <2>1 DEF NextVersion, Row, Statuses
  <2>3. q # NoRequest /\ q.pc = "committed" /\ ~q.overtaken /\ q.rule = r
    BY <1>0, NewRequestType, RuleAssumption DEF NewRequest
  <2> HIDE DEF q, row
  <2> QED BY <2>1, <2>2, <2>3, StaleCommit
<1>2. ASSUME NEW a \in Admins, NEW r \in Rules, DeleteRule(a, r)
      PROVE  StaleInv'
  <2> DEFINE q == NewRequest("delete", r, "unset", "committed", NoRow)
             row == [db[r] EXCEPT !.status = "none"]
  <2>1. Commit(a, row, q) /\ UNCHANGED <<engine, attached, astray, failures, restarts>>
    BY <1>2 DEF DeleteRule
  <2>2. row \in Row
    BY <1>0 DEF Row
  <2>3. q # NoRequest /\ q.pc = "committed" /\ ~q.overtaken /\ q.rule = r /\ q.op = "delete"
    BY <1>0, NewRequestType, RuleAssumption DEF NewRequest
  <2> HIDE DEF q, row
  <2> QED BY <2>1, <2>2, <2>3, StaleCommit
<1>3. ASSUME NEW a \in Admins, WriteRule(a)
      PROVE  StaleInv'
  <2> DEFINE q == [req[a] EXCEPT !.pc = "committed", !.overtaken = FALSE]
             row == Updated(db[req[a].rule], req[a])
  <2>1. /\ req[a] # NoRequest /\ req[a].pc = "read"
        /\ writes < MaxWrites /\ Commit(a, row, q)
        /\ UNCHANGED <<engine, attached, astray, failures, restarts>>
        /\ db[req[a].rule].status # "none"
    BY <1>3 DEF WriteRule, Busy, Commit
  <2>2. req[a] \in Requests
    BY <1>0, <2>1
  <2>3. q.pc = "committed" /\ ~q.overtaken /\ q.rule = req[a].rule /\ q.rule \in Rules
    BY <2>2 DEF Requests
  <2>4. q # NoRequest
    <3>1. NoRequest.pc = "idle"
      BY DEF NoRequest
    <3> QED BY <2>3, <3>1
  <2>5. row \in Row /\ row.status # "none"
    <3>1. db[req[a].rule] \in Row /\ req[a].want \in Statuses \cup {"unset"}
      BY <1>0, <2>2 DEF Requests
    <3>2. NextVersion \in 0..MaxWrites + 1
      BY <1>0, <2>1 DEF NextVersion
    <3> QED BY <2>1, <3>1, <3>2 DEF Updated, Row, Statuses
  <2> HIDE DEF q, row
  <2> QED BY <2>1, <2>3, <2>4, <2>5, StaleCommit
<1>4. ASSUME NEW a \in Admins, NEW r \in Rules, NEW op \in {"update", "toggle"},
             NEW want \in Statuses \cup {"unset"}, ReadRule(a, op, r, want)
      PROVE  StaleInv'
  <2>1. NewRequest(op, r, want, "read", db[r]).pc = "read"
    BY DEF NewRequest
  <2>2. /\ req[a] = NoRequest /\ req' = [req EXCEPT ![a] = NewRequest(op, r, want, "read", db[r])]
        /\ UNCHANGED <<db, engine, attached, astray>>
    BY <1>4 DEF ReadRule
  <2> QED BY <2>1, <2>2, StaleGoesOn DEF Reloads
<1>5. ASSUME NEW a \in Admins, NEW r \in Rules, DeleteNotFound(a, r)
      PROVE  StaleInv'
  <2>1. NewRequest("delete", r, "unset", "notfound", NoRow).pc = "notfound"
    BY DEF NewRequest
  <2>2. /\ req[a] = NoRequest
        /\ req' = [req EXCEPT ![a] = NewRequest("delete", r, "unset", "notfound", NoRow)]
        /\ UNCHANGED <<db, engine, attached, astray>>
    BY <1>5 DEF DeleteNotFound
  <2> QED BY <2>1, <2>2, StaleGoesOn DEF Reloads
<1>6. ASSUME NEW a \in Admins,
             RowVanished(a) \/ AnswerNotFound(a) \/ UpdateFails(a) \/ SkipReload(a) \/ ReloadFails(a)
      PROVE  StaleInv'
  <2>1. /\ req' = [req EXCEPT ![a] = NoRequest]
        /\ UNCHANGED <<db, engine, attached>>
    BY <1>6 DEF RowVanished, AnswerNotFound, UpdateFails, SkipReload, ReloadFails, Finish
  <2>2. astray => astray'
    BY <1>6, Zenon DEF RowVanished, AnswerNotFound, UpdateFails, SkipReload, ReloadFails
  <2>3. Reloads(a) /\ ~req[a].overtaken /\ attached => astray'
    BY <1>6 DEF RowVanished, AnswerNotFound, UpdateFails, SkipReload, ReloadFails, Busy, Reloads,
                StaleInv
  <2> QED BY <2>1, <2>2, <2>3, StaleGoesOn
<1>7. ASSUME NEW a \in Admins, NEW q \in Requests,
             req[a] # NoRequest, req[a] \in Requests, req' = [req EXCEPT ![a] = q],
             q.pc = "refreshed" \/ (q.pc = "selected" /\ attached /\ q.overtaken = req[a].overtaken),
             q.pc = "refreshed" => ~q.overtaken,
             UNCHANGED <<db, engine, attached, astray>>
      PROVE  StaleInv'
  <2>1. req'[a] = q /\ q # NoRequest
    <3>1. NoRequest.pc = "idle"
      BY DEF NoRequest
    <3> QED BY <1>0, <1>7, <3>1
  <2>2. Reloads(a)' /\ (~req[a].overtaken => ~req'[a].overtaken)
    BY <1>7, <2>1 DEF Reloads
  <2> QED BY <1>7, <2>1, <2>2, StaleGoesOn
<1>8. ASSUME NEW a \in Admins, RefreshCopy(a)
      PROVE  StaleInv'
  <2> DEFINE copy == IF req[a].op = "delete" THEN req[a].copy ELSE db[req[a].rule]
             q == [req[a] EXCEPT !.pc = "refreshed", !.overtaken = FALSE, !.copy = copy]
  <2>1. req[a] # NoRequest /\ req[a] \in Requests
    BY <1>0, <1>8 DEF RefreshCopy, Busy
  <2>2. copy \in Row
    BY <1>0, <2>1 DEF Requests
  <2>3. q \in Requests /\ q.pc = "refreshed" /\ ~q.overtaken
    BY <2>1, <2>2 DEF Requests
  <2>4. req' = [req EXCEPT ![a] = q] /\ UNCHANGED <<db, engine, attached, astray>>
    BY <1>0, <1>8, <2>1 DEF RefreshCopy, Requests
  <2> HIDE DEF q
  <2> QED BY <2>1, <2>3, <2>4, <1>7
<1>9. ASSUME NEW a \in Admins, ToggleMissesRow(a)
      PROVE  StaleInv'
  <2> DEFINE q == [req[a] EXCEPT !.pc = "refreshed", !.overtaken = FALSE,
                                 !.copy = db[req[a].rule]]
  <2>1. req[a] # NoRequest /\ req[a] \in Requests
    BY <1>0, <1>9 DEF ToggleMissesRow, Busy
  <2>2. q \in Requests /\ q.pc = "refreshed" /\ ~q.overtaken
    BY <1>0, <2>1 DEF Requests
  <2>3. req' = [req EXCEPT ![a] = q] /\ UNCHANGED <<db, engine, attached, astray>>
    BY <1>0, <1>9, <2>1 DEF ToggleMissesRow, Requests
  <2> HIDE DEF q
  <2> QED BY <2>1, <2>2, <2>3, <1>7
<1>10. ASSUME NEW a \in Admins, SelectActive(a)
       PROVE  StaleInv'
  <2> DEFINE q == [req[a] EXCEPT !.pc = "selected", !.found = FoundBy(a)]
  <2>1. req[a] # NoRequest /\ req[a] \in Requests /\ Busy(a, "refreshed") /\ attached
    BY <1>0, <1>10 DEF SelectActive, Busy
  <2>2. FoundBy(a) \in [Rules -> 0..MaxWrites + 1]
    BY <2>1, FoundByFacts
  <2>3. q \in Requests /\ q.pc = "selected" /\ q.overtaken = req[a].overtaken
    BY <2>1, <2>2 DEF Requests
  <2>4. req' = [req EXCEPT ![a] = q] /\ UNCHANGED <<db, engine, attached, astray>>
    BY <1>10 DEF SelectActive, FoundBy
  <2> HIDE DEF q
  <2> QED BY <2>1, <2>3, <2>4, <1>7
<1>11. ASSUME NEW a \in Admins, LoadEngine(a)
       PROVE  StaleInv'
  <2>1. /\ req[a] # NoRequest /\ req[a].pc = "selected" /\ req' = [req EXCEPT ![a] = NoRequest]
        /\ astray' = req[a].overtaken /\ UNCHANGED <<db, attached>>
    BY <1>11 DEF LoadEngine, Busy, Finish
  <2>2. attached
    BY <2>1 DEF StaleInv
  <2>3. StalenessExplained'
    BY <1>11, <2>1, <2>2, QuietReload DEF StalenessExplained
  <2>4. req'[a] = NoRequest /\ \A b \in Admins \ {a} : req'[b] = req[b]
    BY <1>0, <2>1
  <2> QED BY <2>1, <2>3, <2>4 DEF StaleInv
<1>12. CASE Restart \/ RestartUnread
  <2>1. /\ req' = [a \in Admins |-> NoRequest] /\ db' = db
        /\ (attached' /\ engine' = Active(db)) \/ (~attached' /\ engine' = Unloaded)
    BY <1>12 DEF Restart, RestartUnread
  <2>2. Active(db)' = Active(db) /\ Unloaded' = Unloaded
    BY <2>1 DEF Active, Unloaded
  <2>3. StalenessExplained'
    BY <2>1, <2>2 DEF StalenessExplained
  <2> QED BY <2>1, <2>3 DEF StaleInv
<1>13. CASE UNCHANGED vars
  BY <1>13 DEF vars, StaleInv, StalenessExplained, Reloads, Active, Unloaded
<1> QED BY <1>1, <1>2, <1>3, <1>4, <1>5, <1>6, <1>8, <1>9, <1>10, <1>11, <1>12, <1>13 DEF Next

\* Whatever requests cross or fail, and however the process starts, an engine out
\* of step has one of the three reasons StalenessExplained names.
THEOREM StalenessAlwaysExplained == Spec => []StalenessExplained
<1>1. Init => StaleInv
  BY DEF Init, StaleInv, StalenessExplained
<1>2. SyncInv /\ StaleInv /\ [Next]_vars => StaleInv'
  BY StaleKept
<1>3. StaleInv => StalenessExplained
  BY DEF StaleInv
<1> QED BY <1>1, <1>2, <1>3, InvariantHolds, PTL DEF Spec
=============================================================================
