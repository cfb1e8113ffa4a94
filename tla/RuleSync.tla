----------------------------- MODULE RuleSync ------------------------------
(***************************************************************************)
(* The rules API (backend/app/api/rules.py), the rule service              *)
(* (backend/app/services/rule_service.py) and the copy of the active rules *)
(* the correlation engine holds in memory (engine.cargar_reglas).          *)
(*                                                                         *)
(* A request that changes a rule is a task with a database session of its  *)
(* own: it reads the rule, commits its change, refreshes its copy, selects *)
(* the active rules and hands them to the engine.  It waits for the        *)
(* database between these steps, and other requests run meanwhile.         *)
(* Transactions are READ COMMITTED.  A session keeps one object per row:   *)
(* selecting a row it already holds does not overwrite the object.         *)
(***************************************************************************)
EXTENDS Integers, FiniteSets

CONSTANTS
    Admins,       \* requests that may be in progress at once
    Rules,        \* rule ids
    Referenced,   \* rules some alert refers to (alerts.rule_id)
    Initially,    \* rules in the table when the server starts, all active
    MaxWrites,    \* bound: changes committed to the table
    MaxFailures,  \* bound: database calls that fail
    MaxRestarts   \* bound: restarts of the server

ASSUME RuleAssumption ==
    /\ Referenced \subseteq Rules /\ Initially \subseteq Rules
    /\ MaxWrites \in Nat /\ MaxFailures \in Nat /\ MaxRestarts \in Nat

VARIABLES
    db,        \* table rules: rule -> [status, ver]; ver tells contents apart
    engine,    \* engine._reglas: rule -> version loaded, 0 when not loaded
    attached,  \* whether app.state.engine is the engine, not None
    req,       \* the request each admin has in progress
    writes,    \* history: commits so far, also the next version of a content
    committed, \* history: <<rule, version>> pairs that were active in the table
    astray,    \* history: since the last quiet load, a load another commit overtook
               \* or a request that failed between its commit and its load
    failures, restarts   \* histories, for the bounds

vars == <<db, engine, attached, req, writes, committed, astray, failures, restarts>>

Statuses == {"active", "disabled"}

\* A row; a rule that never existed has version 0, a deleted one status "none".
Row == [status : Statuses \cup {"none"}, ver : 0..MaxWrites + 1]

NoRow == [status |-> "none", ver |-> 0]

\* A request: op on rule with the status it asks for ("unset" leaves it), the
\* session's copy of the row, the rows its last select returned, and whether
\* another request committed since the copy was refreshed.
Requests ==
    [pc : {"read", "committed", "refreshed", "selected", "notfound"},
     op : {"create", "update", "toggle", "delete"},
     rule : Rules, want : Statuses \cup {"unset"}, copy : Row,
     found : [Rules -> 0..MaxWrites + 1], overtaken : BOOLEAN]

NoRequest == [pc |-> "idle"]

Unloaded == [r \in Rules |-> 0]

\* What the table says the engine should run.
Active(table) == [r \in Rules |-> IF table[r].status = "active" THEN table[r].ver ELSE 0]

TypeOK ==
    /\ db \in [Rules -> Row]
    /\ engine \in [Rules -> 0..MaxWrites + 1]
    /\ req \in [Admins -> Requests \cup {NoRequest}]
    /\ writes \in 0..MaxWrites
    /\ committed \subseteq Rules \X (1..MaxWrites + 1)
    /\ attached \in BOOLEAN /\ astray \in BOOLEAN
    /\ failures \in 0..MaxFailures
    /\ restarts \in 0..MaxRestarts

Init ==
    /\ db = [r \in Rules |-> IF r \in Initially
                               THEN [status |-> "active", ver |-> 1] ELSE NoRow]
    /\ engine = Active(db) /\ attached = TRUE /\ astray = FALSE
    /\ req = [a \in Admins |-> NoRequest]
    /\ writes = 0
    /\ committed = Initially \X {1}
    /\ failures = 0 /\ restarts = 0

-----------------------------------------------------------------------------
(* Sessions. *)

Busy(a, pc) == req[a] # NoRequest /\ req[a].pc = pc

Finish(a) == req' = [req EXCEPT ![a] = NoRequest]

\* a commits row as the new row of its rule: every other request in progress
\* is overtaken.
Commit(a, row, next) ==
    LET r == next.rule IN
    /\ writes < MaxWrites
    /\ writes' = writes + 1
    /\ db' = [db EXCEPT ![r] = row]
    /\ committed' = IF row.status = "active" THEN committed \cup {<<r, row.ver>>}
                                             ELSE committed
    /\ req' = [b \in Admins |->
                 IF b = a THEN next
                 ELSE IF req[b] = NoRequest THEN NoRequest
                 ELSE [req[b] EXCEPT !.overtaken = TRUE]]

NewRequest(op, r, want, pc, copy) ==
    [pc |-> pc, op |-> op, rule |-> r, want |-> want, copy |-> copy,
     found |-> Unloaded, overtaken |-> FALSE]

\* A committed content gets the next unused version.
NextVersion == writes + 2

-----------------------------------------------------------------------------
(* The handlers. *)

\* crear_regla: insert and commit.
CreateRule(a, r, status) ==
    /\ req[a] = NoRequest
    /\ db[r] = NoRow
    /\ Commit(a, [status |-> status, ver |-> NextVersion],
              NewRequest("create", r, status, "committed", NoRow))
    /\ UNCHANGED <<engine, attached, astray, failures, restarts>>

\* obtener_regla of actualizar_regla and toggle_regla; a missing rule is 404.
ReadRule(a, op, r, want) ==
    /\ req[a] = NoRequest
    /\ db[r].status # "none"
    /\ op = "toggle" => want = IF db[r].status = "active" THEN "disabled" ELSE "active"
    /\ req' = [req EXCEPT ![a] = NewRequest(op, r, want, "read", db[r])]
    /\ UNCHANGED <<db, engine, attached, writes, committed, astray, failures, restarts>>

\* The commit writes the columns whose value differs from the session's copy:
\* a status equal to the one read is not written.
Updated(row, q) ==
    [status |-> IF q.want \in {"unset", q.copy.status} THEN row.status ELSE q.want,
     ver |-> IF q.op = "update" THEN NextVersion ELSE row.ver]

WriteRule(a) ==
    /\ Busy(a, "read")
    /\ db[req[a].rule].status # "none"
    /\ Commit(a, Updated(db[req[a].rule], req[a]),
              [req[a] EXCEPT !.pc = "committed", !.overtaken = FALSE])
    /\ UNCHANGED <<engine, attached, astray, failures, restarts>>

\* The row was deleted meanwhile: the update or the refresh raises, the request
\* fails and the engine is not reloaded.
RowVanished(a) ==
    /\ Busy(a, "read") \/ Busy(a, "committed")
    /\ db[req[a].rule].status = "none"
    /\ req[a].op # "delete"
    /\ Finish(a)
    /\ UNCHANGED <<db, engine, attached, writes, committed, astray, failures, restarts>>

\* toggle_regla reads the rule a second time inside actualizar_regla.  When that
\* read finds no row, the toggle changes nothing, reloads the engine all the
\* same and answers the new status.
ToggleMissesRow(a) ==
    /\ Busy(a, "read")
    /\ req[a].op = "toggle"
    /\ db[req[a].rule].status = "none"
    /\ req' = [req EXCEPT ![a].pc = "refreshed", ![a].overtaken = FALSE,
                          ![a].copy = db[req[a].rule]]
    /\ UNCHANGED <<db, engine, attached, writes, committed, astray, failures, restarts>>

\* A delete that is answered without a reload.
DeleteRule_NoReload(a, r) ==
    /\ req[a] = NoRequest
    /\ db[r].status # "none"
    /\ r \notin Referenced
    /\ Commit(a, [db[r] EXCEPT !.status = "none"],
              NewRequest("delete", r, "unset", "notfound", NoRow))
    /\ UNCHANGED <<engine, attached, astray, failures, restarts>>

\* eliminar_regla: the foreign key of alerts protects a referenced rule.
DeleteRule(a, r) ==
    /\ req[a] = NoRequest
    /\ db[r].status # "none"
    /\ r \notin Referenced
    /\ Commit(a, [db[r] EXCEPT !.status = "none"],
              NewRequest("delete", r, "unset", "committed", NoRow))
    /\ UNCHANGED <<engine, attached, astray, failures, restarts>>

\* The delete raises, or finds no row: eliminar_regla returns False for both
\* and the request is answered "Rule not found".
DeleteNotFound(a, r) ==
    /\ req[a] = NoRequest
    /\ db[r] # NoRow
    /\ db[r].status = "none" \/ r \in Referenced
    /\ req' = [req EXCEPT ![a] = NewRequest("delete", r, "unset", "notfound", NoRow)]
    /\ UNCHANGED <<db, engine, attached, writes, committed, astray, failures, restarts>>

AnswerNotFound(a) ==
    /\ Busy(a, "notfound")
    /\ Finish(a)
    /\ UNCHANGED <<db, engine, attached, writes, committed, astray, failures, restarts>>

\* session.refresh: the copy is what the table holds now.  A delete holds no
\* copy and goes straight to the select.
RefreshCopy(a) ==
    /\ Busy(a, "committed")
    /\ req[a].op = "delete" \/ db[req[a].rule].status # "none"
    /\ req' = [req EXCEPT ![a].pc = "refreshed", ![a].overtaken = FALSE,
                          ![a].copy = IF req[a].op = "delete" THEN @ ELSE db[req[a].rule]]
    /\ UNCHANGED <<db, engine, attached, writes, committed, astray, failures, restarts>>

\* Nothing catches a commit or a refresh that fails: 500, and no reload.
UpdateFails(a) ==
    /\ Busy(a, "read") \/ Busy(a, "committed")
    /\ req[a].op # "delete"
    /\ failures < MaxFailures
    /\ failures' = failures + 1
    /\ astray' = (astray \/ Busy(a, "committed"))
    /\ Finish(a)
    /\ UNCHANGED <<db, engine, attached, writes, committed, restarts>>

\* Without app.state.engine _recargar_engine does nothing.
SkipReload(a) ==
    /\ Busy(a, "refreshed")
    /\ ~attached
    /\ Finish(a)
    /\ UNCHANGED <<db, engine, attached, writes, committed, astray, failures, restarts>>

\* A select that only trusts the session's copy of the rule.
SelectActive_CopyWins(a) ==
    /\ Busy(a, "refreshed") /\ attached
    /\ req' = [req EXCEPT ![a].pc = "selected",
                 ![a].found = [Active(db) EXCEPT ![req[a].rule] = req[a].copy.ver]]
    /\ UNCHANGED <<db, engine, attached, writes, committed, astray, failures, restarts>>

\* cargar_reglas_activas: the rows that are active in the table; the rule the
\* session holds a copy of comes back as that copy.
SelectActive(a) ==
    /\ Busy(a, "refreshed") /\ attached
    /\ LET own == req[a].rule
           copy == req[a].copy
           rows == Active(db)
       IN  req' = [req EXCEPT ![a].pc = "selected",
                     ![a].found =
                        IF rows[own] = 0 \/ copy = NoRow THEN rows
                        ELSE [rows EXCEPT ![own] = IF copy.status = "active"
                                                     THEN copy.ver ELSE 0]]
    /\ UNCHANGED <<db, engine, attached, writes, committed, astray, failures, restarts>>

\* engine.cargar_reglas replaces the list.
LoadEngine(a) ==
    /\ Busy(a, "selected")
    /\ engine' = req[a].found
    /\ Finish(a)
    /\ astray' = req[a].overtaken
    /\ UNCHANGED <<db, attached, writes, committed, failures, restarts>>

\* The select fails: the exception is logged, the request still succeeds.
ReloadFails(a) ==
    /\ Busy(a, "refreshed") /\ attached
    /\ failures < MaxFailures
    /\ failures' = failures + 1
    /\ astray' = TRUE
    /\ Finish(a)
    /\ UNCHANGED <<db, engine, attached, writes, committed, restarts>>

\* The server stops and starts: lifespan loads the active rules before any
\* request is served.
Restart ==
    /\ restarts < MaxRestarts
    /\ restarts' = restarts + 1
    /\ engine' = Active(db) /\ attached' = TRUE /\ astray' = FALSE
    /\ req' = [a \in Admins |-> NoRequest]
    /\ UNCHANGED <<db, writes, committed, failures>>

\* The rules cannot be read at start: "Could not initialize the correlation
\* engine", and app.state.engine is None as long as this process runs.
RestartUnread ==
    /\ restarts < MaxRestarts
    /\ restarts' = restarts + 1
    /\ failures < MaxFailures
    /\ failures' = failures + 1
    /\ engine' = Unloaded /\ attached' = FALSE /\ astray' = FALSE
    /\ req' = [a \in Admins |-> NoRequest]
    /\ UNCHANGED <<db, writes, committed>>

-----------------------------------------------------------------------------
Next ==
    \/ \E a \in Admins, r \in Rules :
           \/ \E status \in Statuses : CreateRule(a, r, status)
           \/ \E want \in Statuses \cup {"unset"} : ReadRule(a, "update", r, want)
           \/ \E want \in Statuses : ReadRule(a, "toggle", r, want)
           \/ DeleteRule(a, r) \/ DeleteNotFound(a, r)
    \/ \E a \in Admins :
           \/ WriteRule(a) \/ RowVanished(a) \/ ToggleMissesRow(a) \/ RefreshCopy(a)
           \/ UpdateFails(a) \/ SelectActive(a) \/ SkipReload(a) \/ LoadEngine(a)
           \/ ReloadFails(a) \/ AnswerNotFound(a)
    \/ Restart \/ RestartUnread

Spec == Init /\ [][Next]_vars

-----------------------------------------------------------------------------
(* Properties. *)

\* The engine runs only contents that were committed as active, also when a
\* session's own copy and the selected rows come from different moments.
EngineRunsCommittedRules ==
    \A r \in Rules : engine[r] # 0 => <<r, engine[r]>> \in committed

\* A request that committed and has not reloaded the engine yet.
Reloads(a) == req[a] # NoRequest /\ req[a].pc \in {"committed", "refreshed", "selected"}

\* When the engine does not run what the table says, a reload that nothing has
\* overtaken is on its way, or a load since was overtaken or failed: no sequence
\* of creations, changes, deletions and answers of 404 or 500 leaves it astray
\* otherwise.  A process that could not read its rules at start runs none until
\* it ends, whatever is answered to the requests that change them.
StalenessExplained ==
    /\ attached => \/ engine = Active(db)
                   \/ astray
                   \/ \E a \in Admins : Reloads(a) /\ ~req[a].overtaken
    /\ ~attached => engine = Unloaded
=============================================================================
