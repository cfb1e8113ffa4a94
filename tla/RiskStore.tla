----------------------------- MODULE RiskStore -----------------------------
(***************************************************************************)
(* EntityRiskStore (backend/app/services/analysis_service.py): the risk of *)
(* every entity in memory, written through to table entity_risks.          *)
(*                                                                         *)
(* Every analysed event is a task of its own.  update_risk reads and       *)
(* writes the memory in one stretch and then awaits an upsert through a    *)
(* session of its own, so the upserts of one entity may be committed in    *)
(* any order, fail, or be lost with the process.                           *)
(*                                                                         *)
(* A score is a whole number of points; Decay is the code's exponential    *)
(* decay, of which only the properties in DecayAssumption are used.        *)
(***************************************************************************)
EXTENDS Integers

CONSTANTS
    Tasks,        \* analysis tasks that may be in progress at once
    Entities,     \* entity keys: source_ip, user_name or source of an event
    Increments,   \* points an event adds, by its severity
    MaxRisk,      \* analysis_max_risk
    Decay(_, _),  \* Decay(s, d): what is left of score s after d clock units
    MaxTime,      \* bound: the clock stops here
    MaxUpdates,   \* bound: updates
    MaxFailures,  \* bound: upserts and loads that fail
    MaxRestarts   \* bound: restarts of the server

Scores == 0..MaxRisk

ASSUME RiskAssumption ==
    /\ Increments \subseteq Nat
    /\ MaxRisk \in Nat /\ MaxTime \in Nat /\ MaxUpdates \in Nat
    /\ MaxFailures \in Nat /\ MaxRestarts \in Nat

\* score * exp(-rate * elapsed): never grows, keeps the order of scores, and
\* decaying twice is decaying over the sum of the times.
ASSUME DecayAssumption ==
    \A s \in Scores :
        /\ Decay(s, 0) = s
        /\ \A d \in 0..MaxTime : Decay(s, d) \in 0..s
        /\ \A d \in 0..MaxTime : \A u \in 0..s : Decay(u, d) <= Decay(s, d)
        /\ \A d, e \in 0..MaxTime :
               d + e <= MaxTime => Decay(Decay(s, d), e) = Decay(s, d + e)

VARIABLES
    now,       \* the clock
    memory,    \* _risks and _timestamps: entity -> entry, or Absent
    table,     \* entity_risks: entity -> row, or Absent
    pending,   \* the upsert each task awaits, or NoWrite
    lost,      \* the last load_from_db failed: this life started without risks
    given,     \* history: points ever added to each entity
    updates, failures, restarts   \* histories, for the bounds

vars == <<now, memory, table, pending, lost, given, updates, failures, restarts>>

Entry == [score : Scores, ts : 0..MaxTime]

Absent  == [score |-> -1, ts |-> 0]
NoWrite == [entity |-> "none", entry |-> Absent]

Writes == { [entity |-> e, entry |-> x] : e \in Entities, x \in Entry }

TypeOK ==
    /\ now \in 0..MaxTime
    /\ memory \in [Entities -> Entry \cup {Absent}]
    /\ table \in [Entities -> Entry \cup {Absent}]
    /\ pending \in [Tasks -> Writes \cup {NoWrite}]
    /\ lost \in BOOLEAN
    /\ given \in [Entities -> Nat]
    /\ updates \in 0..MaxUpdates
    /\ failures \in 0..MaxFailures
    /\ restarts \in 0..MaxRestarts

Init ==
    /\ now = 0
    /\ memory = [e \in Entities |-> Absent]
    /\ table = [e \in Entities |-> Absent]
    /\ pending = [t \in Tasks |-> NoWrite]
    /\ lost = FALSE
    /\ given = [e \in Entities |-> 0]
    /\ updates = 0 /\ failures = 0 /\ restarts = 0

-----------------------------------------------------------------------------
\* What an entry amounts to at instant t.
WorthAt(x, t) == Decay(x.score, t - x.ts)

\* The score update_risk starts from: 0.0 for an unknown entity, else what the
\* decay since the last update has left.
Current(e) == IF memory[e] = Absent THEN 0 ELSE WorthAt(memory[e], now)

\* _increment_risk: capped at max_risk.
Raised(e, inc) == IF Current(e) + inc > MaxRisk THEN MaxRisk ELSE Current(e) + inc

\* Memory is set and the task t goes to wait for its upsert.
Store(t, e, score) ==
    LET x == [score |-> score, ts |-> now] IN
    /\ memory' = [memory EXCEPT ![e] = x]
    /\ pending' = [pending EXCEPT ![t] = [entity |-> e, entry |-> x]]

UpdateRisk(t, e, inc) ==
    /\ pending[t] = NoWrite
    /\ updates < MaxUpdates
    /\ updates' = updates + 1
    /\ given' = [given EXCEPT ![e] = @ + inc]
    /\ Store(t, e, Raised(e, inc))
    /\ UNCHANGED <<now, table, lost, failures, restarts>>

\* get_or_create of an entity that is not in memory.
CreateRisk(t, e) ==
    /\ pending[t] = NoWrite
    /\ updates < MaxUpdates
    /\ memory[e] = Absent
    /\ updates' = updates + 1
    /\ Store(t, e, 0)
    /\ UNCHANGED <<now, table, lost, given, failures, restarts>>

Done(t) == pending' = [pending EXCEPT ![t] = NoWrite]

\* An upsert that adds to the score of the row.
Persist_Adds(t) ==
    LET e == pending[t].entity
        s == pending[t].entry.score + IF table[e] = Absent THEN 0 ELSE table[e].score
    IN
    /\ pending[t] # NoWrite
    /\ table' = [table EXCEPT ![e] = [score |-> IF s > MaxRisk THEN MaxRisk ELSE s,
                                      ts |-> pending[t].entry.ts]]
    /\ Done(t)
    /\ UNCHANGED <<now, memory, lost, given, updates, failures, restarts>>

\* An upsert that lets the database stamp the row (updated_at = NOW()).
Persist_StampsNow(t) ==
    /\ pending[t] # NoWrite
    /\ table' = [table EXCEPT ![pending[t].entity] = [pending[t].entry EXCEPT !.ts = now]]
    /\ Done(t)
    /\ UNCHANGED <<now, memory, lost, given, updates, failures, restarts>>

\* INSERT ... ON CONFLICT DO UPDATE with the values read before the await.
Persist(t) ==
    /\ pending[t] # NoWrite
    /\ table' = [table EXCEPT ![pending[t].entity] = pending[t].entry]
    /\ Done(t)
    /\ UNCHANGED <<now, memory, lost, given, updates, failures, restarts>>

\* The exception is logged; memory keeps the score.
PersistFails(t) ==
    /\ pending[t] # NoWrite
    /\ failures < MaxFailures
    /\ failures' = failures + 1
    /\ Done(t)
    /\ UNCHANGED <<now, memory, table, lost, given, updates, restarts>>

\* The server stops, waiting for no task, and starts again.
Restart(loaded) ==
    /\ restarts < MaxRestarts
    /\ restarts' = restarts + 1
    /\ memory' = loaded
    /\ pending' = [t \in Tasks |-> NoWrite]
    /\ UNCHANGED <<now, table, given, updates>>

LoadFromDb ==
    /\ Restart(table)
    /\ lost' = FALSE
    /\ UNCHANGED failures

\* load_from_db logs the failure and the store starts empty.
LoadFails ==
    /\ failures < MaxFailures
    /\ failures' = failures + 1
    /\ Restart([e \in Entities |-> Absent])
    /\ lost' = TRUE

Tick ==
    /\ now < MaxTime
    /\ now' = now + 1
    /\ UNCHANGED <<memory, table, pending, lost, given, updates, failures, restarts>>

Next ==
    \/ \E t \in Tasks, e \in Entities :
           \/ \E inc \in Increments : UpdateRisk(t, e, inc)
           \/ CreateRisk(t, e)
    \/ \E t \in Tasks : Persist(t) \/ PersistFails(t)
    \/ LoadFromDb \/ LoadFails \/ Tick

Spec == Init /\ [][Next]_vars

-----------------------------------------------------------------------------
(* Properties. *)

\* No entity is ever riskier than its events justify: neither the memory nor
\* a row exceeds the points given to the entity, over upserts that cross, fail
\* or are lost and over restarts (the upsert replaces the score, it does not
\* add to it).
RiskJustified ==
    \A e \in Entities :
        /\ memory[e] # Absent => memory[e].score <= given[e]
        /\ table[e] # Absent => table[e].score <= given[e]

\* The row an entity has in the table, decayed to this instant, is never worth
\* more than the risk in memory, whatever order the upserts are committed in: a
\* restart can forget events but never brings back risk that has decayed.  It
\* holds because a row carries the instant of its score (_persist writes
\* _timestamps, not NOW()).  After a load that failed the memory knows less
\* than the table, until the next restart.
RestartForgetsOnly ==
    ~lost => \A e \in Entities : table[e] # Absent =>
        /\ memory[e] # Absent
        /\ table[e].ts <= memory[e].ts
        /\ WorthAt(table[e], now) <= WorthAt(memory[e], now)
=============================================================================
