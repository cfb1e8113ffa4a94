-------------------------- MODULE RiskStoreProofs --------------------------
(***************************************************************************)
(* Proofs about RiskStore for every set of tasks, entities and increments  *)
(* and for every decay that satisfies DecayAssumption.                     *)
(*                                                                         *)
(* The upserts a task still awaits are rows to come, so both properties    *)
(* are strengthened to speak of them as well.                              *)
(***************************************************************************)
EXTENDS RiskStore, TLAPS

\* No entry was made in the future.
PastOnly ==
    /\ \A e \in Entities : memory[e] # Absent => memory[e].ts <= now
    /\ \A e \in Entities : table[e] # Absent => table[e].ts <= now
    /\ \A t \in Tasks : pending[t] # NoWrite => pending[t].entry.ts <= now

\* RiskJustified, of the upserts under way too.
AllJustified ==
    /\ RiskJustified
    /\ \A t \in Tasks : pending[t] # NoWrite =>
           pending[t].entry.score <= given[pending[t].entity]

RiskInv == TypeOK /\ PastOnly /\ AllJustified

\* Entry x of entity e is not worth more than what memory holds.
Behind(x, e) ==
    /\ memory[e] # Absent
    /\ x.ts <= memory[e].ts
    /\ WorthAt(x, now) <= WorthAt(memory[e], now)

ForgetInv ==
    ~lost =>
        /\ \A e \in Entities : table[e] # Absent => Behind(table[e], e)
        /\ \A t \in Tasks : pending[t] # NoWrite =>
               Behind(pending[t].entry, pending[t].entity)

-----------------------------------------------------------------------------
(* Lemmas about entries and decay. *)

\* An entry of the past is worth a score that is at most its own
\* (_decay_risk multiplies by a factor of at most one).
LEMMA WorthBounded ==
    ASSUME NEW x \in Entry, NEW t \in 0..MaxTime, x.ts <= t
    PROVE  /\ WorthAt(x, t) \in 0..x.score
           /\ WorthAt(x, t) \in Scores
BY DecayAssumption, RiskAssumption, SMT DEF WorthAt, Entry, Scores

\* An entry made now is worth its score.
LEMMA WorthNow ==
    ASSUME NEW s \in Scores, NEW t \in 0..MaxTime
    PROVE  WorthAt([score |-> s, ts |-> t], t) = s
BY DecayAssumption, RiskAssumption, SMT DEF WorthAt, Scores

\* One more clock unit is one more decay.
LEMMA WorthLater ==
    ASSUME NEW x \in Entry, NEW t \in 0..MaxTime, t < MaxTime, x.ts <= t
    PROVE  WorthAt(x, t + 1) = Decay(WorthAt(x, t), 1)
<1>1. x.score \in Scores /\ t - x.ts \in 0..MaxTime /\ 1 \in 0..MaxTime
      /\ (t - x.ts) + 1 <= MaxTime
  BY RiskAssumption, SMT DEF Entry, Scores
<1>2. Decay(Decay(x.score, t - x.ts), 1) = Decay(x.score, (t - x.ts) + 1)
  BY <1>1, DecayAssumption
<1>3. (t - x.ts) + 1 = (t + 1) - x.ts
  BY <1>1, RiskAssumption, SMT DEF Entry, Scores
<1> QED BY <1>2, <1>3 DEF WorthAt

\* Decay keeps the order of two scores.
LEMMA DecayKeepsOrder ==
    ASSUME NEW a \in Scores, NEW b \in Scores, a <= b, 1 <= MaxTime
    PROVE  Decay(a, 1) <= Decay(b, 1)
<1>1. a \in 0..b /\ 1 \in 0..MaxTime
  BY RiskAssumption, SMT DEF Scores
<1> QED BY <1>1, DecayAssumption

\* Absent is no entry and no upsert holds it.
LEMMA AbsentIsNoEntry == Absent \notin Entry /\ NoWrite \notin Writes
<1>1. Absent \notin Entry
  BY SMT DEF Absent, Entry, Scores
<1>2. NoWrite \notin Writes
  <2> SUFFICES ASSUME NEW e \in Entities, NEW x \in Entry,
                      NoWrite = [entity |-> e, entry |-> x]
               PROVE  FALSE
    BY DEF Writes
  <2>1. NoWrite.entry = x
    OBVIOUS
  <2>2. NoWrite.entry = Absent
    BY DEF NoWrite
  <2> QED BY <1>1, <2>1, <2>2
<1> QED BY <1>1, <1>2

\* What a task awaits is an entry of an entity.
LEMMA PendingTyped ==
    ASSUME TypeOK, NEW t \in Tasks, pending[t] # NoWrite
    PROVE  pending[t].entity \in Entities /\ pending[t].entry \in Entry
BY DEF TypeOK, Writes

\* The score update_risk starts from and the one it stores.
LEMMA RaisedBounds ==
    ASSUME RiskInv, NEW e \in Entities, NEW inc \in Nat
    PROVE  /\ Current(e) \in Scores /\ Raised(e, inc) \in Scores
           /\ Current(e) <= Raised(e, inc)
           /\ Raised(e, inc) <= given[e] + inc
<1>0. now \in 0..MaxTime /\ given[e] \in Nat /\ MaxRisk \in Nat
  BY RiskAssumption DEF RiskInv, TypeOK
<1>1. CASE memory[e] = Absent
  <2>1. Current(e) = 0
    BY <1>1 DEF Current
  <2> QED BY <2>1, <1>0, SMT DEF Raised, Scores
<1>2. CASE memory[e] # Absent
  <2>1. memory[e] \in Entry /\ memory[e].ts <= now /\ memory[e].score <= given[e]
    BY <1>2 DEF RiskInv, TypeOK, PastOnly, AllJustified, RiskJustified
  <2>2. Current(e) \in 0..memory[e].score /\ Current(e) \in Scores
    BY <1>0, <1>2, <2>1, WorthBounded DEF Current
  <2>3. memory[e].score \in Nat
    BY <2>1, SMT DEF Entry, Scores
  <2> QED BY <1>0, <2>1, <2>2, <2>3, SMT DEF Raised, Scores
<1> QED BY <1>1, <1>2

-----------------------------------------------------------------------------
(* RiskInv is inductive. *)

\* What the stretch of update_risk and get_or_create does to RiskInv, given
\* that the score it stores is justified by the points given afterwards.
LEMMA StoreKeepsRiskInv ==
    ASSUME RiskInv, NEW t \in Tasks, NEW e \in Entities, NEW s \in Scores,
           NEW n \in Nat, s <= given[e] + n,
           Store(t, e, s), given' = [given EXCEPT ![e] = @ + n],
           updates' \in 0..MaxUpdates,
           UNCHANGED <<now, table, lost, failures, restarts>>
    PROVE  RiskInv'
<1> DEFINE x == [score |-> s, ts |-> now]
<1>1. /\ x \in Entry /\ x.score = s /\ x.ts = now
      /\ [entity |-> e, entry |-> x] \in Writes
  BY DEF RiskInv, TypeOK, Entry, Writes
<1>2. /\ memory' = [memory EXCEPT ![e] = x]
      /\ pending' = [pending EXCEPT ![t] = [entity |-> e, entry |-> x]]
  BY DEF Store
<1>3. TypeOK'
  BY <1>1, <1>2 DEF RiskInv, TypeOK
<1>4. PastOnly'
  BY <1>1, <1>2, SMT DEF RiskInv, TypeOK, PastOnly
<1>5. \A d \in Entities : given[d] \in Nat /\ given'[d] \in Nat /\ given[d] <= given'[d]
  BY SMT DEF RiskInv, TypeOK
<1>6. x.score <= given'[e]
  BY <1>1, SMT DEF RiskInv, TypeOK
<1>7. RiskJustified'
  <2> SUFFICES ASSUME NEW d \in Entities
               PROVE  /\ memory'[d] # Absent => memory'[d].score <= given'[d]
                      /\ table'[d] # Absent => table'[d].score <= given'[d]
    BY DEF RiskJustified
  <2>1. table[d] # Absent => table[d].score \in Nat /\ table[d].score <= given[d]
    BY DEF RiskInv, TypeOK, AllJustified, RiskJustified, Entry, Scores
  <2>2. memory[d] # Absent => memory[d].score \in Nat /\ memory[d].score <= given[d]
    BY DEF RiskInv, TypeOK, AllJustified, RiskJustified, Entry, Scores
  <2>3. memory'[d] = IF d = e THEN x ELSE memory[d]
    BY <1>2 DEF RiskInv, TypeOK
  <2> QED BY <1>5, <1>6, <2>1, <2>2, <2>3, SMT
<1>8. \A u \in Tasks : pending'[u] # NoWrite =>
          pending'[u].entry.score <= given'[pending'[u].entity]
  <2> SUFFICES ASSUME NEW u \in Tasks, pending'[u] # NoWrite
               PROVE  pending'[u].entry.score <= given'[pending'[u].entity]
    OBVIOUS
  <2>1. CASE u = t
    <3>1. pending'[u] = [entity |-> e, entry |-> x]
      BY <1>2, <2>1 DEF RiskInv, TypeOK
    <3> QED BY <3>1, <1>6
  <2>2. CASE u # t
    <3>1. pending'[u] = pending[u]
      BY <1>2, <2>2 DEF RiskInv, TypeOK
    <3>2. pending[u].entity \in Entities /\ pending[u].entry.score \in Nat
      BY <3>1, PendingTyped DEF RiskInv, Entry, Scores
    <3>3. pending[u].entry.score <= given[pending[u].entity]
      BY <3>1 DEF RiskInv, AllJustified
    <3> QED BY <3>1, <3>2, <3>3, <1>5, SMT
  <2> QED BY <2>1, <2>2
<1> QED BY <1>3, <1>4, <1>7, <1>8 DEF RiskInv, AllJustified

\* A task whose upsert is over takes nothing else with it.
LEMMA DoneKeepsPending ==
    ASSUME TypeOK, NEW t \in Tasks, Done(t)
    PROVE  /\ pending' \in [Tasks -> Writes \cup {NoWrite}]
           /\ \A u \in Tasks : pending'[u] # NoWrite => pending'[u] = pending[u]
BY DEF TypeOK, Done

\* Every step keeps the types, the instants in the past and the scores justified.
LEMMA RiskInvStep == RiskInv /\ [Next]_vars => RiskInv'
<1> SUFFICES ASSUME RiskInv, [Next]_vars PROVE RiskInv'
  OBVIOUS
<1> USE RiskAssumption
<1>1. ASSUME NEW t \in Tasks, NEW e \in Entities, NEW inc \in Increments, UpdateRisk(t, e, inc)
      PROVE  RiskInv'
  <2>1. inc \in Nat /\ updates' \in 0..MaxUpdates
    BY <1>1, SMT DEF UpdateRisk, RiskInv, TypeOK
  <2>2. Raised(e, inc) \in Scores /\ Raised(e, inc) <= given[e] + inc
    BY <2>1, RaisedBounds
  <2> QED BY <1>1, <2>1, <2>2, StoreKeepsRiskInv DEF UpdateRisk
<1>2. ASSUME NEW t \in Tasks, NEW e \in Entities, CreateRisk(t, e)
      PROVE  RiskInv'
  <2>1. updates' \in 0..MaxUpdates /\ given[e] \in Nat
    BY <1>2, SMT DEF CreateRisk, RiskInv, TypeOK
  <2>2. 0 \in Scores /\ 0 \in Nat /\ 0 <= given[e] + 0
    BY <2>1, SMT DEF Scores
  <2>3. given' = [given EXCEPT ![e] = @ + 0]
    BY <1>2, <2>1, SMT DEF CreateRisk, RiskInv, TypeOK
  <2> QED BY <1>2, <2>1, <2>2, <2>3, StoreKeepsRiskInv DEF CreateRisk
<1>3. ASSUME NEW t \in Tasks, Persist(t)
      PROVE  RiskInv'
  <2>1. /\ pending[t].entity \in Entities /\ pending[t].entry \in Entry
        /\ pending[t].entry.ts <= now
        /\ pending[t].entry.score <= given[pending[t].entity]
    BY <1>3, PendingTyped DEF Persist, RiskInv, PastOnly, AllJustified
  <2>2. table' = [table EXCEPT ![pending[t].entity] = pending[t].entry]
    BY <1>3 DEF Persist
  <2>3. /\ pending' \in [Tasks -> Writes \cup {NoWrite}]
        /\ \A u \in Tasks : pending'[u] # NoWrite => pending'[u] = pending[u]
    BY <1>3, DoneKeepsPending DEF Persist, RiskInv
  <2>4. UNCHANGED <<now, memory, lost, given, updates, failures, restarts>>
    BY <1>3 DEF Persist
  <2>5. TypeOK'
    BY <2>1, <2>2, <2>3, <2>4 DEF RiskInv, TypeOK
  <2>6. PastOnly'
    BY <2>1, <2>2, <2>3, <2>4 DEF RiskInv, TypeOK, PastOnly
  <2>7. AllJustified'
    BY <2>1, <2>2, <2>3, <2>4 DEF RiskInv, TypeOK, AllJustified, RiskJustified
  <2> QED BY <2>5, <2>6, <2>7 DEF RiskInv
<1>4. ASSUME NEW t \in Tasks, PersistFails(t)
      PROVE  RiskInv'
  <2>1. /\ pending' \in [Tasks -> Writes \cup {NoWrite}]
        /\ \A u \in Tasks : pending'[u] # NoWrite => pending'[u] = pending[u]
    BY <1>4, DoneKeepsPending DEF PersistFails, RiskInv
  <2>2. failures' \in 0..MaxFailures
    BY <1>4, SMT DEF PersistFails, RiskInv, TypeOK
  <2>3. UNCHANGED <<now, memory, table, lost, given, updates, restarts>>
    BY <1>4 DEF PersistFails
  <2> QED BY <2>1, <2>2, <2>3
            DEF RiskInv, TypeOK, PastOnly, AllJustified, RiskJustified
<1>5. ASSUME NEW loaded, Restart(loaded), loaded \in {table, [e \in Entities |-> Absent]},
             lost' \in BOOLEAN, failures' \in 0..MaxFailures
      PROVE  RiskInv'
  <2>1. restarts' \in 0..MaxRestarts
    BY <1>5, SMT DEF Restart, RiskInv, TypeOK
  <2>2. \A t \in Tasks : pending'[t] = NoWrite
    BY <1>5 DEF Restart
  <2>3. memory' = loaded /\ UNCHANGED <<now, table, given, updates>>
    BY <1>5 DEF Restart
  <2>4. TypeOK'
    BY <1>5, <2>1, <2>3 DEF Restart, RiskInv, TypeOK
  <2> QED BY <1>5, <2>2, <2>3, <2>4
            DEF RiskInv, PastOnly, AllJustified, RiskJustified
<1>6. CASE LoadFromDb
  BY <1>5, <1>6 DEF LoadFromDb, RiskInv, TypeOK
<1>7. CASE LoadFails
  <2>1. failures' \in 0..MaxFailures
    BY <1>7, SMT DEF LoadFails, RiskInv, TypeOK
  <2> QED BY <1>5, <1>7, <2>1 DEF LoadFails
<1>8. CASE Tick
  <2>1. now' \in 0..MaxTime /\ now' = now + 1 /\ now \in 0..MaxTime
    BY <1>8, SMT DEF Tick, RiskInv, TypeOK
  <2>2. UNCHANGED <<memory, table, pending, lost, given, updates, failures, restarts>>
    BY <1>8 DEF Tick
  <2>3. TypeOK' /\ AllJustified'
    BY <2>1, <2>2 DEF RiskInv, TypeOK, AllJustified, RiskJustified
  <2>4. \A x \in Entry : x.ts <= now => x.ts <= now'
    BY <2>1, SMT DEF Entry
  <2>5. PastOnly'
    BY <2>2, <2>4, PendingTyped DEF RiskInv, TypeOK, PastOnly
  <2> QED BY <2>3, <2>5 DEF RiskInv
<1>9. CASE UNCHANGED vars
  BY <1>9 DEF vars, RiskInv, TypeOK, PastOnly, AllJustified, RiskJustified
<1> QED BY <1>1, <1>2, <1>3, <1>4, <1>6, <1>7, <1>8, <1>9 DEF Next

\* The server starts with an empty store.
LEMMA RiskInvInit == Init => RiskInv
<1> SUFFICES ASSUME Init PROVE RiskInv
  OBVIOUS
<1>1. /\ 0 \in 0..MaxTime /\ 0 \in 0..MaxUpdates /\ 0 \in 0..MaxFailures
      /\ 0 \in 0..MaxRestarts /\ 0 \in Nat
  BY RiskAssumption, SMT
<1>2. TypeOK
  BY <1>1 DEF Init, TypeOK
<1> QED BY <1>2 DEF Init, RiskInv, PastOnly, AllJustified, RiskJustified

\* The invariant of every reachable state.
THEOREM RiskInvariant == Spec => []RiskInv
BY RiskInvInit, RiskInvStep, PTL DEF Spec

\* Every variable of the risk store keeps its type: no score leaves
\* 0..max_risk (update_risk caps what it stores).
THEOREM TypeCorrect == Spec => []TypeOK
<1>1. RiskInv => TypeOK
  BY DEF RiskInv
<1> QED BY RiskInvariant, <1>1, PTL

\* No entity is riskier than its events justify, in memory or in the table
\* (update_risk and _persist).
THEOREM RiskNeverInvented == Spec => []RiskJustified
<1>1. RiskInv => RiskJustified
  BY DEF RiskInv, AllJustified
<1> QED BY RiskInvariant, <1>1, PTL

-----------------------------------------------------------------------------
(* ForgetInv is inductive relative to RiskInv. *)

\* update_risk leaves every other entry of the entity behind: the new score is
\* not lower than what the old one has decayed to.
LEMMA StoreLeavesBehind ==
    ASSUME RiskInv, ForgetInv, NEW t \in Tasks, NEW e \in Entities, NEW s \in Scores,
           Current(e) <= s, pending[t] = NoWrite,
           Store(t, e, s), UNCHANGED <<now, table, lost>>
    PROVE  ForgetInv'
<1> DEFINE x == [score |-> s, ts |-> now]
<1> SUFFICES ASSUME ~lost'
             PROVE  /\ \A d \in Entities : table'[d] # Absent => Behind(table[d], d)'
                    /\ \A u \in Tasks : pending'[u] # NoWrite =>
                           Behind(pending[u].entry, pending[u].entity)'
  BY DEF ForgetInv
<1>1. /\ now \in 0..MaxTime /\ x \in Entry /\ x.score = s /\ x.ts = now
      /\ WorthAt(x, now) = s /\ x # Absent
  BY WorthNow, AbsentIsNoEntry DEF RiskInv, TypeOK, Entry
<1>2. /\ memory' = [memory EXCEPT ![e] = x]
      /\ pending' = [pending EXCEPT ![t] = [entity |-> e, entry |-> x]]
      /\ now' = now /\ table' = table
  BY DEF Store
<1>3. \A d \in Entities : memory'[d] = IF d = e THEN x ELSE memory[d]
  BY <1>2 DEF RiskInv, TypeOK
\* an entry that was behind before is behind now
<1>4. ASSUME NEW y \in Entry, NEW d \in Entities, y.ts <= now, Behind(y, d)
      PROVE  Behind(y, d)'
  <2>1. CASE d # e
    BY <2>1, <1>2, <1>3, <1>4 DEF Behind, WorthAt
  <2>2. CASE d = e
    <3>1. WorthAt(y, now) <= Current(e)
      BY <1>4, <2>2 DEF Behind, Current
    <3>2. memory[e] \in Entry /\ memory[e].ts <= now
      BY <1>4, <2>2 DEF Behind, RiskInv, TypeOK, PastOnly
    <3>3. WorthAt(y, now) \in Scores /\ Current(e) \in Scores
      BY <1>1, <1>4, <3>2, WorthBounded, <2>2 DEF Current, Behind
    <3>4. WorthAt(y, now) <= s
      BY <3>1, <3>3, RiskAssumption, SMT DEF Scores
    <3>5. WorthAt(y, now') <= WorthAt(x, now')
      BY <3>4, <1>1, <1>2
    <3> QED BY <3>5, <2>2, <1>1, <1>2, <1>3, <1>4 DEF Behind, WorthAt
  <2> QED BY <2>1, <2>2
<1>5. ASSUME NEW d \in Entities, table'[d] # Absent
      PROVE  Behind(table[d], d)'
  <2>1. table[d] \in Entry /\ table[d].ts <= now /\ Behind(table[d], d)
    BY <1>2, <1>5 DEF ForgetInv, RiskInv, TypeOK, PastOnly
  <2> DEFINE y == table[d]
  <2>2. /\ memory'[d] # Absent /\ y.ts <= memory'[d].ts
        /\ WorthAt(y, now') <= WorthAt(memory'[d], now')
    <3> HIDE DEF y
    <3>1. y \in Entry /\ y.ts <= now /\ Behind(y, d)
      BY <2>1 DEF y
    <3> QED BY <3>1, <1>4 DEF Behind, WorthAt
  <2> QED BY <2>2, <1>2 DEF Behind, WorthAt
<1>6. ASSUME NEW u \in Tasks, pending'[u] # NoWrite
      PROVE  Behind(pending[u].entry, pending[u].entity)'
  <2>1. CASE u = t
    <3>1. pending'[u].entity = e /\ pending'[u].entry = x
      BY <1>2, <2>1 DEF RiskInv, TypeOK
    <3>2. memory'[e] = x
      BY <1>3
    <3>3. x.ts <= x.ts /\ WorthAt(x, now) <= WorthAt(x, now)
      BY <1>1, RiskAssumption, SMT DEF Scores
    <3> QED BY <3>1, <3>2, <3>3, <1>1, <1>2 DEF Behind, WorthAt
  <2>2. CASE u # t
    <3>1. pending'[u] = pending[u]
      BY <1>2, <2>2 DEF RiskInv, TypeOK
    <3>2. /\ pending[u].entity \in Entities /\ pending[u].entry \in Entry
          /\ pending[u].entry.ts <= now
          /\ Behind(pending[u].entry, pending[u].entity)
      BY <1>6, <3>1, PendingTyped DEF ForgetInv, RiskInv, PastOnly
    <3> DEFINE y == pending[u].entry
               d == pending[u].entity
    <3>3. /\ memory'[d] # Absent /\ y.ts <= memory'[d].ts
          /\ WorthAt(y, now') <= WorthAt(memory'[d], now')
      <4> HIDE DEF y, d
      <4>1. y \in Entry /\ d \in Entities /\ y.ts <= now /\ Behind(y, d)
        BY <3>2 DEF y, d
      <4> QED BY <4>1, <1>4 DEF Behind, WorthAt
    <3> QED BY <3>1, <3>3 DEF Behind, WorthAt
  <2> QED BY <2>1, <2>2
<1> QED BY <1>5, <1>6

\* A tick decays an entry and what memory holds alike.
LEMMA TickLeavesBehind ==
    ASSUME RiskInv, Tick, NEW y \in Entry, NEW e \in Entities, y.ts <= now, Behind(y, e)
    PROVE  WorthAt(y, now') <= WorthAt(memory[e], now')
<1>1. now \in 0..MaxTime /\ now < MaxTime /\ now' = now + 1
  BY DEF Tick, RiskInv, TypeOK
<1>2. memory[e] \in Entry /\ memory[e].ts <= now
  BY DEF Behind, RiskInv, TypeOK, PastOnly
<1>3. /\ WorthAt(y, now) \in Scores /\ WorthAt(memory[e], now) \in Scores
      /\ WorthAt(y, now) <= WorthAt(memory[e], now)
  BY <1>1, <1>2, WorthBounded DEF Behind
<1>4. 1 <= MaxTime
  BY <1>1, RiskAssumption, SMT
<1>5. Decay(WorthAt(y, now), 1) <= Decay(WorthAt(memory[e], now), 1)
  BY <1>3, <1>4, DecayKeepsOrder
<1> QED BY <1>1, <1>2, <1>5, WorthLater

\* An upsert only moves an entry that is behind into the table, a failure or a
\* restart drops some, a reload makes memory equal to the table.
LEMMA ForgetStep == RiskInv /\ ForgetInv /\ [Next]_vars => ForgetInv'
<1> SUFFICES ASSUME RiskInv, ForgetInv, [Next]_vars PROVE ForgetInv'
  OBVIOUS
<1>1. ASSUME NEW t \in Tasks, NEW e \in Entities, NEW inc \in Increments, UpdateRisk(t, e, inc)
      PROVE  ForgetInv'
  <2>1. Raised(e, inc) \in Scores /\ Current(e) <= Raised(e, inc)
    BY RaisedBounds, RiskAssumption
  <2> QED BY <1>1, <2>1, StoreLeavesBehind DEF UpdateRisk
<1>2. ASSUME NEW t \in Tasks, NEW e \in Entities, CreateRisk(t, e)
      PROVE  ForgetInv'
  <2>1. 0 \in Scores /\ Current(e) <= 0
    BY <1>2, RiskAssumption, SMT DEF CreateRisk, Current, Scores
  <2> QED BY <1>2, <2>1, StoreLeavesBehind DEF CreateRisk
<1>3. ASSUME NEW t \in Tasks, Persist(t)
      PROVE  ForgetInv'
  <2> SUFFICES ASSUME ~lost
               PROVE  /\ \A e \in Entities : table'[e] # Absent => Behind(table[e], e)'
                      /\ \A u \in Tasks : pending'[u] # NoWrite =>
                             Behind(pending[u].entry, pending[u].entity)'
    BY <1>3 DEF ForgetInv, Persist
  <2>1. /\ pending[t].entity \in Entities
        /\ Behind(pending[t].entry, pending[t].entity)
    BY <1>3, PendingTyped DEF Persist, RiskInv, ForgetInv
  <2>2. /\ table' = [table EXCEPT ![pending[t].entity] = pending[t].entry]
        /\ memory' = memory /\ now' = now
    BY <1>3 DEF Persist
  <2>3. \A u \in Tasks : pending'[u] # NoWrite => pending'[u] = pending[u]
    BY <1>3, DoneKeepsPending DEF Persist, RiskInv
  <2>4. \A e \in Entities : table'[e] = IF e = pending[t].entity THEN pending[t].entry
                                                                   ELSE table[e]
    BY <2>2 DEF RiskInv, TypeOK
  <2>5. ASSUME NEW e \in Entities, table'[e] # Absent
        PROVE  Behind(table[e], e)'
    BY <2>1, <2>2, <2>4, <2>5 DEF ForgetInv, Behind, WorthAt
  <2>6. ASSUME NEW u \in Tasks, pending'[u] # NoWrite
        PROVE  Behind(pending[u].entry, pending[u].entity)'
    BY <2>2, <2>3, <2>6 DEF ForgetInv, Behind, WorthAt
  <2> QED BY <2>5, <2>6
<1>4. ASSUME NEW t \in Tasks, PersistFails(t)
      PROVE  ForgetInv'
  <2>1. \A u \in Tasks : pending'[u] # NoWrite => pending'[u] = pending[u]
    BY <1>4, DoneKeepsPending DEF PersistFails, RiskInv
  <2> QED BY <1>4, <2>1 DEF PersistFails, ForgetInv, Behind, WorthAt
<1>5. CASE LoadFromDb
  <2>1. /\ memory' = table /\ table' = table /\ now' = now
        /\ \A t \in Tasks : pending'[t] = NoWrite
    BY <1>5 DEF LoadFromDb, Restart
  <2>2. ASSUME NEW e \in Entities, table'[e] # Absent
        PROVE  Behind(table[e], e)'
    <3>1. table[e] \in Entry /\ table[e].ts <= now /\ now \in 0..MaxTime
      BY <2>1, <2>2 DEF RiskInv, TypeOK, PastOnly
    <3>2. table[e].ts <= table[e].ts /\ WorthAt(table[e], now) <= WorthAt(table[e], now)
      BY <3>1, WorthBounded, RiskAssumption, SMT DEF Entry, Scores
    <3> QED BY <2>1, <2>2, <3>2 DEF Behind, WorthAt
  <2> QED BY <2>1, <2>2 DEF ForgetInv
<1>6. CASE LoadFails
  BY <1>6 DEF LoadFails, ForgetInv
<1>7. CASE Tick
  <2>1. UNCHANGED <<memory, table, pending, lost>>
    BY <1>7 DEF Tick
  <2> SUFFICES ASSUME ~lost
               PROVE  /\ \A e \in Entities : table[e] # Absent => Behind(table[e], e)'
                      /\ \A u \in Tasks : pending[u] # NoWrite =>
                             Behind(pending[u].entry, pending[u].entity)'
    BY <2>1 DEF ForgetInv
  <2>2. ASSUME NEW e \in Entities, table[e] # Absent
        PROVE  Behind(table[e], e)'
    <3>1. table[e] \in Entry /\ table[e].ts <= now /\ Behind(table[e], e)
      BY <2>2 DEF ForgetInv, RiskInv, TypeOK, PastOnly
    <3>2. WorthAt(table[e], now') <= WorthAt(memory[e], now')
      BY <1>7, <3>1, TickLeavesBehind
    <3> QED BY <2>1, <3>1, <3>2 DEF Behind, WorthAt
  <2>3. ASSUME NEW u \in Tasks, pending[u] # NoWrite
        PROVE  Behind(pending[u].entry, pending[u].entity)'
    <3>1. /\ pending[u].entry \in Entry /\ pending[u].entity \in Entities
          /\ pending[u].entry.ts <= now
          /\ Behind(pending[u].entry, pending[u].entity)
      BY <2>3, PendingTyped DEF ForgetInv, RiskInv, PastOnly
    <3>2. WorthAt(pending[u].entry, now') <= WorthAt(memory[pending[u].entity], now')
      BY <1>7, <3>1, TickLeavesBehind
    <3> QED BY <2>1, <3>1, <3>2 DEF Behind, WorthAt
  <2> QED BY <2>2, <2>3
<1>8. CASE UNCHANGED vars
  BY <1>8 DEF vars, ForgetInv, Behind, WorthAt
<1> QED BY <1>1, <1>2, <1>3, <1>4, <1>5, <1>6, <1>7, <1>8 DEF Next

\* Over upserts that cross, fail or are lost, a row is never worth more than
\* the risk in memory: a restart can forget events but not bring back risk that
\* has decayed (_persist writes the score with its own instant).
THEOREM RestartNeverRevives == Spec => []RestartForgetsOnly
<1>1. Init => ForgetInv
  BY DEF Init, ForgetInv
<1>2. ForgetInv => RestartForgetsOnly
  BY DEF ForgetInv, RestartForgetsOnly, Behind
<1> QED BY RiskInvariant, ForgetStep, <1>1, <1>2, PTL DEF Spec
=============================================================================
