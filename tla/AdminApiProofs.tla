--------------------------- MODULE AdminApiProofs ---------------------------
(***************************************************************************)
(* Proofs about AdminApi for any number of users, agents, requests and     *)
(* restarts.                                                               *)
(***************************************************************************)
EXTENDS AdminApi, TLAPS

\* The fields of an operation are those of its kind.
LEMMA OpFields ==
    ASSUME NEW op \in Operations
    PROVE  /\ op.kind = "create_user" => op.name \in UserSpellings /\ op.role \in Roles
           /\ op.kind \in {"deactivate_user", "login"} => op.user \in UserNames
           /\ op.kind \in {"create_agent", "rename_agent"} => op.name \in AgentSpellings
           /\ op.kind \in {"rename_agent", "deactivate_agent", "delete_agent"} => op.agent \in Ids
BY DEF Operations, AdminOps, UserOps, AgentOps, LoginOps, HeartbeatOps, NoOp

\* The fields of a request.
LEMMA RequestFields ==
    ASSUME TypeOK, NEW r \in Requests
    PROVE  /\ req[r] \in Request
           /\ req[r].op \in Operations /\ req[r].actor \in UserNames
           /\ req[r].stage \in Stages /\ req[r].answer \in Answers
           /\ req[r].dirty \in SUBSET Ids /\ req[r].after \in SUBSET Requests
           /\ req[r].now \in 0..MaxTime /\ req[r].wrote \in BOOLEAN
BY DEF TypeOK, Request

\* What a request that moves on may become.
LEMMA AnswerTyped ==
    ASSUME TypeOK, NEW r \in Requests, NEW a \in Answers, Answer(r, a)
    PROVE  req' \in [Requests -> Request]
<1>1. ASSUME NEW q \in Request
      PROVE  [q EXCEPT !.stage = "answered", !.answer = a] \in Request
  BY DEF Request, Stages
<1> QED BY <1>1, RequestFields DEF Answer, TypeOK

LEMMA CommitTyped ==
    ASSUME TypeOK, NEW r \in Requests,
           Commit(r) \/ \E i \in Ids : CommitNew(r, i)
    PROVE  req' \in [Requests -> Request]
<1>1. ASSUME NEW q \in Request
      PROVE  /\ [q EXCEPT !.stage = "committed", !.wrote = TRUE] \in Request
             /\ \A i \in Ids :
                    [q EXCEPT !.stage = "committed", !.wrote = TRUE, !.dirty = {i}] \in Request
  BY DEF Request, Stages
<1>2. CASE Commit(r)
  BY <1>1, <1>2, RequestFields DEF Commit, TypeOK
<1>3. ASSUME NEW i \in Ids, CommitNew(r, i) PROVE req' \in [Requests -> Request]
  BY <1>1, <1>3, RequestFields DEF CommitNew, TypeOK
<1> QED BY <1>2, <1>3

LEMMA LoadTyped ==
    ASSUME TypeOK, NEW r \in Requests, NEW ids \in SUBSET Ids, Load(r, ids)
    PROVE  req' \in [Requests -> Request]
<1>1. ASSUME NEW q \in Request
      PROVE  [q EXCEPT !.stage = "loaded", !.dirty = ids] \in Request
  BY DEF Request, Stages
<1> QED BY <1>1, RequestFields DEF Load, TypeOK

LEMMA BeganTyped ==
    ASSUME TypeOK, NEW r \in Requests, NEW op \in Operations, NEW u \in UserNames,
           NEW stage \in Stages, NEW a \in Answers, NEW ids \in SUBSET Ids,
           Began(r, op, u, stage, a, ids)
    PROVE  req' \in [Requests -> Request]
<1> DEFINE q == [op |-> op, actor |-> u, stage |-> stage, answer |-> a,
                 dirty |-> ids, now |-> IF stage = "loaded" THEN clock ELSE 0,
                 wrote |-> FALSE, after |-> Settled, run |-> restarts]
<1>0. (IF stage = "loaded" THEN clock ELSE 0) \in 0..MaxTime
  BY AdminAssumption, SMT DEF TypeOK
<1>1. q \in Request
  BY <1>0 DEF Request, Settled, TypeOK
<1>2. req' = [req EXCEPT ![r] = q]
  BY DEF Began
<1> QED BY <1>1, <1>2 DEF TypeOK

LEMMA InitTyped == Init => TypeOK
<1> SUFFICES ASSUME Init PROVE TypeOK
  OBVIOUS
<1>1. PICK k \in EnvKeys :
          agents = [i \in Ids |-> IF i = 1 THEN NewAgent(Demo, <<"env", k>>) ELSE NoAgent]
  BY DEF Init
<1>2. NewAgent(Demo, <<"env", k>>) \in AgentRow
  BY AdminAssumption DEF NewAgent, AgentRow, Keys, Never
<1>3. NotSent \in Request
  BY AdminAssumption, SMT DEF NotSent, Request, Operations, Stages, Answers
<1>4. users \in [UserNames -> {NoUser} \cup [role : Roles, active : BOOLEAN]]
  BY DEF Init, NewUser, Roles
<1>5. nextId \in 1..(MaxAgents + 1) /\ clock \in 0..MaxTime /\ restarts \in 0..MaxRestarts
  BY AdminAssumption, SMT DEF Init
<1> QED BY <1>1, <1>2, <1>3, <1>4, <1>5 DEF Init, TypeOK

\* Rows keep their type when one of their fields is written.
LEMMA RowsTyped ==
    ASSUME TypeOK, NEW i \in Ids
    PROVE  /\ agents[i] \in {NoAgent} \cup AgentRow
           /\ \A t \in 0..MaxTime : Exists(i) => [agents[i] EXCEPT !.seen = t] \in AgentRow
           /\ Exists(i) => [agents[i] EXCEPT !.active = FALSE] \in AgentRow
           /\ \A name \in AgentNames : Exists(i) => [agents[i] EXCEPT !.name = name] \in AgentRow
           /\ \A k \in Keys : Exists(i) => [agents[i] EXCEPT !.key = k, !.active = TRUE] \in AgentRow
<1>1. agents[i] \in {NoAgent} \cup AgentRow
  BY DEF TypeOK
<1>2. ASSUME NEW a \in AgentRow
      PROVE  /\ \A t \in 0..MaxTime : [a EXCEPT !.seen = t] \in AgentRow
             /\ [a EXCEPT !.active = FALSE] \in AgentRow
             /\ \A name \in AgentNames : [a EXCEPT !.name = name] \in AgentRow
             /\ \A k \in Keys : [a EXCEPT !.key = k, !.active = TRUE] \in AgentRow
  BY <1>1 DEF AgentRow
<1> QED BY <1>1, <1>2 DEF Exists

\* A new row of agents, and the sequence behind it.
LEMMA NewAgentTyped ==
    ASSUME TypeOK, NEW name \in AgentNames, NEW key \in Keys, nextId \in Ids,
           agents' = [agents EXCEPT ![nextId] = NewAgent(name, key)], nextId' = nextId + 1
    PROVE  agents' \in [Ids -> {NoAgent} \cup AgentRow] /\ nextId' \in 1..(MaxAgents + 1)
<1>1. NewAgent(name, key) \in AgentRow
  BY DEF NewAgent, AgentRow, Never
<1>2. nextId' \in 1..(MaxAgents + 1)
  BY AdminAssumption, SMT DEF Ids, TypeOK
<1> QED BY <1>1, <1>2 DEF TypeOK

LEMMA NamesTyped ==
    /\ \A s \in UserSpellings : UserName[s] \in UserNames
    /\ \A s \in AgentSpellings : AgentName[s] \in AgentNames
    /\ \A k \in EnvKeys : <<"env", k>> \in Keys
    /\ \A i \in Ids : <<"spy", i>> \in Keys
BY DEF UserNames, AgentNames, Keys

\* A request that begins.
LEMMA ArrivalTyped ==
    ASSUME TypeOK, NEW r \in Requests,
           \/ \E u \in UserNames, op \in AdminOps : Arrive(r, u, op)
           \/ \E op \in LoginOps : Login(r, op)
           \/ \E op \in HeartbeatOps : Heartbeat(r, op)
    PROVE  TypeOK'
<1>1. CASE \E u \in UserNames, op \in AdminOps : Arrive(r, u, op)
  <2> PICK u \in UserNames, op \in AdminOps : Arrive(r, u, op)
    BY <1>1
  <2>1. op \in Operations
    BY DEF Operations
  <2>2. RequireAdmin(u) \in Answers /\ {} \in SUBSET Ids
    BY DEF RequireAdmin, Answers
  <2>3. req' \in [Requests -> Request]
    BY <2>1, <2>2, BeganTyped DEF Arrive, Stages
  <2> QED BY <2>3 DEF Arrive, rows, TypeOK
<1>2. CASE \E op \in LoginOps : Login(r, op)
  <2> PICK op \in LoginOps : Login(r, op)
    BY <1>2
  <2>1. op \in Operations /\ op.user \in UserNames
    BY DEF Operations, LoginOps
  <2>2. {} \in SUBSET Ids /\ "answered" \in Stages /\ "ok" \in Answers /\ "unauthorized" \in Answers
    BY DEF Answers, Stages
  <2>3. req' \in [Requests -> Request]
    BY <2>1, <2>2, BeganTyped DEF Login
  <2> QED BY <2>3 DEF Login, rows, TypeOK
<1>3. CASE \E op \in HeartbeatOps : Heartbeat(r, op)
  <2> PICK op \in HeartbeatOps : Heartbeat(r, op)
    BY <1>3
  <2>1. op \in Operations /\ Root \in UserNames
    BY AdminAssumption DEF Operations
  <2>2. /\ {} \in SUBSET Ids /\ \A i \in Ids : {i} \in SUBSET Ids
        /\ "answered" \in Stages /\ "loaded" \in Stages
        /\ "unauthorized" \in Answers /\ "forbidden" \in Answers /\ "none" \in Answers
    BY DEF Answers, Stages
  <2>3. CASE Began(r, op, Root, "answered", "unauthorized", {})
    <3>1. req' \in [Requests -> Request]
      BY <2>1, <2>2, <2>3, BeganTyped
    <3> QED BY <3>1 DEF Heartbeat, rows, TypeOK
  <2>4. ASSUME NEW i \in Owners(op.key),
               IF agents[i].active
               THEN Began(r, op, Root, "loaded", "none", {i})
               ELSE Began(r, op, Root, "answered", "forbidden", {i})
        PROVE  TypeOK'
    <3>1. i \in Ids
      BY DEF Owners
    <3>2. req' \in [Requests -> Request]
      BY <2>1, <2>2, <2>4, <3>1, BeganTyped
    <3> QED BY <3>2 DEF Heartbeat, rows, TypeOK
  <2> QED BY <2>3, <2>4 DEF Heartbeat
<1> QED BY <1>1, <1>2, <1>3

LEMMA AnswerNames ==
    {"ok", "bad_request", "not_found", "conflict", "error", "lost"} \subseteq Answers
BY DEF Answers

\* A step of a handler on the table of users.
LEMMA UserStepTyped ==
    ASSUME TypeOK, NEW r \in Requests,
           FindUser(r) \/ InsertUser(r) \/ GetUser(r) \/ DeactivateUser(r)
    PROVE  TypeOK'
<1> DEFINE UserRows == {NoUser} \cup [role : Roles, active : BOOLEAN]
<1>0. req[r].op \in Operations /\ {} \in SUBSET Ids
  BY RequestFields
<1>1. CASE FindUser(r) \/ GetUser(r)
  <2>1. req' \in [Requests -> Request]
    BY <1>0, <1>1, AnswerTyped, LoadTyped, AnswerNames DEF FindUser, GetUser
  <2> QED BY <1>1, <2>1 DEF FindUser, GetUser, rows, TypeOK
<1>2. CASE InsertUser(r)
  <2>1. req' \in [Requests -> Request]
    BY <1>2, AnswerTyped, CommitTyped, AnswerNames DEF InsertUser
  <2>2. UserName[req[r].op.name] \in UserNames /\ NewUser(req[r].op.role) \in UserRows
    BY <1>0, <1>2, OpFields, NamesTyped DEF InsertUser, At, NewUser
  <2>3. users' \in [UserNames -> UserRows]
    BY <1>2, <2>2 DEF InsertUser, TypeOK
  <2> QED BY <1>2, <2>1, <2>3 DEF InsertUser, TypeOK
<1>3. CASE DeactivateUser(r)
  <2>1. req' \in [Requests -> Request]
    BY <1>3, CommitTyped DEF DeactivateUser
  <2>2. \A row \in UserRows : [row EXCEPT !.active = FALSE] \in UserRows
    <3>1. [NoUser EXCEPT !.active = FALSE] = NoUser
      <4>1. \A row \in [role : {"none"}, active : {FALSE}] :
                [row EXCEPT !.active = FALSE] \in [role : {"none"}, active : {FALSE}]
        OBVIOUS
      <4>2. NoUser \in [role : {"none"}, active : {FALSE}]
        BY DEF NoUser
      <4>3. \A row \in [role : {"none"}, active : {FALSE}] :
                row = [role |-> row.role, active |-> row.active]
        OBVIOUS
      <4>4. \A row \in [role : {"none"}, active : {FALSE}] : row.role = "none" /\ row.active = FALSE
        OBVIOUS
      <4>5. \A row \in [role : {"none"}, active : {FALSE}] : row = NoUser
        BY <4>3, <4>4, Zenon DEF NoUser
      <4> QED BY <4>1, <4>2, <4>5, Zenon
    <3>2. \A row \in [role : Roles, active : BOOLEAN] :
              [row EXCEPT !.active = FALSE] \in [role : Roles, active : BOOLEAN]
      OBVIOUS
    <3> QED BY <3>1, <3>2
  <2>3. users' \in [UserNames -> UserRows]
    BY <1>3, <2>2 DEF DeactivateUser, TypeOK
  <2> QED BY <1>3, <2>1, <2>3 DEF DeactivateUser, TypeOK
<1> QED BY <1>1, <1>2, <1>3

\* A step that reads the table of agents.
LEMMA AgentReadTyped ==
    ASSUME TypeOK, NEW r \in Requests, FindAgent(r) \/ GetAgent(r) \/ FindSilent(r)
    PROVE  TypeOK'
<1>0. req[r].op \in Operations /\ {} \in SUBSET Ids
  BY RequestFields
<1>1. CASE FindAgent(r)
  <2>1. req' \in [Requests -> Request]
    BY <1>0, <1>1, AnswerTyped, LoadTyped, AnswerNames DEF FindAgent
  <2> QED BY <1>1, <2>1 DEF FindAgent, rows, TypeOK
<1>2. CASE GetAgent(r)
  <2>1. req[r].op.agent \in Ids
    BY <1>0, <1>2, OpFields DEF GetAgent
  <2>2. req' \in [Requests -> Request]
    BY <1>0, <1>2, <2>1, AnswerTyped, LoadTyped, AnswerNames DEF GetAgent
  <2> QED BY <1>2, <2>2 DEF GetAgent, rows, TypeOK
<1>3. CASE FindSilent(r)
  <2> DEFINE silent == { i \in Ids : agents[i].active /\ Silent(i, clock) }
  <2>1. CASE Answer(r, "ok")
    BY <1>3, <2>1, AnswerTyped, AnswerNames DEF FindSilent, rows, TypeOK
  <2>2. CASE req' = [req EXCEPT ![r].stage = "loaded", ![r].dirty = silent, ![r].now = clock]
    <3>1. silent \in SUBSET Ids /\ clock \in 0..MaxTime
      BY DEF TypeOK
    <3>2. ASSUME NEW q \in Request
          PROVE  [q EXCEPT !.stage = "loaded", !.dirty = silent, !.now = clock] \in Request
      <4> HIDE DEF silent
      <4> QED BY <3>1 DEF Request, Stages
    <3>3. req' \in [Requests -> Request]
      <4> HIDE DEF silent
      <4> QED BY <2>2, <3>2, RequestFields DEF TypeOK
    <3> QED BY <1>3, <3>3 DEF FindSilent, rows, TypeOK
  <2> QED BY <1>3, <2>1, <2>2 DEF FindSilent
<1> QED BY <1>1, <1>2, <1>3

\* A step that writes the table of agents.
LEMMA AgentWriteTyped ==
    ASSUME TypeOK, NEW r \in Requests,
           RecordHeartbeat(r) \/ InsertAgent(r) \/ RenameAgent(r) \/ DeleteAgent(r) \/ Deactivate(r)
    PROVE  TypeOK'
<1>0. req[r].op \in Operations /\ req[r].dirty \in SUBSET Ids
  BY RequestFields
<1>1. CASE RecordHeartbeat(r)
  <2> PICK i \in req[r].dirty :
          IF Exists(i)
          THEN agents' = [agents EXCEPT ![i].seen = req[r].now] /\ Commit(r)
          ELSE UNCHANGED agents /\ Answer(r, "error")
    BY <1>1 DEF RecordHeartbeat
  <2>1. req' \in [Requests -> Request]
    BY AnswerTyped, CommitTyped, AnswerNames
  <2>2. agents' \in [Ids -> {NoAgent} \cup AgentRow]
    <3> DEFINE t == req[r].now
    <3>1. t \in 0..MaxTime /\ i \in Ids
      BY <1>0, RequestFields
    <3>2. agents' = agents \/ (Exists(i) /\ agents' = [agents EXCEPT ![i].seen = t])
      OBVIOUS
    <3> HIDE DEF t
    <3>3. Exists(i) => [agents[i] EXCEPT !.seen = t] \in AgentRow
      BY <3>1, RowsTyped
    <3> QED BY <3>1, <3>2, <3>3 DEF TypeOK
  <2> QED BY <1>1, <2>1, <2>2 DEF RecordHeartbeat, TypeOK
<1>2. CASE InsertAgent(r)
  <2>1. AgentName[req[r].op.name] \in AgentNames
    BY <1>0, <1>2, OpFields, NamesTyped DEF InsertAgent, At
  <2>2. CASE UNCHANGED <<agents, nextId>> /\ Answer(r, "error")
    BY <1>2, <2>2, AnswerTyped, AnswerNames DEF InsertAgent, TypeOK
  <2>3. CASE /\ nextId \in Ids /\ nextId' = nextId + 1 /\ CommitNew(r, nextId)
             /\ agents' = [agents EXCEPT ![nextId] =
                               NewAgent(AgentName[req[r].op.name], <<"spy", nextId>>)]
    <3>1. agents' \in [Ids -> {NoAgent} \cup AgentRow] /\ nextId' \in 1..(MaxAgents + 1)
      BY <2>1, <2>3, NewAgentTyped, NamesTyped
    <3>2. req' \in [Requests -> Request]
      BY <2>3, CommitTyped
    <3> QED BY <1>2, <3>1, <3>2 DEF InsertAgent, TypeOK
  <2> QED BY <1>2, <2>2, <2>3 DEF InsertAgent
<1>3. CASE RenameAgent(r)
  <2> DEFINE name == AgentName[req[r].op.name]
  <2>1. name \in AgentNames /\ req[r].op.agent \in Ids
    BY <1>0, <1>3, OpFields, NamesTyped DEF RenameAgent, At
  <2>2. req' \in [Requests -> Request]
    BY <1>3, AnswerTyped, CommitTyped, AnswerNames DEF RenameAgent
  <2>3. agents' \in [Ids -> {NoAgent} \cup AgentRow]
    <3> DEFINE i == req[r].op.agent
    <3>1. UNCHANGED agents \/ (Exists(i) /\ agents' = [agents EXCEPT ![i].name = name])
      BY <1>3 DEF RenameAgent
    <3>2. Exists(i) => [agents[i] EXCEPT !.name = name] \in AgentRow
      BY <2>1, RowsTyped
    <3> HIDE DEF i, name
    <3> QED BY <2>1, <3>1, <3>2 DEF TypeOK
  <2> QED BY <1>3, <2>2, <2>3 DEF RenameAgent, TypeOK
<1>4. CASE DeleteAgent(r)
  <2>1. req' \in [Requests -> Request]
    BY <1>4, CommitTyped DEF DeleteAgent
  <2> QED BY <1>4, <2>1 DEF DeleteAgent, TypeOK
<1>5. CASE Deactivate(r)
  <2>1. req' \in [Requests -> Request]
    BY <1>5, AnswerTyped, CommitTyped, AnswerNames DEF Deactivate
  <2>2. agents' \in [Ids -> {NoAgent} \cup AgentRow]
    BY <1>0, <1>5, RowsTyped DEF Deactivate, TypeOK
  <2> QED BY <1>5, <2>1, <2>2 DEF Deactivate, TypeOK
<1> QED BY <1>1, <1>2, <1>3, <1>4, <1>5

LEMMA RespondTyped ==
    ASSUME TypeOK, NEW r \in Requests, Respond(r)
    PROVE  TypeOK'
<1>1. req' \in [Requests -> Request]
  BY AnswerTyped, AnswerNames DEF Respond
<1> QED BY <1>1 DEF Respond, rows, TypeOK

LEMMA RestartTyped ==
    ASSUME TypeOK, NEW k \in EnvKeys, Restart(k)
    PROVE  TypeOK'
<1>1. ASSUME NEW q \in Request
      PROVE  [q EXCEPT !.stage = "answered", !.answer = "lost"] \in Request
  BY DEF Request, Stages, Answers
<1>2. req' \in [Requests -> Request]
  BY <1>1, RequestFields DEF Restart, TypeOK
<1>3. restarts' \in 0..MaxRestarts
  <2>1. restarts \in 0..MaxRestarts /\ restarts < MaxRestarts /\ restarts' = restarts + 1
    BY DEF Restart, TypeOK
  <2> QED BY <2>1, AdminAssumption, SMT
<1>4. agents' \in [Ids -> {NoAgent} \cup AgentRow] /\ nextId' \in 1..(MaxAgents + 1)
  <2> DEFINE key == <<"env", k>>
  <2>1. key \in Keys /\ Demo \in AgentNames
    BY NamesTyped, AdminAssumption
  <2>2. CASE UNCHANGED <<agents, nextId>>
    BY <2>2 DEF TypeOK
  <2>3. CASE /\ UNCHANGED nextId
             /\ agents' = [i \in Ids |-> IF i \in Named(Demo)
                                         THEN [agents[i] EXCEPT !.key = key, !.active = TRUE]
                                         ELSE agents[i]]
    <3>1. \A i \in Named(Demo) : [agents[i] EXCEPT !.key = key, !.active = TRUE] \in AgentRow
      BY <2>1, RowsTyped DEF Named
    <3> QED BY <2>3, <3>1, RowsTyped DEF TypeOK
  <2>4. CASE /\ nextId \in Ids /\ nextId' = nextId + 1
             /\ agents' = [agents EXCEPT ![nextId] = NewAgent(Demo, key)]
    BY <2>1, <2>4, NewAgentTyped
  <2> QED BY <2>2, <2>3, <2>4 DEF Restart, Seed
<1> QED BY <1>2, <1>3, <1>4 DEF Restart, TypeOK

\* TypeOK, for every value of the constants.
LEMMA NextTyped == TypeOK /\ [Next]_vars => TypeOK'
<1> SUFFICES ASSUME TypeOK, [Next]_vars PROVE TypeOK'
  OBVIOUS
<1>1. ASSUME NEW r \in Requests, Step(r) PROVE TypeOK'
  BY <1>1, ArrivalTyped, UserStepTyped, AgentReadTyped, AgentWriteTyped, RespondTyped DEF Step
<1>2. ASSUME NEW k \in EnvKeys, Restart(k) PROVE TypeOK'
  BY <1>2, RestartTyped
<1>3. CASE Tick
  <2>1. clock' \in 0..MaxTime
    BY <1>3, AdminAssumption, SMT DEF Tick, TypeOK
  <2> QED BY <1>3, <2>1 DEF Tick, rows, TypeOK
<1>4. CASE UNCHANGED vars
  BY <1>4 DEF vars, TypeOK
<1> QED BY <1>1, <1>2, <1>3, <1>4 DEF Next

THEOREM TypeCorrect == Spec => []TypeOK
<1> QED BY InitTyped, NextTyped, PTL DEF Spec

-----------------------------------------------------------------------------
(* How a step takes requests on.  What was committed, or answered without a *)
(* commit, stays: only its answer may still go out.                         *)

Undecided(r) == req[r].stage \in {"open", "loaded"}

AfterSettled == \A r \in Requests : req[r].after \subseteq Settled
WroteSettled ==
    \A r \in Requests : /\ req[r].wrote => r \in Settled
                        /\ req[r].stage = "committed" => req[r].wrote

\* A step that takes request s on from where it stands.
GoesOn(s) ==
    /\ Undecided(s)
    /\ req'[s].op = req[s].op /\ req'[s].actor = req[s].actor
    /\ req'[s].after = req[s].after /\ req'[s].run = req[s].run

\* A step that leaves request s as it stands, or answers what it committed.
SameDeed(s) ==
    /\ req'[s].op = req[s].op /\ req'[s].actor = req[s].actor /\ req'[s].after = req[s].after
    /\ req'[s].run = req[s].run /\ req'[s].dirty = req[s].dirty /\ req'[s].now = req[s].now
    /\ req'[s].wrote = req[s].wrote
    /\ \/ req'[s].stage = req[s].stage /\ req'[s].answer = req[s].answer
       \/ req[s].stage = "committed" /\ req'[s].stage = "answered"

DeedsStay == \A s \in Settled : SameDeed(s)

LEMMA SameIsSame ==
    \A s \in Requests : req'[s] = req[s] => SameDeed(s)
BY DEF SameDeed

LEMMA AnswerGoesOn ==
    ASSUME TypeOK, NEW r \in Requests, NEW a, Undecided(r), Answer(r, a)
    PROVE  /\ GoesOn(r) /\ req'[r].stage = "answered" /\ req'[r].answer = a
           /\ req'[r].dirty = req[r].dirty /\ req'[r].wrote = req[r].wrote
           /\ \A s \in Requests \ {r} : req'[s] = req[s]
BY DEF Answer, GoesOn, TypeOK, Request

LEMMA LoadGoesOn ==
    ASSUME TypeOK, NEW r \in Requests, NEW ids, Undecided(r),
           \/ Load(r, ids)
           \/ req' = [req EXCEPT ![r].stage = "loaded", ![r].dirty = ids, ![r].now = clock]
    PROVE  /\ GoesOn(r) /\ req'[r].stage = "loaded" /\ req'[r].dirty = ids
           /\ req'[r].answer = req[r].answer /\ req'[r].wrote = req[r].wrote
           /\ \A s \in Requests \ {r} : req'[s] = req[s]
BY DEF Load, GoesOn, TypeOK, Request

LEMMA CommitGoesOn ==
    ASSUME TypeOK, NEW r \in Requests, Undecided(r), Commit(r)
    PROVE  /\ GoesOn(r) /\ req'[r].stage = "committed" /\ req'[r].wrote
           /\ req'[r].answer = req[r].answer /\ req'[r].dirty = req[r].dirty
           /\ \A s \in Requests \ {r} : req'[s] = req[s]
BY DEF Commit, GoesOn, TypeOK, Request

LEMMA CommitNewGoesOn ==
    ASSUME TypeOK, NEW r \in Requests, NEW i, Undecided(r), CommitNew(r, i)
    PROVE  /\ GoesOn(r) /\ req'[r].stage = "committed" /\ req'[r].wrote
           /\ req'[r].answer = req[r].answer /\ req'[r].dirty = {i}
           /\ \A s \in Requests \ {r} : req'[s] = req[s]
BY DEF CommitNew, GoesOn, TypeOK, Request

LEMMA RespondGoesOn ==
    ASSUME TypeOK, NEW r \in Requests, Respond(r)
    PROVE  /\ SameDeed(r) /\ req[r].stage = "committed" /\ req'[r].stage = "answered"
           /\ req'[r].answer = IF \A i \in Refreshed(r) : Exists(i) THEN "ok" ELSE "error"
           /\ \A s \in Requests \ {r} : req'[s] = req[s]
           /\ UNCHANGED <<users, agents, nextId, clock, restarts>>
<1> DEFINE a == IF \A i \in Refreshed(r) : Exists(i) THEN "ok" ELSE "error"
<1>1. Answer(r, a) /\ req[r].stage = "committed" /\ UNCHANGED <<rows, clock, restarts>>
  BY DEF Respond
<1> HIDE DEF a
<1>2. /\ SameDeed(r) /\ req'[r].stage = "answered" /\ req'[r].answer = a
      /\ \A s \in Requests \ {r} : req'[s] = req[s]
  BY <1>1 DEF Answer, SameDeed, TypeOK, Request
<1> QED BY <1>1, <1>2 DEF a, rows

LEMMA RestartGoesOn ==
    ASSUME TypeOK, NEW k \in EnvKeys, Restart(k), NEW s \in Requests
    PROVE  \/ req'[s] = req[s] /\ ~InFlight(s)
           \/ /\ GoesOn(s) /\ req'[s].stage = "answered" /\ req'[s].answer = "lost"
              /\ req'[s].dirty = req[s].dirty /\ req'[s].wrote = req[s].wrote
           \/ /\ SameDeed(s) /\ req[s].stage = "committed"
              /\ req'[s].stage = "answered" /\ req'[s].answer = "lost"
<1>1. req'[s] = IF InFlight(s) THEN [req[s] EXCEPT !.stage = "answered", !.answer = "lost"] ELSE req[s]
  BY DEF Restart
<1>2. req[s] \in Request
  BY DEF TypeOK
<1>3. CASE ~InFlight(s)
  BY <1>1, <1>3
<1>4. CASE Undecided(s)
  BY <1>1, <1>2, <1>4 DEF GoesOn, Request, Undecided, InFlight
<1>5. CASE req[s].stage = "committed"
  BY <1>1, <1>2, <1>5 DEF SameDeed, Request, InFlight
<1> QED BY <1>3, <1>4, <1>5 DEF Undecided, InFlight

\* The steps of a request that was let in, until it commits or fails.
Handles(r) ==
    \/ FindUser(r) \/ InsertUser(r) \/ GetUser(r) \/ DeactivateUser(r)
    \/ FindAgent(r) \/ InsertAgent(r) \/ GetAgent(r) \/ RenameAgent(r) \/ DeleteAgent(r)
    \/ FindSilent(r) \/ Deactivate(r) \/ RecordHeartbeat(r)

LEMMA StepIsHandled ==
    ASSUME NEW r \in Requests, Step(r)
    PROVE  \/ \E u \in UserNames, op \in AdminOps : Arrive(r, u, op)
           \/ \E op \in LoginOps : Login(r, op)
           \/ \E op \in HeartbeatOps : Heartbeat(r, op)
           \/ Handles(r)
           \/ Respond(r)
BY DEF Step, Handles

\* Each of them takes it on, and nobody else; it is answered, has read or commits.
LEMMA HandlesGoesOn ==
    ASSUME TypeOK, WroteSettled, NEW r \in Requests, Handles(r)
    PROVE  /\ GoesOn(r) /\ \A s \in Requests \ {r} : req'[s] = req[s]
           /\ \/ /\ req'[r].stage = "answered" /\ req[r].stage = "open" /\ ~req'[r].wrote
                 /\ req'[r].dirty = req[r].dirty /\ req'[r].answer # "error"
                 /\ (req'[r].answer = "ok" => req[r].op.kind = "sweep")
              \/ /\ req'[r].stage = "answered" /\ req[r].stage = "loaded" /\ ~req'[r].wrote
                 /\ req'[r].dirty = req[r].dirty /\ req'[r].answer = "error"
              \/ /\ req'[r].stage = "committed" /\ req[r].stage = "loaded" /\ req'[r].wrote
                 /\ (req'[r].dirty = req[r].dirty \/ req[r].op.kind = "create_agent")
                 /\ req'[r].answer = req[r].answer
              \/ /\ req'[r].stage = "loaded" /\ req[r].stage = "open" /\ ~req'[r].wrote
                 /\ req'[r].answer = req[r].answer
<1>0. Undecided(r) => ~req[r].wrote
  BY DEF WroteSettled, Settled, Undecided
<1>1. CASE FindUser(r) \/ GetUser(r) \/ FindAgent(r) \/ GetAgent(r)
  <2>1. Undecided(r) /\ req[r].stage = "open"
    BY <1>1 DEF FindUser, GetUser, FindAgent, GetAgent, At, Undecided
  <2>2. \/ \E a \in {"conflict", "bad_request", "not_found"} : Answer(r, a)
        \/ \E ids : Load(r, ids)
    BY <1>1 DEF FindUser, GetUser, FindAgent, GetAgent
  <2>3. ASSUME NEW a \in {"conflict", "bad_request", "not_found"}, Answer(r, a)
        PROVE  /\ GoesOn(r) /\ \A s \in Requests \ {r} : req'[s] = req[s]
               /\ req'[r].stage = "answered" /\ req[r].stage = "open" /\ ~req'[r].wrote
               /\ req'[r].dirty = req[r].dirty /\ req'[r].answer \notin {"ok", "error"}
    BY <1>0, <2>1, <2>3, AnswerGoesOn
  <2>4. ASSUME NEW ids, Load(r, ids)
        PROVE  /\ GoesOn(r) /\ \A s \in Requests \ {r} : req'[s] = req[s]
               /\ req'[r].stage = "loaded" /\ req[r].stage = "open" /\ ~req'[r].wrote
               /\ req'[r].answer = req[r].answer
    BY <1>0, <2>1, <2>4, LoadGoesOn
  <2> QED BY <2>2, <2>3, <2>4
<1>2. CASE FindSilent(r)
  <2>1. Undecided(r) /\ req[r].stage = "open" /\ req[r].op.kind = "sweep"
    BY <1>2 DEF FindSilent, At, Undecided
  <2>2. \/ Answer(r, "ok")
        \/ \E ids : req' = [req EXCEPT ![r].stage = "loaded", ![r].dirty = ids, ![r].now = clock]
    BY <1>2 DEF FindSilent
  <2>3. CASE Answer(r, "ok")
    BY <1>0, <2>1, <2>3, AnswerGoesOn
  <2>4. ASSUME NEW ids,
               req' = [req EXCEPT ![r].stage = "loaded", ![r].dirty = ids, ![r].now = clock]
        PROVE  /\ GoesOn(r) /\ \A s \in Requests \ {r} : req'[s] = req[s]
               /\ req'[r].stage = "loaded" /\ req[r].stage = "open" /\ ~req'[r].wrote
               /\ req'[r].answer = req[r].answer
    BY <1>0, <2>1, <2>4, LoadGoesOn
  <2> QED BY <2>2, <2>3, <2>4
<1>3. CASE InsertAgent(r)
  <2>1. Undecided(r) /\ req[r].stage = "loaded" /\ req[r].op.kind = "create_agent"
    BY <1>3 DEF InsertAgent, At, Undecided
  <2>2. Answer(r, "error") \/ CommitNew(r, nextId)
    BY <1>3 DEF InsertAgent
  <2> QED BY <1>0, <2>1, <2>2, AnswerGoesOn, CommitNewGoesOn
<1>4. CASE \/ InsertUser(r) \/ DeactivateUser(r) \/ RenameAgent(r) \/ DeleteAgent(r)
           \/ Deactivate(r) \/ RecordHeartbeat(r)
  <2>1. Undecided(r) /\ req[r].stage = "loaded"
    BY <1>4 DEF InsertUser, DeactivateUser, RenameAgent, DeleteAgent, Deactivate, RecordHeartbeat, At, Undecided
  <2>2. Commit(r) \/ Answer(r, "error")
    BY <1>4 DEF InsertUser, DeactivateUser, RenameAgent, DeleteAgent, Deactivate, RecordHeartbeat
  <2> QED BY <1>0, <2>1, <2>2, AnswerGoesOn, CommitGoesOn
<1> QED BY <1>1, <1>2, <1>3, <1>4 DEF Handles

\* A request begins, after every request that is settled.
LEMMA BeganFields ==
    ASSUME TypeOK, NEW r \in Requests, NEW op, NEW u, NEW stage, NEW a, NEW ids,
           Began(r, op, u, stage, a, ids)
    PROVE  /\ req[r].stage = "unsent"
           /\ req'[r].op = op /\ req'[r].actor = u /\ req'[r].stage = stage /\ req'[r].answer = a
           /\ req'[r].dirty = ids /\ req'[r].after = Settled /\ req'[r].run = restarts
           /\ ~req'[r].wrote
           /\ \A s \in Requests \ {r} : req'[s] = req[s]
BY DEF Began, TypeOK

LEMMA BeganStays ==
    ASSUME TypeOK, NEW r \in Requests, NEW op, NEW u, NEW stage, NEW a, NEW ids,
           Began(r, op, u, stage, a, ids)
    PROVE  DeedsStay /\ r \notin Settled
<1>1. r \notin Settled
  BY BeganFields DEF Settled
<1> QED BY <1>1, BeganFields DEF DeedsStay, Settled, SameDeed

LEMMA HandlesStays ==
    ASSUME TypeOK, WroteSettled, NEW r \in Requests, Handles(r)
    PROVE  DeedsStay /\ r \notin Settled
<1>1. r \notin Settled
  BY HandlesGoesOn DEF GoesOn, Undecided, Settled
<1> QED BY <1>1, HandlesGoesOn DEF DeedsStay, Settled, SameDeed

LEMMA RespondStays ==
    ASSUME TypeOK, NEW r \in Requests, Respond(r)
    PROVE  \A s \in Requests : SameDeed(s)
BY RespondGoesOn, SameIsSame

LEMMA RestartStays ==
    ASSUME TypeOK, NEW k \in EnvKeys, Restart(k)
    PROVE  DeedsStay
BY RestartGoesOn, SameIsSame DEF DeedsStay, Settled, GoesOn, Undecided

\* What settled requests stand for is there for good.
LEMMA SettledStay ==
    ASSUME TypeOK, DeedsStay
    PROVE  Settled \subseteq Settled'
BY DEF DeedsStay, SameDeed, Settled

-----------------------------------------------------------------------------
(* AdminRemains is not inductive: a deactivation in flight rests on what    *)
(* require_admin saw.  Its caller is an active admin still, or was          *)
(* deactivated by a request that had not committed when it was authorised:  *)
(* then the two overlap.                                                    *)

Deactivation(r) == req[r].op.kind = "deactivate_user"
Gone(r) == Deactivation(r) /\ req[r].wrote
IsAdmin(u) == users[u].active /\ users[u].role = "admin"

NotSelf == \A r \in Requests : At(r, "loaded", "deactivate_user") => req[r].op.user # req[r].actor
Standing ==
    \A r \in Requests : Deactivation(r) /\ Undecided(r) =>
        IsAdmin(req[r].actor) \/ \E s \in Requests : Gone(s) /\ s \notin req[r].after

AdminInv == AfterSettled /\ WroteSettled /\ NotSelf /\ Standing /\ AdminRemains

\* Active admins stay, and every request stays or moves on, without the commit of
\* a deactivation.
Quiet ==
    /\ \A u \in UserNames : IsAdmin(u) => IsAdmin(u)'
    /\ \A s \in Requests :
           \/ SameDeed(s)
           \/ /\ GoesOn(s) /\ req'[s].stage \in {"loaded", "committed", "answered"}
              /\ req'[s].wrote => s \in Settled' /\ ~Deactivation(s)
              /\ req'[s].stage = "committed" => req'[s].wrote
              /\ req'[s].stage = "loaded" /\ Deactivation(s) => req[s].op.user # req[s].actor

LEMMA QuietKeeps == TypeOK /\ AdminInv /\ Quiet => AdminInv'
<1> SUFFICES ASSUME TypeOK, AdminInv, Quiet PROVE AdminInv'
  OBVIOUS
<1>1. \A s \in Requests : /\ req'[s].op = req[s].op /\ req'[s].actor = req[s].actor
                          /\ req'[s].after = req[s].after
                          /\ (Gone(s)' <=> Gone(s))
  BY DEF AdminInv, WroteSettled, Settled, Quiet, SameDeed, GoesOn, Undecided, Deactivation, Gone
<1>2. Settled \subseteq Settled'
  BY DEF Quiet, Settled, SameDeed, GoesOn, Undecided
<1>3. AfterSettled'
  BY <1>1, <1>2 DEF AdminInv, AfterSettled
<1>4. WroteSettled'
  BY <1>2 DEF AdminInv, WroteSettled, Quiet, SameDeed
<1>5. NotSelf'
  BY <1>1 DEF AdminInv, NotSelf, Quiet, At, SameDeed, GoesOn, Deactivation
<1>6. Standing'
  <2> SUFFICES ASSUME NEW r \in Requests, Deactivation(r)', Undecided(r)'
               PROVE  IsAdmin(req[r].actor)' \/ \E s \in Requests : Gone(s)' /\ s \notin req'[r].after
    BY DEF Standing
  <2>1. Deactivation(r) /\ Undecided(r)
    BY <1>1 DEF Quiet, Undecided, SameDeed, GoesOn, Deactivation
  <2>2. req'[r].actor = req[r].actor /\ req'[r].after = req[r].after /\ req[r].actor \in UserNames
    BY <1>1, RequestFields
  <2>3. CASE IsAdmin(req[r].actor)
    BY <2>2, <2>3 DEF Quiet, IsAdmin
  <2>4. CASE \E s \in Requests : Gone(s) /\ s \notin req[r].after
    BY <1>1, <2>2, <2>4
  <2> QED BY <2>1, <2>3, <2>4 DEF AdminInv, Standing
<1>7. AdminRemains'
  <2> SUFFICES ASSUME \A r, s \in Requests : Gone(r)' /\ Gone(s)' /\ r # s => Ordered(r, s)'
               PROVE  \E u \in UserNames : IsAdmin(u)'
    BY DEF AdminRemains, Did, Gone, Deactivation, IsAdmin
  <2>1. \A r, s \in Requests : Ordered(r, s)' <=> Ordered(r, s)
    BY <1>1 DEF Ordered
  <2>2. \E u \in UserNames : IsAdmin(u)
    BY <1>1, <2>1 DEF AdminInv, AdminRemains, Did, Gone, Deactivation, IsAdmin
  <2> QED BY <2>2 DEF Quiet
<1> QED BY <1>3, <1>4, <1>5, <1>6, <1>7 DEF AdminInv

\* A step of a handler that neither inserts nor deactivates a user.
LEMMA HandlerQuiet ==
    ASSUME TypeOK, AdminInv, NEW r \in Requests, Handles(r), ~InsertUser(r), ~DeactivateUser(r)
    PROVE  Quiet
<1>1. users' = users
  BY DEF Handles, FindUser, GetUser, FindAgent, InsertAgent, GetAgent, RenameAgent, DeleteAgent, FindSilent,
         Deactivate, RecordHeartbeat, rows
<1>2. GoesOn(r) /\ \A s \in Requests \ {r} : req'[s] = req[s]
  BY HandlesGoesOn DEF AdminInv
<1>3. CASE req'[r].wrote
  <2>1. ~Deactivation(r)
    <3>1. req[r].stage = "loaded"
      BY <1>3, HandlesGoesOn DEF AdminInv
    <3> QED BY <3>1 DEF Handles, FindUser, GetUser, FindAgent, InsertAgent, GetAgent, RenameAgent, DeleteAgent,
                        FindSilent, Deactivate, RecordHeartbeat, At, Deactivation
  <2>2. req'[r].stage = "committed"
    BY <1>3, HandlesGoesOn DEF AdminInv
  <2> QED BY <1>1, <1>2, <1>3, <2>1, <2>2, SameIsSame DEF Quiet, IsAdmin, Settled
<1>4. CASE ~req'[r].wrote
  <2>1. req'[r].stage \in {"loaded", "answered"}
    BY <1>4, HandlesGoesOn DEF AdminInv
  <2>2. ASSUME req'[r].stage = "loaded", Deactivation(r)
        PROVE  req[r].op.user # req[r].actor
    <3>1. GetUser(r) /\ Undecided(r)
      BY <1>2, <2>2, HandlesGoesOn
      DEF AdminInv, GoesOn, Handles, FindUser, FindAgent, InsertAgent, GetAgent, RenameAgent, DeleteAgent,
          FindSilent, Deactivate, RecordHeartbeat, At, Deactivation
    <3>2. ~Answer(r, "bad_request")
      BY <2>2, <3>1, AnswerGoesOn
    <3> QED BY <3>1, <3>2 DEF GetUser
  <2> QED BY <1>1, <1>2, <1>4, <2>1, <2>2, SameIsSame DEF Quiet, IsAdmin
<1> QED BY <1>3, <1>4

LEMMA RespondQuiet ==
    ASSUME TypeOK, NEW r \in Requests, Respond(r)
    PROVE  Quiet
BY RespondGoesOn, RespondStays DEF Quiet, IsAdmin

LEMMA RestartQuiet ==
    ASSUME TypeOK, AdminInv, NEW k \in EnvKeys, Restart(k)
    PROVE  Quiet
<1>1. users' = users
  BY DEF Restart
<1>2. ASSUME NEW s \in Requests, GoesOn(s), req'[s].stage = "answered", req'[s].wrote = req[s].wrote
      PROVE  ~req'[s].wrote
  BY <1>2 DEF GoesOn, Undecided, AdminInv, WroteSettled, Settled
<1> QED BY <1>1, <1>2, RestartGoesOn, SameIsSame DEF Quiet, IsAdmin

\* A request begins: a deactivation only for an active admin.
LEMMA BeganKeeps ==
    ASSUME TypeOK, AdminInv, NEW r \in Requests, NEW op \in Operations, NEW u \in UserNames,
           NEW stage, NEW a, NEW ids, Began(r, op, u, stage, a, ids), users' = users,
           stage # "committed",
           op.kind = "deactivate_user" => stage # "loaded" /\ (stage = "open" => IsAdmin(u))
    PROVE  AdminInv'
<1>1. /\ req[r].stage = "unsent" /\ ~req[r].wrote /\ ~req'[r].wrote
      /\ req'[r].op = op /\ req'[r].actor = u /\ req'[r].stage = stage
      /\ req'[r].after = Settled
      /\ \A s \in Requests : s # r => req'[s] = req[s]
  BY BeganFields DEF AdminInv, WroteSettled, Settled
<1>2. \A s \in Requests : Gone(s)' <=> Gone(s)
  BY <1>1 DEF Gone, Deactivation
<1>3. r \notin Settled /\ Settled \subseteq Settled'
  BY <1>1 DEF Settled
<1>4. AfterSettled'
  BY <1>1, <1>3 DEF AdminInv, AfterSettled
<1>5. WroteSettled' /\ NotSelf'
  BY <1>1, <1>3 DEF AdminInv, WroteSettled, NotSelf, At
<1>6. Standing'
  <2> SUFFICES ASSUME NEW s \in Requests, Deactivation(s)', Undecided(s)'
               PROVE  IsAdmin(req[s].actor)' \/ \E t \in Requests : Gone(t)' /\ t \notin req'[s].after
    BY DEF Standing
  <2>1. CASE s = r
    BY <1>1, <2>1 DEF Deactivation, Undecided, IsAdmin
  <2>2. CASE s # r
    BY <1>1, <1>2, <2>2 DEF AdminInv, Standing, Deactivation, Undecided, IsAdmin
  <2> QED BY <2>1, <2>2
<1>7. AdminRemains'
  <2> SUFFICES ASSUME \A s, t \in Requests : Gone(s)' /\ Gone(t)' /\ s # t => Ordered(s, t)'
               PROVE  \E v \in UserNames : IsAdmin(v)'
    BY DEF AdminRemains, Did, Gone, Deactivation, IsAdmin
  <2>1. \A s, t \in Requests : Gone(s) /\ Gone(t) /\ s # t => Ordered(s, t)
    <3> SUFFICES ASSUME NEW s \in Requests, NEW t \in Requests, Gone(s), Gone(t), s # t
                 PROVE  Ordered(s, t)
      OBVIOUS
    <3>1. s # r /\ t # r
      BY <1>1 DEF Gone
    <3> QED BY <1>1, <1>2, <3>1 DEF Ordered
  <2>2. \E v \in UserNames : IsAdmin(v)
    BY <2>1 DEF AdminInv, AdminRemains, Did, Gone, Deactivation, IsAdmin
  <2> QED BY <2>2 DEF IsAdmin
<1> QED BY <1>4, <1>5, <1>6, <1>7 DEF AdminInv

LEMMA ArrivalKeeps ==
    ASSUME TypeOK, AdminInv, NEW r \in Requests,
           \/ \E u \in UserNames, op \in AdminOps : Arrive(r, u, op)
           \/ \E op \in LoginOps : Login(r, op)
           \/ \E op \in HeartbeatOps : Heartbeat(r, op)
    PROVE  AdminInv'
<1>1. CASE \E u \in UserNames, op \in AdminOps : Arrive(r, u, op)
  <2> PICK u \in UserNames, op \in AdminOps : Arrive(r, u, op)
    BY <1>1
  <2> DEFINE verdict == RequireAdmin(u)
             stage == IF verdict = "none" THEN "open" ELSE "answered"
  <2>1. op \in Operations /\ Began(r, op, u, stage, verdict, {}) /\ users' = users
    BY DEF Operations, Arrive, rows
  <2>2. stage \in {"open", "answered"} /\ (stage = "open" => IsAdmin(u))
    BY DEF RequireAdmin, IsAdmin
  <2> HIDE DEF verdict, stage
  <2> QED BY <2>1, <2>2, BeganKeeps
<1>2. CASE \E op \in LoginOps : Login(r, op)
  <2> PICK op \in LoginOps : Login(r, op)
    BY <1>2
  <2> DEFINE a == IF users[op.user].active THEN "ok" ELSE "unauthorized"
  <2>1. op \in Operations /\ op.user \in UserNames /\ op.kind # "deactivate_user"
    BY DEF Operations, LoginOps
  <2>2. Began(r, op, op.user, "answered", a, {}) /\ users' = users
    BY DEF Login, rows
  <2> HIDE DEF a
  <2> QED BY <2>1, <2>2, BeganKeeps
<1>3. CASE \E op \in HeartbeatOps : Heartbeat(r, op)
  <2> PICK op \in HeartbeatOps : Heartbeat(r, op)
    BY <1>3
  <2>1. op \in Operations /\ Root \in UserNames /\ op.kind # "deactivate_user" /\ users' = users
    BY AdminAssumption DEF Operations, HeartbeatOps, Heartbeat, rows
  <2>2. CASE Began(r, op, Root, "answered", "unauthorized", {})
    BY <2>1, <2>2, BeganKeeps
  <2>3. ASSUME NEW i, Began(r, op, Root, "loaded", "none", {i}) PROVE AdminInv'
    BY <2>1, <2>3, BeganKeeps
  <2>4. ASSUME NEW i, Began(r, op, Root, "answered", "forbidden", {i}) PROVE AdminInv'
    BY <2>1, <2>4, BeganKeeps
  <2> QED BY <2>2, <2>3, <2>4 DEF Heartbeat
<1> QED BY <1>1, <1>2, <1>3

\* A user who is inserted replaces nobody.
LEMMA InsertUserQuiet ==
    ASSUME TypeOK, AdminInv, NEW r \in Requests, InsertUser(r)
    PROVE  Quiet
<1> DEFINE u == UserName[req[r].op.name]
<1>1. Handles(r) /\ ~Deactivation(r) /\ req[r].stage = "loaded"
  BY DEF InsertUser, At, Handles, Deactivation
<1>2. \A v \in UserNames : IsAdmin(v) => IsAdmin(v)'
  <2>1. users' = users \/ (users[u] = NoUser /\ users' = [users EXCEPT ![u] = NewUser(req[r].op.role)])
    BY DEF InsertUser
  <2>2. CASE users' = users
    BY <2>2 DEF IsAdmin
  <2>3. CASE users[u] = NoUser /\ users' = [users EXCEPT ![u] = NewUser(req[r].op.role)]
    <3>1. \A v \in UserNames : IsAdmin(v) => v # u
      BY <2>3 DEF IsAdmin, NoUser
    <3> HIDE DEF u
    <3> QED BY <2>3, <3>1 DEF IsAdmin, TypeOK
  <2> QED BY <2>1, <2>2, <2>3
<1>3. /\ GoesOn(r) /\ \A s \in Requests \ {r} : req'[s] = req[s]
      /\ req'[r].stage \in {"committed", "answered"}
      /\ req'[r].stage = "committed" => req'[r].wrote
  BY <1>1, HandlesGoesOn DEF AdminInv
<1> QED BY <1>1, <1>2, <1>3, SameIsSame DEF Quiet, Settled

\* The commit of a deactivation: if its caller is no admin any more, it overlaps
\* the request that saw to that; otherwise its caller remains.
LEMMA DeactivateUserKeeps ==
    ASSUME TypeOK, AdminInv, NEW r \in Requests, DeactivateUser(r)
    PROVE  AdminInv'
<1> DEFINE u == req[r].op.user
<1>1. /\ Undecided(r) /\ Deactivation(r) /\ u # req[r].actor
      /\ req[r].actor \in UserNames /\ u \in UserNames
  BY RequestFields, OpFields DEF DeactivateUser, At, Undecided, Deactivation, AdminInv, NotSelf
<1>2. /\ GoesOn(r) /\ req'[r].stage = "committed" /\ req'[r].wrote
      /\ \A s \in Requests : s # r => req'[s] = req[s]
  BY <1>1, CommitGoesOn DEF DeactivateUser
<1>3. \A s \in Requests :
          req'[s].op = req[s].op /\ req'[s].actor = req[s].actor /\ req'[s].after = req[s].after
  BY <1>2 DEF GoesOn
<1>4. \A v \in UserNames : v # u /\ IsAdmin(v) => IsAdmin(v)'
  <2>1. users' = [users EXCEPT ![u].active = FALSE]
    BY DEF DeactivateUser
  <2> HIDE DEF u
  <2> QED BY <2>1 DEF IsAdmin, TypeOK
<1>5. Gone(r)' /\ \A s \in Requests : Gone(s) => Gone(s)'
  BY <1>1, <1>2, <1>3 DEF Gone, Deactivation
<1>6. Settled \subseteq Settled' /\ \A s \in Requests : r \notin req[s].after
  BY <1>1, <1>2 DEF Settled, Undecided, AdminInv, AfterSettled
<1>7. AfterSettled'
  BY <1>3, <1>6 DEF AdminInv, AfterSettled
<1>8. WroteSettled' /\ NotSelf'
  BY <1>2, <1>3, <1>6 DEF AdminInv, WroteSettled, Settled, NotSelf, At
<1>9. Standing'
  <2> SUFFICES ASSUME NEW s \in Requests, Deactivation(s)', Undecided(s)'
               PROVE  IsAdmin(req[s].actor)' \/ \E t \in Requests : Gone(t)' /\ t \notin req'[s].after
    BY DEF Standing
  <2>1. s # r
    BY <1>2 DEF Undecided
  <2> QED BY <1>3, <1>5, <1>6, <2>1
<1>10. AdminRemains'
  <2> SUFFICES ASSUME \A s, t \in Requests : Gone(s)' /\ Gone(t)' /\ s # t => Ordered(s, t)'
               PROVE  \E v \in UserNames : IsAdmin(v)'
    BY DEF AdminRemains, Did, Gone, Deactivation, IsAdmin
  <2>1. IsAdmin(req[r].actor)
    <3> SUFFICES ASSUME NEW s \in Requests, Gone(s), s \notin req[r].after PROVE FALSE
      BY <1>1 DEF AdminInv, Standing
    <3>1. s # r
      BY <1>1 DEF Gone, AdminInv, WroteSettled, Settled, Undecided
    <3>2. Ordered(s, r)'
      BY <1>5, <3>1
    <3> QED BY <1>3, <1>6, <3>2 DEF Ordered
  <2> QED BY <1>1, <1>4, <2>1
<1> QED BY <1>7, <1>8, <1>9, <1>10 DEF AdminInv

LEMMA AdminInit == Init => AdminInv
<1> SUFFICES ASSUME Init PROVE AdminInv
  OBVIOUS
<1>1. \A r \in Requests : /\ req[r].stage = "unsent" /\ ~req[r].wrote
                          /\ req[r].after = {} /\ req[r].op.kind = "none"
  BY DEF Init, NotSent, NoOp
<1>2. IsAdmin(Root) /\ Root \in UserNames
  BY AdminAssumption DEF Init, NewUser, IsAdmin
<1> QED BY <1>1, <1>2 DEF AdminInv, AfterSettled, WroteSettled, NotSelf, At, Standing, Undecided,
                          Deactivation, AdminRemains, IsAdmin

LEMMA AdminStep == TypeOK /\ AdminInv /\ [Next]_vars => AdminInv'
<1> SUFFICES ASSUME TypeOK, AdminInv, [Next]_vars PROVE AdminInv'
  OBVIOUS
<1>1. ASSUME NEW r \in Requests, Step(r) PROVE AdminInv'
  <2>1. Handles(r) => AdminInv'
    BY HandlerQuiet, InsertUserQuiet, DeactivateUserKeeps, QuietKeeps
  <2>2. Respond(r) => AdminInv'
    BY RespondQuiet, QuietKeeps
  <2> QED BY <1>1, <2>1, <2>2, ArrivalKeeps, StepIsHandled
<1>2. ASSUME NEW k \in EnvKeys, Restart(k) PROVE AdminInv'
  BY <1>2, RestartQuiet, QuietKeeps
<1>3. CASE Tick \/ UNCHANGED vars
  <2>1. users' = users /\ req' = req
    BY <1>3 DEF Tick, rows, vars
  <2>2. Quiet
    BY <2>1, SameIsSame DEF Quiet, IsAdmin
  <2> QED BY <2>2, QuietKeeps
<1> QED BY <1>1, <1>2, <1>3 DEF Next

\* api/users.py:79-83: some admin stays active unless two deactivations of users
\* overlapped: each was authorised before the other had committed.
THEOREM AdminRemainsAlways == Spec => []AdminRemains
<1>1. TypeOK /\ AdminInv => AdminRemains
  BY DEF AdminInv
<1> QED BY <1>1, InitTyped, NextTyped, AdminInit, AdminStep, PTL DEF Spec

-----------------------------------------------------------------------------
(* The table of agents: ids are fresh, names and keys are unique, and a key *)
(* is the one of its id or one of the environment.                          *)

Fresh == \A i \in Ids : i >= nextId => agents[i] = NoAgent
KeyOf(i) == agents[i].key = <<"spy", i>> \/ \E k \in EnvKeys : agents[i].key = <<"env", k>>
KeyShape == \A i \in Ids : Exists(i) => KeyOf(i)
KeysDiffer == \A i, j \in Ids : Exists(i) /\ Exists(j) /\ agents[i].key = agents[j].key => i = j
NamesDiffer == \A i, j \in Ids : Exists(i) /\ Exists(j) /\ agents[i].name = agents[j].name => i = j

RegistryInv == Fresh /\ KeyShape /\ KeysDiffer /\ NamesDiffer

\* Steps that write rows but no key: agents come to be in no such step.
SameKeys ==
    /\ nextId' = nextId
    /\ NamesDiffer => NamesDiffer'
    /\ \A i \in Ids : Exists(i)' => Exists(i) /\ agents'[i].key = agents[i].key

\* A new agent has an id, a name and a key that no other agent has.
NewRow(key) ==
    /\ nextId \in Ids /\ nextId' = nextId + 1
    /\ agents'[nextId].key = key /\ Named(agents'[nextId].name) = {}
    /\ \A i \in Ids : i # nextId => agents'[i] = agents[i]
    /\ Owners(key) = {}
    /\ key = <<"spy", nextId>> \/ \E k \in EnvKeys : key = <<"env", k>>

LEMMA SameKeysKeep == RegistryInv /\ SameKeys => RegistryInv'
BY DEF RegistryInv, SameKeys, Fresh, KeyShape, KeyOf, KeysDiffer, Exists

LEMMA NewRowKeeps ==
    ASSUME TypeOK, RegistryInv, NEW key, NewRow(key)
    PROVE  RegistryInv'
<1>1. nextId \in Nat /\ nextId' = nextId + 1 /\ Ids \subseteq Nat
  BY SMT DEF NewRow, TypeOK, Ids
<1>2. Fresh'
  BY <1>1 DEF RegistryInv, Fresh, NewRow
<1>3. KeyShape'
  BY DEF RegistryInv, KeyShape, KeyOf, NewRow, Exists
<1>4. \A i \in Ids : Exists(i) => agents[i].key # key
  BY DEF NewRow, Owners
<1>5. KeysDiffer'
  BY <1>4 DEF RegistryInv, KeysDiffer, NewRow, Exists
<1>6. NamesDiffer'
  <2>1. \A i \in Ids : Exists(i) => agents[i].name # agents'[nextId].name
    BY DEF NewRow, Named
  <2> QED BY <2>1 DEF RegistryInv, NamesDiffer, NewRow, Exists
<1> QED BY <1>2, <1>3, <1>5, <1>6 DEF RegistryInv

\* A row that a step leaves, deletes or writes without its key.
Touched(i) ==
    \/ agents'[i] = agents[i] \/ agents'[i] = NoAgent
    \/ Exists(i) /\ agents'[i].key = agents[i].key /\ (agents'[i].active => agents[i].active)

NameKept(i) == Exists(i)' => agents'[i].name = agents[i].name

LEMMA TouchedRows ==
    ASSUME nextId' = nextId, \A i \in Ids : Touched(i),
           (\A i \in Ids : NameKept(i)) \/ (NamesDiffer => NamesDiffer')
    PROVE  SameKeys /\ \A i \in Ids : Exists(i) /\ ~agents[i].active => ~agents'[i].active
<1>1. ~NoAgent.active
  BY DEF NoAgent
<1>2. \A i \in Ids : Exists(i)' => Exists(i)
  BY DEF Touched, Exists
<1>3. NamesDiffer => NamesDiffer'
  BY <1>2 DEF NamesDiffer, NameKept
<1> QED BY <1>1, <1>2, <1>3 DEF SameKeys, Touched, Exists

LEMMA WrittenRow ==
    ASSUME TypeOK, NEW i \in Ids, Exists(i),
           \/ \E t : agents'[i] = [agents[i] EXCEPT !.seen = t]
           \/ agents'[i] = [agents[i] EXCEPT !.active = FALSE]
           \/ \E name : agents'[i] = [agents[i] EXCEPT !.name = name]
    PROVE  /\ Touched(i)
           /\ NameKept(i) \/ \E name : agents'[i] = [agents[i] EXCEPT !.name = name]
<1>1. agents[i] \in AgentRow
  BY DEF TypeOK, Exists
<1> QED BY <1>1 DEF Touched, NameKept, AgentRow

\* What the step of a handler does to the rows of agents: it keeps the keys, or
\* inserts an agent.  Nobody who is inactive becomes active.
LEMMA HandlerRows ==
    ASSUME TypeOK, RegistryInv, NEW r \in Requests, Step(r)
    PROVE  /\ SameKeys \/ \E key \in Keys : NewRow(key)
           /\ \A i \in Ids : Exists(i) /\ ~agents[i].active => ~agents'[i].active
<1>1. CASE UNCHANGED <<agents, nextId>>
  BY <1>1 DEF SameKeys, Exists, NamesDiffer
<1>2. CASE RecordHeartbeat(r)
  <2> DEFINE t == req[r].now
  <2> PICK i \in req[r].dirty :
          IF Exists(i) THEN agents' = [agents EXCEPT ![i].seen = t] ELSE UNCHANGED agents
    BY <1>2 DEF RecordHeartbeat
  <2> HIDE DEF t
  <2>1. i \in Ids /\ nextId' = nextId
    BY <1>2, RequestFields DEF RecordHeartbeat
  <2>2. ASSUME NEW j \in Ids PROVE Touched(j) /\ NameKept(j)
    <3>1. agents'[j] = agents[j] \/ (Exists(j) /\ agents'[j] = [agents[j] EXCEPT !.seen = t])
      BY <2>1 DEF TypeOK
    <3>2. Exists(j) => agents[j] \in AgentRow
      BY DEF TypeOK, Exists
    <3> QED BY <3>1, <3>2, WrittenRow DEF Touched, NameKept, AgentRow
  <2> QED BY <2>1, <2>2, TouchedRows
<1>3. CASE InsertAgent(r)
  <2> DEFINE name == AgentName[req[r].op.name]
             key == <<"spy", nextId>>
  <2>1. CASE nextId \in Ids /\ nextId' = nextId + 1 /\ Named(name) = {}
             /\ agents' = [agents EXCEPT ![nextId] = NewAgent(name, key)]
    <3>1. agents[nextId] = NoAgent
      BY <2>1, SMT DEF RegistryInv, Fresh, Ids
    <3>2. agents'[nextId] = NewAgent(name, key) /\ \A i \in Ids : i # nextId => agents'[i] = agents[i]
      BY <2>1 DEF TypeOK
    <3>3. Owners(key) = {}
      <4> SUFFICES ASSUME NEW i \in Ids, Exists(i), agents[i].key = key PROVE FALSE
        BY DEF Owners
      <4>1. KeyOf(i)
        BY DEF RegistryInv, KeyShape
      <4>2. i = nextId
        BY <4>1 DEF KeyOf
      <4> QED BY <3>1, <4>2 DEF Exists
    <3>4. key \in Keys
      BY <2>1, NamesTyped
    <3>5. NewRow(key)
      BY <2>1, <3>2, <3>3 DEF NewRow, NewAgent
    <3> QED BY <3>1, <3>2, <3>4, <3>5 DEF Exists
  <2> QED BY <1>1, <1>3, <2>1 DEF InsertAgent
<1>4. CASE RenameAgent(r)
  <2> DEFINE i == req[r].op.agent
             name == AgentName[req[r].op.name]
  <2>1. nextId' = nextId /\ (agents' = agents \/ (Exists(i) /\ agents' = [agents EXCEPT ![i].name = name]))
    BY <1>4 DEF RenameAgent
  <2>2. ASSUME NEW j \in Ids PROVE Touched(j)
    <3>1. agents'[j] = agents[j] \/ (Exists(j) /\ agents'[j] = [agents[j] EXCEPT !.name = name])
      <4> HIDE DEF i, name
      <4> QED BY <2>1 DEF TypeOK
    <3> QED BY <3>1, WrittenRow DEF Touched
  <2>3. NamesDiffer => NamesDiffer'
    <3>1. CASE agents' = agents
      BY <3>1 DEF NamesDiffer, Exists
    <3>2. CASE /\ Exists(i) /\ i \in Ids /\ agents' = [agents EXCEPT ![i].name = name]
               /\ Named(name) \ {i} = {}
      <4> HIDE DEF i, name
      <4>1. agents'[i].name = name /\ \A j \in Ids : j # i => agents'[j] = agents[j]
        BY <3>2, RowsTyped DEF TypeOK, Exists, AgentRow
      <4>2. \A j \in Ids : j # i /\ Exists(j) => agents[j].name # name
        BY <3>2 DEF Named
      <4> QED BY <3>2, <4>1, <4>2 DEF NamesDiffer, Exists
    <3>3. i \in Ids
      BY <1>4, RequestFields, OpFields DEF RenameAgent, At
    <3> QED BY <1>4, <3>1, <3>2, <3>3 DEF RenameAgent
  <2> QED BY <2>1, <2>2, <2>3, TouchedRows
<1>5. CASE DeleteAgent(r)
  <2>1. nextId' = nextId /\ \A i \in Ids : agents'[i] = agents[i] \/ agents'[i] = NoAgent
    BY <1>5 DEF DeleteAgent, TypeOK
  <2> QED BY <2>1, TouchedRows DEF Touched, NameKept, Exists
<1>6. CASE Deactivate(r)
  <2>1. nextId' = nextId
        /\ (agents' = agents
            \/ /\ \A i \in req[r].dirty : Exists(i)
               /\ agents' = [i \in Ids |-> IF i \in req[r].dirty THEN [agents[i] EXCEPT !.active = FALSE]
                                           ELSE agents[i]])
    BY <1>6 DEF Deactivate
  <2>2. ASSUME NEW j \in Ids PROVE Touched(j) /\ NameKept(j)
    <3>1. agents'[j] = agents[j] \/ (Exists(j) /\ agents'[j] = [agents[j] EXCEPT !.active = FALSE])
      BY <2>1 DEF TypeOK
    <3>2. Exists(j) => agents[j] \in AgentRow
      BY DEF TypeOK, Exists
    <3> QED BY <3>1, <3>2, WrittenRow DEF Touched, NameKept, AgentRow
  <2> QED BY <2>1, <2>2, TouchedRows
<1> QED
  BY <1>1, <1>2, <1>3, <1>4, <1>5, <1>6
  DEF Step, Arrive, Login, Heartbeat, FindUser, InsertUser, GetUser, DeactivateUser, FindAgent,
      GetAgent, FindSilent, Respond, rows

\* A start keeps the keys, inserts the demo agent, or gives it a key that nobody
\* had; only the last brings an agent back.
LEMMA RestartRows ==
    ASSUME TypeOK, RegistryInv, NEW k \in EnvKeys, Restart(k)
    PROVE  /\ RegistryInv'
           /\ \A i \in Ids : Exists(i) /\ ~agents[i].active /\ agents'[i].active =>
                  agents'[i].key # agents[i].key
<1> DEFINE key == <<"env", k>>
<1>1. CASE UNCHANGED <<agents, nextId>>
  <2>1. SameKeys
    BY <1>1 DEF SameKeys, Exists, NamesDiffer
  <2> QED BY <1>1, <2>1, SameKeysKeep
<1>2. CASE /\ Owners(key) = {} /\ nextId' = nextId
           /\ agents' = [i \in Ids |-> IF i \in Named(Demo)
                                       THEN [agents[i] EXCEPT !.key = key, !.active = TRUE]
                                       ELSE agents[i]]
  <2>1. \A i \in Named(Demo) : /\ i \in Ids /\ Exists(i) /\ agents[i].name = Demo
                               /\ agents'[i].key = key /\ agents'[i].name = agents[i].name
    BY <1>2 DEF Named, Exists, TypeOK, AgentRow
  <2>2. \A i \in Ids : i \notin Named(Demo) => agents'[i] = agents[i]
    BY <1>2
  <2>3. \A i \in Ids : Exists(i) => agents[i].key # key
    BY <1>2 DEF Owners
  <2>4. \A i \in Ids : Exists(i)' => Exists(i) /\ agents'[i].name = agents[i].name
    BY <2>1, <2>2 DEF Exists
  <2>5. Fresh' /\ NamesDiffer'
    <3>1. \A i \in Ids : ~Exists(i) => agents'[i] = NoAgent
      BY <2>4 DEF Exists
    <3> QED BY <1>2, <2>4, <3>1 DEF RegistryInv, Fresh, NamesDiffer, Exists
  <2>6. KeyShape'
    BY <2>1, <2>2, <2>4 DEF RegistryInv, KeyShape, KeyOf
  <2>7. KeysDiffer'
    BY <2>1, <2>2, <2>3, <2>4 DEF RegistryInv, KeysDiffer, NamesDiffer
  <2> QED BY <2>1, <2>2, <2>3, <2>5, <2>6, <2>7 DEF RegistryInv
<1>3. CASE /\ Owners(key) = {} /\ Named(Demo) = {} /\ nextId \in Ids /\ nextId' = nextId + 1
           /\ agents' = [agents EXCEPT ![nextId] = NewAgent(Demo, key)]
  <2>1. agents[nextId] = NoAgent
    BY <1>3, SMT DEF RegistryInv, Fresh, Ids
  <2>2. agents'[nextId] = NewAgent(Demo, key) /\ \A i \in Ids : i # nextId => agents'[i] = agents[i]
    BY <1>3 DEF TypeOK
  <2>3. NewRow(key)
    BY <1>3, <2>2 DEF NewRow, NewAgent
  <2> QED BY <2>1, <2>2, <2>3, NewRowKeeps DEF Exists
<1> QED BY <1>1, <1>2, <1>3 DEF Restart, Seed

LEMMA RegistryInit == Init => RegistryInv
<1> SUFFICES ASSUME Init PROVE RegistryInv
  OBVIOUS
<1>1. PICK k \in EnvKeys :
          agents = [i \in Ids |-> IF i = 1 THEN NewAgent(Demo, <<"env", k>>) ELSE NoAgent]
  BY DEF Init
<1>2. 1 \in Ids /\ nextId = 2
  BY AdminAssumption, SMT DEF Init, Ids
<1>3. \A i \in Ids : i # 1 => agents[i] = NoAgent
  BY <1>1
<1>4. Fresh
  BY <1>2, <1>3 DEF Fresh
<1>5. agents[1].key = <<"env", k>>
  BY <1>1, <1>2 DEF NewAgent
<1> QED BY <1>3, <1>4, <1>5 DEF RegistryInv, KeyShape, KeyOf, KeysDiffer, NamesDiffer, Exists

LEMMA RegistryStep == TypeOK /\ RegistryInv /\ [Next]_vars => RegistryInv'
<1> SUFFICES ASSUME TypeOK, RegistryInv, [Next]_vars PROVE RegistryInv'
  OBVIOUS
<1>1. ASSUME NEW r \in Requests, Step(r) PROVE RegistryInv'
  BY <1>1, HandlerRows, SameKeysKeep, NewRowKeeps
<1>2. ASSUME NEW k \in EnvKeys, Restart(k) PROVE RegistryInv'
  BY <1>2, RestartRows
<1>3. CASE Tick \/ UNCHANGED vars
  BY <1>3 DEF Tick, rows, vars, RegistryInv, Fresh, KeyShape, KeyOf, KeysDiffer, NamesDiffer, Exists
<1> QED BY <1>1, <1>2, <1>3 DEF Next

\* A key identifies its agent, through renames and starts.
THEOREM KeysIdentifyAlways == Spec => []KeysIdentify
<1>1. RegistryInv => KeysIdentify
  BY DEF RegistryInv, KeysDiffer, KeysIdentify, Owners
<1> QED BY <1>1, InitTyped, NextTyped, RegistryInit, RegistryStep, PTL DEF Spec

\* Users who are inactive stay so in every step.
LEMMA UsersStayInactive ==
    ASSUME TypeOK, [Next]_vars, NEW u \in UserNames, users[u] # NoUser, ~users[u].active
    PROVE  ~users'[u].active
<1>1. CASE \E r \in Requests : InsertUser(r)
  <2> PICK r \in Requests : InsertUser(r)
    BY <1>1
  <2> DEFINE w == UserName[req[r].op.name]
  <2>1. users' = users \/ (users[w] = NoUser /\ users' = [users EXCEPT ![w] = NewUser(req[r].op.role)])
    BY DEF InsertUser
  <2> HIDE DEF w
  <2> QED BY <2>1 DEF TypeOK
<1>2. CASE \E r \in Requests : DeactivateUser(r)
  <2> PICK r \in Requests : users' = [users EXCEPT ![req[r].op.user].active = FALSE]
    BY <1>2 DEF DeactivateUser
  <2>1. users[u] \in [role : Roles, active : BOOLEAN]
    BY DEF TypeOK
  <2> QED BY <2>1 DEF TypeOK
<1>3. CASE users' = users
  BY <1>3
<1> QED
  BY <1>1, <1>2, <1>3
  DEF Next, Step, Arrive, Login, Heartbeat, RecordHeartbeat, FindUser, GetUser, FindAgent, InsertAgent,
      GetAgent, RenameAgent, DeleteAgent, FindSilent, Deactivate, Respond, Restart, Tick, rows, vars

\* What was deactivated stays so; only a start with another AGENT_API_KEY brings
\* an agent back.
THEOREM DeactivationAlwaysLasts == Spec => DeactivationLasts
<1> DEFINE Lasts ==
        /\ \A u \in UserNames : users[u] # NoUser /\ ~users[u].active => ~users[u].active'
        /\ \A i \in Ids : Exists(i) /\ ~agents[i].active /\ agents'[i].active =>
               restarts' > restarts /\ agents'[i].key # agents[i].key
<1>1. TypeOK /\ RegistryInv /\ [Next]_vars => [Lasts]_vars
  <2> SUFFICES ASSUME TypeOK, RegistryInv, [Next]_vars PROVE Lasts
    OBVIOUS
  <2>1. \A u \in UserNames : users[u] # NoUser /\ ~users[u].active => ~users[u].active'
    BY UsersStayInactive
  <2>2. ASSUME NEW r \in Requests, Step(r)
        PROVE  \A i \in Ids : Exists(i) /\ ~agents[i].active => ~agents'[i].active
    BY <2>2, HandlerRows
  <2>3. ASSUME NEW k \in EnvKeys, Restart(k), NEW i \in Ids,
               Exists(i), ~agents[i].active, agents'[i].active
        PROVE  restarts' > restarts /\ agents'[i].key # agents[i].key
    <3>1. restarts \in 0..MaxRestarts /\ restarts' = restarts + 1
      BY <2>3 DEF Restart, TypeOK
    <3> QED BY <2>3, <3>1, RestartRows, AdminAssumption, SMT
  <2>4. CASE Tick \/ UNCHANGED vars
    BY <2>1, <2>4 DEF Tick, rows, vars
  <2> QED BY <2>1, <2>2, <2>3, <2>4 DEF Next
<1> QED BY <1>1, InitTyped, NextTyped, RegistryInit, RegistryStep, PTL DEF Spec, DeactivationLasts

-----------------------------------------------------------------------------
(* CommitsBind: what a commit did to the rows stands when a later request   *)
(* looks at them.                                                           *)

(* Users. *)

TakenName(s) == UserName[req[s].op.name]

\* What is asked of a request for the part it plays in the table of users.
UserPart(r) ==
    /\ Did(r, "deactivate_user") => users[req[r].op.user] # NoUser /\ ~users[req[r].op.user].active
    /\ At(r, "loaded", "deactivate_user") => users[req[r].op.user] # NoUser
    /\ Did(r, "create_user") => users[TakenName(r)] # NoUser

\* A request that began after s was committed has been refused what s forbids.
BoundByUser(r, s) ==
    /\ Did(s, "deactivate_user") =>
           /\ \/ req[r].op.kind = "login" /\ req[r].op.user = req[s].op.user
              \/ req[r].op \in AdminOps /\ req[r].actor = req[s].op.user
              => req[r].stage = "answered" /\ req[r].answer = "unauthorized"
    /\ Did(s, "create_user") /\ req[r].op.kind = "create_user" /\ TakenName(r) = TakenName(s) =>
           req[r].stage # "loaded" /\ ~req[r].wrote

UserBind ==
    /\ \A r \in Requests : UserPart(r)
    /\ \A r \in Requests : \A s \in req[r].after : BoundByUser(r, s)

\* Rows of users stay, and inactive ones stay inactive.
UsersStay ==
    \A u \in UserNames : users[u] # NoUser =>
        users'[u] # NoUser /\ (~users[u].active => ~users'[u].active)

LEMMA UsersAlwaysStay ==
    ASSUME TypeOK, [Next]_vars
    PROVE  UsersStay
<1> SUFFICES ASSUME NEW u \in UserNames, users[u] # NoUser PROVE users'[u] # NoUser
  BY UsersStayInactive DEF UsersStay
<1>1. CASE \E r \in Requests : InsertUser(r)
  <2> PICK r \in Requests : InsertUser(r)
    BY <1>1
  <2> DEFINE w == UserName[req[r].op.name]
  <2>1. users' = users \/ (users[w] = NoUser /\ users' = [users EXCEPT ![w] = NewUser(req[r].op.role)])
    BY DEF InsertUser
  <2> HIDE DEF w
  <2> QED BY <2>1 DEF TypeOK
<1>2. CASE \E r \in Requests : DeactivateUser(r)
  <2> PICK r \in Requests : users' = [users EXCEPT ![req[r].op.user].active = FALSE]
    BY <1>2 DEF DeactivateUser
  <2>1. users[u] \in [role : Roles, active : BOOLEAN]
    BY DEF TypeOK
  <2>2. users'[u].role = users[u].role
    BY <2>1 DEF TypeOK
  <2>3. users[u].role # "none" /\ NoUser.role = "none"
    BY <2>1 DEF Roles, NoUser
  <2> QED BY <2>2, <2>3
<1>3. CASE users' = users
  BY <1>3
<1> QED
  BY <1>1, <1>2, <1>3
  DEF Next, Step, Arrive, Login, Heartbeat, RecordHeartbeat, FindUser, GetUser, FindAgent, InsertAgent,
      GetAgent, RenameAgent, DeleteAgent, FindSilent, Deactivate, Respond, Restart, Tick, rows, vars

\* The part of a request that a step leaves alone.
LEMMA UserPartStays ==
    ASSUME TypeOK, UsersStay, NEW r \in Requests, UserPart(r), SameDeed(r)
    PROVE  UserPart(r)'
<1>1. /\ req[r].op \in Operations
      /\ req[r].op.kind = "deactivate_user" => req[r].op.user \in UserNames
      /\ req[r].op.kind = "create_user" => TakenName(r) \in UserNames
  BY RequestFields, OpFields, NamesTyped DEF TakenName
<1> QED BY <1>1 DEF UserPart, UsersStay, Did, At, TakenName, SameDeed

\* Requests go on; what they come to stand for is in the rows.
LEMMA GoingOnBinds ==
    ASSUME TypeOK, AdminInv, UserBind, UsersStay,
           \A r \in Requests :
               \/ SameDeed(r)
               \/ /\ GoesOn(r) /\ UserPart(r)'
                  /\ (\E s \in req[r].after :
                          /\ Did(s, "create_user") /\ req[r].op.kind = "create_user"
                          /\ TakenName(r) = TakenName(s))
                     => req'[r].stage # "loaded" /\ ~req'[r].wrote
    PROVE  UserBind'
<1>1. \A r \in Requests : UserPart(r)'
  BY UserPartStays DEF UserBind
<1>2. ASSUME NEW r \in Requests, NEW s \in req'[r].after
      PROVE  BoundByUser(r, s)'
  <2>1. s \in req[r].after /\ s \in Requests /\ s \in Settled
    BY <1>2, RequestFields DEF GoesOn, SameDeed, AdminInv, AfterSettled
  <2>2. SameDeed(s) /\ BoundByUser(r, s)
    BY <2>1 DEF GoesOn, Undecided, Settled, UserBind
  <2>3. CASE SameDeed(r)
    BY <2>2, <2>3 DEF BoundByUser, Did, TakenName, SameDeed
  <2>4. CASE GoesOn(r) /\ ~SameDeed(r)
    <3>1. req[r].stage # "answered" /\ req'[r].op = req[r].op /\ req'[r].actor = req[r].actor
      BY <2>4 DEF GoesOn, Undecided
    <3> QED BY <2>1, <2>2, <2>4, <3>1 DEF BoundByUser, Did, TakenName, SameDeed
  <2> QED BY <2>3, <2>4
<1> QED BY <1>1, <1>2 DEF UserBind

\* A request begins: after a deactivation its caller is refused.
LEMMA BeginningBinds ==
    ASSUME TypeOK, AdminInv, UserBind, NEW r \in Requests, NEW op \in Operations, NEW u \in UserNames,
           NEW stage, NEW a, NEW ids, Began(r, op, u, stage, a, ids), users' = users,
           op.kind \in {"deactivate_user", "create_user"} => stage # "loaded",
           op.kind = "login" /\ ~users[op.user].active => stage = "answered" /\ a = "unauthorized",
           op \in AdminOps /\ ~users[u].active => stage = "answered" /\ a = "unauthorized"
    PROVE  UserBind'
<1>1. /\ req[r].stage = "unsent"
      /\ req'[r].op = op /\ req'[r].actor = u /\ req'[r].stage = stage /\ req'[r].answer = a
      /\ req'[r].after = Settled
      /\ \A s \in Requests \ {r} : req'[s] = req[s]
  BY BeganFields
<1>2. r \notin Settled /\ ~req'[r].wrote /\ \A s \in Requests : r \notin req[s].after
  BY <1>1, BeganFields DEF Settled, AdminInv, AfterSettled
<1>3. UsersStay
  BY DEF UsersStay
<1>4. \A s \in Requests : UserPart(s)'
  <2>1. UserPart(r)'
    BY <1>1, <1>2 DEF UserPart, Did, At
  <2> QED BY <1>1, <1>3, <2>1, SameIsSame, UserPartStays DEF UserBind
<1>5. ASSUME NEW q \in Requests, NEW s \in req'[q].after
      PROVE  BoundByUser(q, s)'
  <2>1. s \in Requests /\ s # r /\ req'[s] = req[s]
    BY <1>1, <1>2, <1>5, RequestFields DEF Settled
  <2>2. CASE q = r
    <3>1. Did(s, "deactivate_user") => ~users[req[s].op.user].active
      BY <2>1 DEF UserBind, UserPart
    <3> QED BY <1>1, <1>2, <2>1, <2>2, <3>1 DEF BoundByUser, Did
  <2>3. CASE q # r
    BY <1>1, <1>5, <2>1, <2>3 DEF UserBind, BoundByUser, Did, TakenName
  <2> QED BY <2>2, <2>3
<1> QED BY <1>4, <1>5 DEF UserBind

\* The step of a handler: a name that is taken, or a user who is gone, is seen.
LEMMA HandlerBinds ==
    ASSUME TypeOK, AdminInv, UserBind, UsersStay, NEW r \in Requests, Handles(r)
    PROVE  UserBind'
<1> DEFINE Taken == \E s \in req[r].after :
                        /\ Did(s, "create_user") /\ req[r].op.kind = "create_user"
                        /\ TakenName(r) = TakenName(s)
<1>1. GoesOn(r) /\ \A s \in Requests \ {r} : req'[s] = req[s]
  BY HandlesGoesOn DEF AdminInv
<1>2. /\ req[r].op \in Operations /\ req'[r].op = req[r].op
      /\ req[r].op.kind = "deactivate_user" => req[r].op.user \in UserNames
      /\ req[r].op.kind = "create_user" => TakenName(r) \in UserNames
  BY <1>1, RequestFields, OpFields, NamesTyped DEF GoesOn, TakenName
<1>3. Taken => users[TakenName(r)] # NoUser /\ req[r].stage # "loaded"
  BY RequestFields DEF UserBind, UserPart, BoundByUser
<1>4. ~req[r].wrote
  BY <1>1 DEF GoesOn, Undecided, AdminInv, WroteSettled, Settled
<1>5. UserPart(r)' /\ (Taken => req'[r].stage # "loaded" /\ ~req'[r].wrote)
  <2>1. CASE FindUser(r)
    <3>1. users' = users /\ req[r].op.kind = "create_user" /\ Undecided(r)
          /\ (Answer(r, "conflict") \/ (users[TakenName(r)] = NoUser /\ Load(r, {})))
      BY <2>1 DEF FindUser, At, Undecided, TakenName, rows
    <3>2. CASE Answer(r, "conflict")
      <4>1. req'[r].stage = "answered" /\ ~req'[r].wrote
        BY <1>4, <3>1, <3>2, AnswerGoesOn
      <4> QED BY <1>2, <3>1, <4>1 DEF UserPart, Did, At
    <3>3. CASE users[TakenName(r)] = NoUser /\ Load(r, {})
      <4>1. req'[r].wrote = req[r].wrote
        BY <3>1, <3>3, LoadGoesOn
      <4> QED BY <1>2, <1>3, <1>4, <3>1, <3>3, <4>1 DEF UserPart, Did, At
    <3> QED BY <3>1, <3>2, <3>3
  <2>2. CASE GetUser(r)
    <3>1. users' = users /\ req[r].op.kind = "deactivate_user" /\ Undecided(r)
          /\ (Answer(r, "bad_request") \/ Answer(r, "not_found")
              \/ (users[req[r].op.user] # NoUser /\ Load(r, {})))
      BY <2>2 DEF GetUser, At, Undecided, rows
    <3>2. ASSUME NEW a \in {"bad_request", "not_found"}, Answer(r, a)
          PROVE  req'[r].stage # "loaded" /\ ~req'[r].wrote
      BY <1>4, <3>1, <3>2, AnswerGoesOn
    <3>3. CASE users[req[r].op.user] # NoUser /\ Load(r, {})
      <4>1. ~req'[r].wrote
        BY <1>4, <3>1, <3>3, LoadGoesOn
      <4> QED BY <1>2, <3>1, <3>3, <4>1 DEF UserPart, Did, At
    <3> QED BY <1>2, <3>1, <3>2, <3>3 DEF UserPart, Did, At
  <2>3. CASE InsertUser(r)
    <3>1. At(r, "loaded", "create_user") /\ Undecided(r)
      BY <2>3 DEF InsertUser, At, Undecided
    <3>2. ~Taken
      BY <1>3, <3>1 DEF At
    <3>3. users'[TakenName(r)] # NoUser
      <4> DEFINE u == TakenName(r)
      <4>1. \/ users[u] # NoUser /\ users' = users
            \/ users' = [users EXCEPT ![u] = NewUser(req[r].op.role)]
        BY <2>3 DEF InsertUser, TakenName
      <4>2. NewUser(req[r].op.role) # NoUser
        <5>1. NewUser(req[r].op.role).active # NoUser.active
          BY DEF NewUser, NoUser
        <5> QED BY <5>1
      <4>3. u \in UserNames
        BY <1>2, <3>1 DEF At
      <4> HIDE DEF u
      <4>4. users'[u] # NoUser
        BY <4>1, <4>2, <4>3 DEF TypeOK
      <4> QED BY <4>4 DEF u
    <3> QED BY <1>2, <3>1, <3>2, <3>3 DEF UserPart, Did, At, TakenName
  <2>4. CASE DeactivateUser(r)
    <3>1. At(r, "loaded", "deactivate_user") /\ users[req[r].op.user] # NoUser
      BY <2>4 DEF DeactivateUser, UserBind, UserPart
    <3>2. users' = [users EXCEPT ![req[r].op.user].active = FALSE]
      BY <2>4 DEF DeactivateUser
    <3>3. users'[req[r].op.user] # NoUser /\ ~users'[req[r].op.user].active
      <4> DEFINE u == req[r].op.user
      <4>1. u \in UserNames
        BY <1>2, <3>1 DEF At
      <4>2. users'[u] # NoUser
        BY <3>1, <4>1 DEF UsersStay
      <4> HIDE DEF u
      <4>3. users[u] \in [role : Roles, active : BOOLEAN]
        BY <3>1, <4>1 DEF TypeOK, u
      <4>4. users' = [users EXCEPT ![u].active = FALSE]
        BY <3>2 DEF u
      <4>5. ~users'[u].active
        BY <4>1, <4>3, <4>4 DEF TypeOK
      <4> QED BY <4>2, <4>5 DEF u
    <3> QED BY <1>2, <3>1, <3>3 DEF UserPart, Did, At
  <2>5. CASE \/ FindAgent(r) \/ InsertAgent(r) \/ GetAgent(r) \/ RenameAgent(r) \/ DeleteAgent(r)
             \/ FindSilent(r) \/ Deactivate(r) \/ RecordHeartbeat(r)
    <3>1. req[r].op.kind \notin {"create_user", "deactivate_user"}
      BY <2>5 DEF FindAgent, InsertAgent, GetAgent, RenameAgent, DeleteAgent, FindSilent, Deactivate,
                  RecordHeartbeat, At
    <3> QED BY <1>2, <3>1 DEF UserPart, Did, At
  <2> QED BY <2>1, <2>2, <2>3, <2>4, <2>5 DEF Handles
<1> HIDE DEF Taken
<1>6. \A q \in Requests :
          \/ SameDeed(q)
          \/ /\ GoesOn(q) /\ UserPart(q)'
             /\ (\E s \in req[q].after :
                     /\ Did(s, "create_user") /\ req[q].op.kind = "create_user"
                     /\ TakenName(q) = TakenName(s))
                => req'[q].stage # "loaded" /\ ~req'[q].wrote
  BY <1>1, <1>5, SameIsSame DEF Taken
<1> QED BY <1>6, GoingOnBinds

\* What kinds of operations a request may begin with.
LEMMA KindsDiffer ==
    /\ \A op \in AdminOps : op.kind \notin {"login", "heartbeat", "none"}
    /\ \A op \in LoginOps : op.kind = "login" /\ op \notin AdminOps /\ op.user \in UserNames
    /\ \A op \in HeartbeatOps : op.kind = "heartbeat" /\ op \notin AdminOps
<1>1. \A op \in AdminOps : op.kind \notin {"login", "heartbeat", "none"}
  BY DEF AdminOps, UserOps, AgentOps
<1>2. \A op \in LoginOps : op.kind = "login" /\ op.user \in UserNames
  BY DEF LoginOps
<1>3. \A op \in HeartbeatOps : op.kind = "heartbeat"
  BY DEF HeartbeatOps
<1> QED BY <1>1, <1>2, <1>3

LEMMA ArrivalBinds ==
    ASSUME TypeOK, AdminInv, UserBind, NEW r \in Requests,
           \/ \E u \in UserNames, op \in AdminOps : Arrive(r, u, op)
           \/ \E op \in LoginOps : Login(r, op)
           \/ \E op \in HeartbeatOps : Heartbeat(r, op)
    PROVE  UserBind'
<1>1. CASE \E u \in UserNames, op \in AdminOps : Arrive(r, u, op)
  <2> PICK u \in UserNames, op \in AdminOps : Arrive(r, u, op)
    BY <1>1
  <2> DEFINE verdict == RequireAdmin(u)
             stage == IF verdict = "none" THEN "open" ELSE "answered"
  <2>1. op \in Operations /\ Began(r, op, u, stage, verdict, {}) /\ users' = users /\ op.kind # "login"
    BY KindsDiffer DEF Operations, Arrive, rows
  <2>2. stage # "loaded"
        /\ (~users[u].active => stage = "answered" /\ verdict = "unauthorized")
    BY DEF RequireAdmin
  <2> HIDE DEF verdict, stage
  <2> QED BY <2>1, <2>2, BeginningBinds
<1>2. CASE \E op \in LoginOps : Login(r, op)
  <2> PICK op \in LoginOps : Login(r, op)
    BY <1>2
  <2> DEFINE a == IF users[op.user].active THEN "ok" ELSE "unauthorized"
  <2>1. op \in Operations /\ op.kind = "login" /\ op.user \in UserNames /\ op \notin AdminOps
    BY KindsDiffer DEF Operations
  <2>2. Began(r, op, op.user, "answered", a, {}) /\ users' = users
    BY DEF Login, rows
  <2>3. ~users[op.user].active => a = "unauthorized"
    OBVIOUS
  <2> HIDE DEF a
  <2> QED BY <2>1, <2>2, <2>3, BeginningBinds
<1>3. CASE \E op \in HeartbeatOps : Heartbeat(r, op)
  <2> PICK op \in HeartbeatOps : Heartbeat(r, op)
    BY <1>3
  <2>1. op \in Operations /\ Root \in UserNames /\ op.kind = "heartbeat" /\ op \notin AdminOps
        /\ users' = users
    BY AdminAssumption, KindsDiffer DEF Operations, Heartbeat, rows
  <2>2. CASE Began(r, op, Root, "answered", "unauthorized", {})
    BY <2>1, <2>2, BeginningBinds
  <2>3. ASSUME NEW i, Began(r, op, Root, "loaded", "none", {i}) PROVE UserBind'
    BY <2>1, <2>3, BeginningBinds
  <2>4. ASSUME NEW i, Began(r, op, Root, "answered", "forbidden", {i}) PROVE UserBind'
    BY <2>1, <2>4, BeginningBinds
  <2> QED BY <2>2, <2>3, <2>4 DEF Heartbeat
<1> QED BY <1>1, <1>2, <1>3

LEMMA UserBindStep == TypeOK /\ AdminInv /\ UserBind /\ [Next]_vars => UserBind'
<1> SUFFICES ASSUME TypeOK, AdminInv, UserBind, [Next]_vars PROVE UserBind'
  OBVIOUS
<1>0. UsersStay
  BY UsersAlwaysStay
<1>1. ASSUME NEW r \in Requests, Step(r) PROVE UserBind'
  BY <1>0, <1>1, StepIsHandled, ArrivalBinds, HandlerBinds, RespondStays, GoingOnBinds
<1>2. ASSUME NEW k \in EnvKeys, Restart(k) PROVE UserBind'
  <2>1. ASSUME NEW q \in Requests, GoesOn(q), req'[q].stage = "answered", req'[q].wrote = req[q].wrote
        PROVE  UserPart(q)' /\ req'[q].stage # "loaded" /\ ~req'[q].wrote
    <3>1. ~req'[q].wrote
      BY <2>1 DEF GoesOn, Undecided, AdminInv, WroteSettled, Settled
    <3> QED BY <2>1, <3>1 DEF UserPart, Did, At
  <2> QED BY <1>0, <1>2, <2>1, RestartGoesOn, SameIsSame, GoingOnBinds
<1>3. CASE Tick \/ UNCHANGED vars
  <2>1. req' = req
    BY <1>3 DEF Tick, vars
  <2> QED BY <1>0, <2>1, SameIsSame, GoingOnBinds
<1> QED BY <1>1, <1>2, <1>3 DEF Next

LEMMA UserBindInit == Init => UserBind
<1> SUFFICES ASSUME Init PROVE UserBind
  OBVIOUS
<1>1. \A r \in Requests : /\ req[r].stage = "unsent" /\ ~req[r].wrote /\ req[r].after = {}
  BY DEF Init, NotSent
<1> QED BY <1>1 DEF UserBind, UserPart, Did, At

-----------------------------------------------------------------------------
(* Agents. *)

\* The requests that take agents out of service.
Retires(s) == req[s].op.kind \in {"deactivate_agent", "sweep", "delete_agent"}

\* What is asked of a request for the part it plays in the table of agents.
AgentPart(r) ==
    /\ req[r].stage = "open" => req[r].dirty = {}
    /\ Retires(r) => \A i \in req[r].dirty : i < nextId
    /\ At(r, "loaded", "delete_agent") => req[r].dirty \subseteq {req[r].op.agent}
    /\ req[r].run <= restarts
    /\ req[r].run = restarts => \A i \in Ids : Ended(r, i) => ~agents[i].active

\* A heartbeat that began after s was committed, in the same run of the server, got
\* in for no agent that s took out of service.
BoundByAgent(r, s) ==
    /\ req[r].op.kind = "heartbeat" /\ req[s].run = req[r].run
    /\ req[r].stage = "loaded" \/ req[r].wrote
    => \A i \in req[r].dirty : ~Ended(s, i)

AgentBind ==
    /\ \A r \in Requests : AgentPart(r)
    /\ \A r \in Requests : \A s \in req[r].after : BoundByAgent(r, s)

\* Ids that were given and are out of service stay out of service.
RetiredStay ==
    /\ nextId' \in Nat /\ nextId <= nextId'
    /\ \A i \in Ids : i < nextId /\ ~agents[i].active => ~agents'[i].active

LEMMA RetiredAlwaysStay ==
    ASSUME TypeOK, RegistryInv, NEW r \in Requests, Step(r)
    PROVE  RetiredStay
<1>1. nextId \in Nat /\ Ids \subseteq Nat
  BY SMT DEF TypeOK, Ids
<1>2. \A i \in Ids : Exists(i) /\ ~agents[i].active => ~agents'[i].active
  BY HandlerRows
<1>3. ~NoAgent.active
  BY DEF NoAgent
<1>4. CASE SameKeys
  <2>1. \A i \in Ids : ~Exists(i) => agents'[i] = NoAgent
    BY <1>4 DEF SameKeys, Exists
  <2>2. \A i \in Ids : ~agents[i].active => ~agents'[i].active
    BY <1>2, <1>3, <2>1
  <2> QED BY <1>1, <1>4, <2>2 DEF RetiredStay, SameKeys
<1>5. ASSUME NEW key \in Keys, NewRow(key) PROVE RetiredStay
  <2>1. nextId' = nextId + 1 /\ \A i \in Ids : i # nextId => agents'[i] = agents[i]
    BY <1>5 DEF NewRow
  <2> QED BY <1>1, <2>1 DEF RetiredStay
<1> QED BY <1>4, <1>5, HandlerRows

LEMMA AgentPartStays ==
    ASSUME TypeOK, RetiredStay, restarts' = restarts,
           NEW r \in Requests, AgentPart(r), SameDeed(r)
    PROVE  AgentPart(r)'
<1>1. nextId \in Nat /\ nextId' \in Nat /\ nextId <= nextId' /\ Ids \subseteq Nat
      /\ req[r].dirty \in SUBSET Ids
  BY RequestFields, SMT DEF RetiredStay, TypeOK, Ids
<1>2. \A i \in Ids : Ended(r, i) => Retires(r) /\ i \in req[r].dirty
  BY DEF Ended, Retires
<1>3. \A i \in Ids : Ended(r, i)' <=> Ended(r, i)
  BY DEF Ended, SameDeed
<1>4. (Retires(r) => \A i \in req[r].dirty : i < nextId)'
  <2>1. Retires(r)' <=> Retires(r)
    BY DEF Retires, SameDeed
  <2>2. ASSUME Retires(r), NEW i \in req[r].dirty PROVE i < nextId'
    <3>1. i < nextId /\ i \in Nat
      BY <1>1, <2>2 DEF AgentPart
    <3> QED BY <1>1, <3>1, SMT
  <2> QED BY <2>1, <2>2 DEF SameDeed
<1>5. \A i \in Ids : Ended(r, i)' => i < nextId
  BY <1>2, <1>3 DEF AgentPart
<1>6. (req[r].run = restarts => \A i \in Ids : Ended(r, i) => ~agents[i].active)'
  BY <1>3, <1>5 DEF AgentPart, RetiredStay, SameDeed
<1> QED BY <1>4, <1>6 DEF AgentPart, At, SameDeed

\* Requests go on.
LEMMA GoingOnBindsAgents ==
    ASSUME TypeOK, AdminInv, AgentBind, RetiredStay, restarts' = restarts,
           \A r \in Requests :
               \/ SameDeed(r)
               \/ /\ GoesOn(r) /\ AgentPart(r)'
                  /\ req[r].op.kind = "heartbeat" => req[r].stage = "loaded" /\ req'[r].dirty = req[r].dirty
    PROVE  AgentBind'
<1>1. \A r \in Requests : AgentPart(r)'
  BY AgentPartStays DEF AgentBind
<1>2. ASSUME NEW r \in Requests, NEW s \in req'[r].after
      PROVE  BoundByAgent(r, s)'
  <2>1. s \in req[r].after /\ s \in Requests /\ s \in Settled
    BY <1>2, RequestFields DEF GoesOn, SameDeed, AdminInv, AfterSettled
  <2>2. SameDeed(s) /\ BoundByAgent(r, s)
    BY <2>1 DEF GoesOn, Undecided, Settled, AgentBind
  <2>3. \A i : Ended(s, i)' <=> Ended(s, i)
    BY <2>2 DEF Ended, SameDeed
  <2>4. CASE SameDeed(r)
    BY <2>2, <2>3, <2>4 DEF BoundByAgent, SameDeed
  <2>5. CASE GoesOn(r) /\ ~SameDeed(r)
    BY <2>2, <2>3, <2>5 DEF BoundByAgent, GoesOn, SameDeed
  <2> QED BY <2>4, <2>5
<1> QED BY <1>1, <1>2 DEF AgentBind

\* A request begins: a heartbeat gets in for an active agent only.
LEMMA BeginningBindsAgents ==
    ASSUME TypeOK, AdminInv, AgentBind, NEW r \in Requests, NEW op \in Operations, NEW u \in UserNames,
           NEW stage, NEW a, NEW ids \in SUBSET Ids, Began(r, op, u, stage, a, ids),
           UNCHANGED <<rows, restarts>>,
           op.kind # "heartbeat" => ids = {},
           op.kind = "heartbeat" =>
               /\ stage # "open"
               /\ stage = "loaded" => \A i \in ids : agents[i].active
    PROVE  AgentBind'
<1>0. restarts \in Nat /\ nextId \in Nat /\ UNCHANGED <<agents, nextId>>
  BY AdminAssumption, SMT DEF TypeOK, rows
<1>1. /\ req[r].stage = "unsent"
      /\ req'[r].op = op /\ req'[r].stage = stage /\ req'[r].answer = a /\ req'[r].dirty = ids
      /\ req'[r].after = Settled /\ req'[r].run = restarts /\ ~req'[r].wrote
      /\ \A s \in Requests \ {r} : req'[s] = req[s]
  BY BeganFields
<1>2. r \notin Settled /\ \A s \in Requests : r \notin req[s].after
  BY <1>1 DEF Settled, AdminInv, AfterSettled
<1>3. RetiredStay
  BY <1>0 DEF RetiredStay
<1>4. AgentPart(r)'
  BY <1>0, <1>1 DEF AgentPart, Retires, At, Ended
<1>5. \A s \in Requests : AgentPart(s)'
  BY <1>0, <1>1, <1>3, <1>4, SameIsSame, AgentPartStays DEF AgentBind
<1>6. ASSUME NEW q \in Requests, NEW s \in req'[q].after
      PROVE  BoundByAgent(q, s)'
  <2>1. s \in Requests /\ s # r /\ req'[s] = req[s]
    BY <1>1, <1>2, <1>6, RequestFields DEF Settled
  <2>2. \A i : Ended(s, i)' <=> Ended(s, i)
    BY <2>1 DEF Ended
  <2>3. CASE q = r
    <3>1. req[s].run = restarts => \A i \in Ids : Ended(s, i) => ~agents[i].active
      BY <2>1 DEF AgentBind, AgentPart
    <3> QED BY <1>1, <2>1, <2>2, <2>3, <3>1 DEF BoundByAgent
  <2>4. CASE q # r
    BY <1>1, <1>6, <2>1, <2>2, <2>4 DEF AgentBind, BoundByAgent
  <2> QED BY <2>3, <2>4
<1> QED BY <1>5, <1>6 DEF AgentBind

LEMMA ArrivalBindsAgents ==
    ASSUME TypeOK, AdminInv, AgentBind, NEW r \in Requests,
           \/ \E u \in UserNames, op \in AdminOps : Arrive(r, u, op)
           \/ \E op \in LoginOps : Login(r, op)
           \/ \E op \in HeartbeatOps : Heartbeat(r, op)
    PROVE  AgentBind'
<1>1. ASSUME NEW u \in UserNames, NEW op \in AdminOps, Arrive(r, u, op) PROVE AgentBind'
  <2> DEFINE verdict == RequireAdmin(u)
             stage == IF verdict = "none" THEN "open" ELSE "answered"
  <2>1. /\ op \in Operations /\ op.kind # "heartbeat" /\ {} \in SUBSET Ids
        /\ Began(r, op, u, stage, verdict, {}) /\ UNCHANGED <<rows, restarts>>
    BY <1>1, KindsDiffer DEF Operations, Arrive
  <2> HIDE DEF verdict, stage
  <2> QED BY <2>1, BeginningBindsAgents
<1>2. ASSUME NEW op \in LoginOps, Login(r, op) PROVE AgentBind'
  <2> DEFINE a == IF users[op.user].active THEN "ok" ELSE "unauthorized"
  <2>1. /\ op \in Operations /\ op.kind # "heartbeat" /\ op.user \in UserNames /\ {} \in SUBSET Ids
        /\ Began(r, op, op.user, "answered", a, {}) /\ UNCHANGED <<rows, restarts>>
    BY <1>2, KindsDiffer DEF Operations, Login
  <2> HIDE DEF a
  <2> QED BY <2>1, BeginningBindsAgents
<1>3. ASSUME NEW op \in HeartbeatOps, Heartbeat(r, op) PROVE AgentBind'
  <2>1. /\ op \in Operations /\ Root \in UserNames /\ op.kind = "heartbeat" /\ {} \in SUBSET Ids
        /\ UNCHANGED <<rows, restarts>>
    BY <1>3, AdminAssumption, KindsDiffer DEF Operations, Heartbeat
  <2>2. CASE Began(r, op, Root, "answered", "unauthorized", {})
    BY <2>1, <2>2, BeginningBindsAgents
  <2>3. ASSUME NEW i \in Ids, agents[i].active, Began(r, op, Root, "loaded", "none", {i}) PROVE AgentBind'
    <3>1. {i} \in SUBSET Ids /\ \A j \in {i} : agents[j].active
      BY <2>3
    <3> QED BY <2>1, <2>3, <3>1, BeginningBindsAgents
  <2>4. ASSUME NEW i \in Ids, Began(r, op, Root, "answered", "forbidden", {i}) PROVE AgentBind'
    <3>1. {i} \in SUBSET Ids
      OBVIOUS
    <3> QED BY <2>1, <2>4, <3>1, BeginningBindsAgents
  <2> QED BY <1>3, <2>2, <2>3, <2>4 DEF Heartbeat, Owners
<1> QED BY <1>1, <1>2, <1>3

\* The step of a handler: the agents it finds have been given their ids, and those
\* it answers for are out of service.
LEMMA HandlerBindsAgents ==
    ASSUME TypeOK, AdminInv, RegistryInv, AgentBind, NEW r \in Requests, Handles(r)
    PROVE  AgentBind'
<1>0. RetiredStay
  BY RetiredAlwaysStay DEF Step, Handles
<1>1. GoesOn(r) /\ \A s \in Requests \ {r} : req'[s] = req[s]
  BY HandlesGoesOn DEF AdminInv
<1>2. restarts' = restarts /\ req'[r].stage # "open"
  BY HandlesGoesOn
  DEF AdminInv, Handles, FindUser, InsertUser, GetUser, DeactivateUser, FindAgent, InsertAgent, GetAgent,
      RenameAgent, DeleteAgent, FindSilent, Deactivate, RecordHeartbeat
<1>3. /\ req'[r].op = req[r].op /\ req'[r].run = req[r].run /\ req[r].run <= restarts
      /\ ~req[r].wrote /\ req[r].op \in Operations
  BY <1>1, RequestFields DEF GoesOn, Undecided, Settled, AdminInv, WroteSettled, AgentBind, AgentPart
<1>4. nextId \in Nat /\ nextId' \in Nat /\ nextId <= nextId' /\ Ids \subseteq Nat
  BY <1>0, SMT DEF RetiredStay, TypeOK, Ids
<1>5. \A i \in Ids : Exists(i) => i < nextId
  BY <1>4 DEF RegistryInv, Fresh, Exists
<1>6. AgentPart(r)'
  <2>1. CASE GetAgent(r)
    <3>1. Undecided(r) /\ req[r].op.agent \in Ids /\ nextId' = nextId
      BY <1>3, <2>1, OpFields DEF GetAgent, Undecided, rows
    <3>2. CASE Answer(r, "not_found")
      <4>1. req'[r].stage = "answered" /\ ~req'[r].wrote /\ req'[r].dirty = {}
        BY <1>3, <2>1, <3>1, <3>2, AnswerGoesOn DEF GetAgent, AgentBind, AgentPart
      <4> QED BY <1>2, <1>3, <4>1 DEF AgentPart, Retires, At, Ended
    <3>3. ASSUME NEW ids \in SUBSET {req[r].op.agent}, Exists(req[r].op.agent), Load(r, ids)
          PROVE  AgentPart(r)'
      <4>1. ~req'[r].wrote /\ req'[r].dirty = ids
        BY <1>3, <3>1, <3>3, LoadGoesOn
      <4>2. \A i \in ids : i < nextId'
        BY <1>5, <3>1, <3>3
      <4> QED BY <1>2, <1>3, <4>1, <4>2 DEF AgentPart, Retires, At, Ended
    <3> QED BY <2>1, <3>2, <3>3 DEF GetAgent
  <2>2. CASE DeleteAgent(r)
    <3> DEFINE i == req[r].op.agent
    <3>1. Undecided(r) /\ i \in Ids /\ nextId' = nextId /\ Commit(r) /\ req[r].dirty \subseteq {i}
          /\ Retires(r)
      BY <1>3, <2>2, OpFields DEF DeleteAgent, At, Undecided, AgentBind, AgentPart, Retires
    <3>2. req'[r].dirty = req[r].dirty /\ req'[r].stage = "committed"
      BY <3>1, CommitGoesOn
    <3>3. agents' = [agents EXCEPT ![i] = NoAgent]
      BY <2>2 DEF DeleteAgent
    <3>4. ~agents'[i].active
      <4> HIDE DEF i
      <4> QED BY <3>1, <3>3 DEF TypeOK, NoAgent
    <3>5. \A j \in req[r].dirty : j < nextId
      BY <3>1 DEF AgentBind, AgentPart
    <3> QED BY <1>2, <1>3, <3>1, <3>2, <3>4, <3>5 DEF AgentPart, Retires, At, Ended
  <2>3. CASE FindSilent(r)
    <3> DEFINE silent == { i \in Ids : agents[i].active /\ Silent(i, clock) }
    <3>1. Undecided(r) /\ req[r].dirty = {} /\ nextId' = nextId /\ req[r].op.kind = "sweep"
      BY <2>3 DEF FindSilent, At, Undecided, rows, AgentBind, AgentPart
    <3>2. CASE Answer(r, "ok")
      <4>1. req'[r].stage = "answered" /\ req'[r].dirty = {}
        BY <3>1, <3>2, AnswerGoesOn
      <4> QED BY <1>2, <1>3, <4>1 DEF AgentPart, Retires, At, Ended
    <3>3. CASE req' = [req EXCEPT ![r].stage = "loaded", ![r].dirty = silent, ![r].now = clock]
      <4>1. ~req'[r].wrote /\ req'[r].dirty = silent
        <5> HIDE DEF silent
        <5> QED BY <1>3, <3>1, <3>3, LoadGoesOn
      <4>2. \A i \in silent : i < nextId'
        BY <1>5, <3>1 DEF Exists, NoAgent
      <4> HIDE DEF silent
      <4> QED BY <1>2, <1>3, <3>1, <4>1, <4>2 DEF AgentPart, Retires, At, Ended
    <3> QED BY <2>3, <3>2, <3>3 DEF FindSilent
  <2>4. CASE Deactivate(r)
    <3>1. Undecided(r) /\ nextId' = nextId /\ Retires(r) /\ req[r].op.kind # "delete_agent"
      BY <2>4 DEF Deactivate, Undecided, Retires
    <3>2. \A i \in req[r].dirty : i < nextId
      BY <3>1 DEF AgentBind, AgentPart
    <3>3. CASE Answer(r, "error")
      <4>1. req'[r].dirty = req[r].dirty /\ ~req'[r].wrote
        BY <1>3, <3>1, <3>3, AnswerGoesOn
      <4> QED BY <1>2, <1>3, <3>1, <3>2, <4>1 DEF AgentPart, Retires, At, Ended
    <3>4. CASE /\ \A i \in req[r].dirty : Exists(i)
               /\ agents' = [i \in Ids |-> IF i \in req[r].dirty THEN [agents[i] EXCEPT !.active = FALSE]
                                           ELSE agents[i]]
               /\ Commit(r)
      <4>1. req'[r].dirty = req[r].dirty
        BY <3>1, <3>4, CommitGoesOn
      <4>2. ASSUME NEW i \in Ids, i \in req[r].dirty PROVE ~agents'[i].active
        <5>1. agents'[i] = [agents[i] EXCEPT !.active = FALSE] /\ agents[i] \in AgentRow
          BY <3>4, <4>2 DEF TypeOK, Exists
        <5> QED BY <5>1 DEF AgentRow
      <4> QED BY <1>2, <1>3, <3>1, <3>2, <4>1, <4>2 DEF AgentPart, Retires, At, Ended
    <3> QED BY <2>4, <3>3, <3>4 DEF Deactivate
  <2>5. CASE \/ FindUser(r) \/ InsertUser(r) \/ GetUser(r) \/ DeactivateUser(r)
             \/ FindAgent(r) \/ InsertAgent(r) \/ RenameAgent(r) \/ RecordHeartbeat(r)
    <3>1. ~Retires(r)
      BY <2>5 DEF Retires, FindUser, InsertUser, GetUser, DeactivateUser, FindAgent, InsertAgent, RenameAgent,
                  RecordHeartbeat, At
    <3> QED BY <1>2, <1>3, <3>1 DEF AgentPart, Retires, At, Ended
  <2> QED BY <2>1, <2>2, <2>3, <2>4, <2>5 DEF Handles
<1>7. req[r].op.kind = "heartbeat" => req[r].stage = "loaded" /\ req'[r].dirty = req[r].dirty
  <2>1. req[r].op.kind = "heartbeat" => RecordHeartbeat(r)
    BY DEF Handles, FindUser, InsertUser, GetUser, DeactivateUser, FindAgent, InsertAgent, GetAgent,
           RenameAgent, DeleteAgent, FindSilent, Deactivate, At
  <2>2. RecordHeartbeat(r) => req[r].stage = "loaded"
    BY DEF RecordHeartbeat, At
  <2> QED BY <2>1, <2>2, HandlesGoesOn DEF AdminInv
<1>8. \A q \in Requests :
          \/ SameDeed(q)
          \/ /\ GoesOn(q) /\ AgentPart(q)'
             /\ req[q].op.kind = "heartbeat" => req[q].stage = "loaded" /\ req'[q].dirty = req[q].dirty
  BY <1>1, <1>6, <1>7, SameIsSame
<1> QED BY <1>0, <1>2, <1>8, GoingOnBindsAgents

\* A start of the server begins a run of its own, to which nobody is bound yet.
LEMMA RestartBindsAgents ==
    ASSUME TypeOK, AdminInv, RegistryInv, AgentBind, NEW k \in EnvKeys, Restart(k)
    PROVE  AgentBind'
<1>1. restarts \in Nat /\ restarts' = restarts + 1
  <2>1. restarts \in 0..MaxRestarts /\ restarts' = restarts + 1
    BY DEF Restart, TypeOK
  <2> QED BY <2>1, AdminAssumption, SMT
<1>2. nextId \in Nat /\ (nextId' = nextId \/ nextId' = nextId + 1) /\ Ids \subseteq Nat
  <2>1. nextId \in 1..(MaxAgents + 1) /\ (nextId' = nextId \/ nextId' = nextId + 1)
    BY DEF Restart, Seed, TypeOK
  <2> QED BY <2>1, AdminAssumption, SMT DEF Ids
<1>3. ASSUME NEW r \in Requests
      PROVE  AgentPart(r)'
  <2>1. req'[r].run = req[r].run /\ req'[r].dirty = req[r].dirty /\ req'[r].op = req[r].op
        /\ req'[r].stage \notin {"open", "loaded"}
    BY RestartGoesOn DEF GoesOn, SameDeed, InFlight
  <2>2. req[r].run \in Nat /\ req[r].run <= restarts /\ req[r].dirty \in SUBSET Ids
    BY RequestFields, AdminAssumption, SMT DEF AgentBind, AgentPart, Request
  <2>3. Retires(r) => \A i \in req[r].dirty : i < nextId'
    <3>1. Retires(r) => \A i \in req[r].dirty : i < nextId /\ i \in Nat
      BY <1>2, <2>2 DEF AgentBind, AgentPart
    <3> QED BY <1>2, <3>1, SMT
  <2>4. req'[r].run <= restarts' /\ req'[r].run # restarts'
    BY <1>1, <2>1, <2>2, SMT
  <2> QED BY <2>1, <2>3, <2>4 DEF AgentBind, AgentPart, Retires, At
<1>4. ASSUME NEW r \in Requests, NEW s \in req'[r].after
      PROVE  BoundByAgent(r, s)'
  <2>1. s \in req[r].after /\ s \in Requests /\ s \in Settled
    BY <1>4, RestartGoesOn, RequestFields DEF GoesOn, SameDeed, AdminInv, AfterSettled
  <2>2. SameDeed(s) /\ BoundByAgent(r, s)
    BY <2>1, RestartStays DEF DeedsStay, AgentBind
  <2>3. \A i : Ended(s, i)' <=> Ended(s, i)
    BY <2>2 DEF Ended, SameDeed
  <2>4. CASE SameDeed(r)
    BY <2>2, <2>3, <2>4 DEF BoundByAgent, SameDeed
  <2>5. CASE GoesOn(r) /\ req'[r].stage = "answered" /\ req'[r].wrote = req[r].wrote
    <3>1. ~req'[r].wrote
      BY <2>5 DEF GoesOn, Undecided, Settled, AdminInv, WroteSettled
    <3> QED BY <2>5, <3>1 DEF BoundByAgent
  <2> QED BY <2>4, <2>5, RestartGoesOn, SameIsSame
<1> QED BY <1>3, <1>4 DEF AgentBind

LEMMA RespondBindsAgents ==
    ASSUME TypeOK, AdminInv, AgentBind, NEW r \in Requests, Respond(r)
    PROVE  AgentBind'
<1>1. UNCHANGED <<agents, nextId, restarts>> /\ nextId \in Nat /\ \A s \in Requests : SameDeed(s)
  BY RespondGoesOn, RespondStays, SMT DEF TypeOK
<1>2. RetiredStay
  BY <1>1 DEF RetiredStay
<1> QED BY <1>1, <1>2, GoingOnBindsAgents

LEMMA AgentBindStep == TypeOK /\ AdminInv /\ RegistryInv /\ AgentBind /\ [Next]_vars => AgentBind'
<1> SUFFICES ASSUME TypeOK, AdminInv, RegistryInv, AgentBind, [Next]_vars PROVE AgentBind'
  OBVIOUS
<1>1. ASSUME NEW r \in Requests, Step(r) PROVE AgentBind'
  <2>1. CASE Respond(r)
    BY <2>1, RespondBindsAgents
  <2> QED BY <1>1, <2>1, StepIsHandled, ArrivalBindsAgents, HandlerBindsAgents
<1>2. ASSUME NEW k \in EnvKeys, Restart(k) PROVE AgentBind'
  BY <1>2, RestartBindsAgents
<1>3. CASE Tick \/ UNCHANGED vars
  <2>1. UNCHANGED <<agents, nextId, req, restarts>> /\ nextId \in Nat
    BY <1>3, SMT DEF Tick, rows, vars, TypeOK
  <2>2. RetiredStay
    BY <2>1 DEF RetiredStay
  <2> QED BY <2>1, <2>2, SameIsSame, GoingOnBindsAgents
<1> QED BY <1>1, <1>2, <1>3 DEF Next

LEMMA AgentBindInit == Init => AgentBind
<1> SUFFICES ASSUME Init PROVE AgentBind
  OBVIOUS
<1>1. \A r \in Requests : /\ req[r].stage = "unsent" /\ ~req[r].wrote /\ req[r].after = {}
                          /\ req[r].dirty = {} /\ req[r].run = 0 /\ restarts = 0
  BY DEF Init, NotSent
<1> QED BY <1>1 DEF AgentBind, AgentPart, At, Ended

\* A commit binds the requests that begin after it, whatever comes between: the
\* caller and the login of a deactivated user are refused, a name is given once,
\* and a heartbeat gets in for no agent that was taken out of service.
THEOREM CommitsAlwaysBind == Spec => []CommitsBind
<1>1. TypeOK /\ AdminInv /\ UserBind /\ AgentBind => CommitsBind
  <2> SUFFICES ASSUME TypeOK, AdminInv, UserBind, AgentBind, NEW r \in Requests, NEW s \in req[r].after
               PROVE  /\ Did(s, "deactivate_user") =>
                             /\ req[r].op.kind = "login" /\ req[r].op.user = req[s].op.user =>
                                    req[r].answer # "ok"
                             /\ req[r].op \in AdminOps /\ req[r].actor = req[s].op.user =>
                                    req[r].answer = "unauthorized"
                      /\ Did(s, "create_user") /\ Did(r, "create_user") =>
                             UserName[req[r].op.name] # UserName[req[s].op.name]
                      /\ Did(r, "heartbeat") /\ req[s].run = req[r].run =>
                             \A i \in req[r].dirty : ~Ended(s, i)
    BY DEF CommitsBind
  <2>1. BoundByUser(r, s) /\ BoundByAgent(r, s)
    BY DEF UserBind, AgentBind
  <2> QED BY <2>1 DEF BoundByUser, BoundByAgent, Did, TakenName
<1> QED BY <1>1, InitTyped, NextTyped, AdminInit, AdminStep, RegistryInit, RegistryStep, UserBindInit,
           UserBindStep, AgentBindInit, AgentBindStep, PTL DEF Spec

-----------------------------------------------------------------------------
(* RefusalsExplained: what a handler read stands at its commit, and what it  *)
(* wrote until its response, unless another commit took it since.            *)

\* Another commit, made since the request was authorised, took what it had found.
Excused(r) == \E s \in Requests \ ({r} \cup req[r].after) : TookFrom(s, r)

\* The rows that the handler of a request still has to find.
Awaits(r) ==
    { i \in Needs(r) :
        \/ /\ req[r].stage = "loaded"
           /\ req[r].op.kind \in {"heartbeat", "deactivate_agent", "sweep", "rename_agent"}
        \/ req[r].stage = "committed" /\ req[r].op.kind \in {"create_agent", "rename_agent"} }

\* What the handler of a request relies on is as it found it.
Finds(r) ==
    /\ At(r, "loaded", "create_user") => users[TakenName(r)] = NoUser
    /\ At(r, "loaded", "create_agent") => Named(AgentName[req[r].op.name]) = {}
    /\ \A i \in Awaits(r) : Exists(i)

\* A rename to a name that another agent was given.
Clashes(r) ==
    /\ req[r].op.kind = "rename_agent"
    /\ \/ AgentName[req[r].op.name] = Demo
       \/ \E s \in Requests \ {r} : Gave(s, AgentName[req[r].op.name])

\* Names come from the start of the server or from a request.
NamesGiven ==
    \A i \in Ids : Exists(i) => agents[i].name = Demo \/ \E s \in Requests : Gave(s, agents[i].name)

ErrorsExcused ==
    /\ NamesGiven
    /\ \A r \in Requests :
        /\ Finds(r) \/ Excused(r)
        /\ req[r].answer = "error" => req[r].stage = "answered" /\ (Excused(r) \/ Clashes(r))

LEMMA NoAgentIsNoRow == NoAgent \notin AgentRow
<1> SUFFICES ASSUME NoAgent \in AgentRow PROVE FALSE
  OBVIOUS
<1>1. NoAgent.key \in Keys /\ NoAgent.key = <<"none", 0>>
  BY DEF AgentRow, NoAgent
<1> QED BY <1>1 DEF Keys

\* What a commit gave or took, it gave or took for good.
LEMMA GaveStays ==
    ASSUME TypeOK, AdminInv, DeedsStay, NEW s \in Requests, NEW name, Gave(s, name)
    PROVE  Gave(s, name)'
<1>1. SameDeed(s)
  BY DEF Gave, AdminInv, WroteSettled, DeedsStay
<1> QED BY <1>1 DEF Gave, SameDeed

LEMMA ExcuseStays ==
    ASSUME TypeOK, AdminInv, DeedsStay, NEW r \in Requests, Excused(r),
           req'[r].op = req[r].op, req'[r].after = req[r].after, req'[r].dirty = req[r].dirty
    PROVE  Excused(r)'
<1>1. PICK s \in Requests \ ({r} \cup req[r].after) : TookFrom(s, r)
  BY DEF Excused
<1>2. SameDeed(s)
  BY <1>1 DEF TookFrom, Did, Gave, AdminInv, WroteSettled, DeedsStay
<1>3. Needs(r)' = Needs(r)
  BY DEF Needs
<1>4. TookFrom(s, r)'
  BY <1>1, <1>2, <1>3 DEF TookFrom, Did, Gave, SameDeed
<1> QED BY <1>1, <1>4 DEF Excused

LEMMA ClashStays ==
    ASSUME TypeOK, AdminInv, DeedsStay, NEW r \in Requests, Clashes(r), req'[r].op = req[r].op
    PROVE  Clashes(r)'
BY GaveStays DEF Clashes

\* A user that comes to be was created by this commit.
LEMMA UserAppears ==
    ASSUME TypeOK, AdminInv, UserBind, NEW r \in Requests, Handles(r),
           NEW u \in UserNames, users[u] = NoUser, users'[u] # NoUser
    PROVE  Did(r, "create_user")' /\ TakenName(r) = u
<1>1. CASE InsertUser(r)
  <2> DEFINE w == TakenName(r)
  <2>1. Undecided(r) /\ req[r].op.kind = "create_user" /\ Commit(r)
        /\ users' = [users EXCEPT ![w] = NewUser(req[r].op.role)]
    BY <1>1 DEF InsertUser, At, Undecided, TakenName
  <2>2. u = w
    <3> HIDE DEF w
    <3> QED BY <2>1 DEF TypeOK
  <2> QED BY <2>1, <2>2, CommitGoesOn DEF Did, GoesOn
<1>2. CASE DeactivateUser(r)
  <2> DEFINE v == req[r].op.user
  <2>1. users' = [users EXCEPT ![v].active = FALSE] /\ users[v] # NoUser
    BY <1>2 DEF DeactivateUser, UserBind, UserPart
  <2>2. FALSE
    <3> HIDE DEF v
    <3> QED BY <2>1 DEF TypeOK
  <2> QED BY <2>2
<1>3. users' = users \/ InsertUser(r) \/ DeactivateUser(r)
  BY DEF Handles, FindUser, GetUser, FindAgent, InsertAgent, GetAgent, RenameAgent, DeleteAgent, FindSilent,
         Deactivate, RecordHeartbeat, rows
<1> QED BY <1>1, <1>2, <1>3

\* Handlers that leave the name of an agent, and the agent but for a deletion.
LEMMA RowWritten ==
    ASSUME TypeOK, NEW r \in Requests, NEW i \in Ids, RecordHeartbeat(r) \/ Deactivate(r)
    PROVE  (Exists(i)' <=> Exists(i)) /\ (Exists(i) => agents'[i].name = agents[i].name)
<1>1. CASE RecordHeartbeat(r)
  <2> DEFINE t == req[r].now
  <2> PICK j \in req[r].dirty :
          IF Exists(j) THEN agents' = [agents EXCEPT ![j].seen = t] ELSE UNCHANGED agents
    BY <1>1 DEF RecordHeartbeat
  <2>1. t \in 0..MaxTime
    BY RequestFields
  <2> HIDE DEF t
  <2>2. agents'[i] = agents[i] \/ (Exists(i) /\ agents'[i] = [agents[i] EXCEPT !.seen = t])
    BY DEF TypeOK
  <2>3. Exists(i) => agents[i] \in AgentRow /\ [agents[i] EXCEPT !.seen = t] \in AgentRow
    BY <2>1, RowsTyped DEF Exists
  <2> QED BY <2>2, <2>3, NoAgentIsNoRow DEF Exists, AgentRow
<1>2. CASE Deactivate(r)
  <2>1. agents'[i] = agents[i] \/ (Exists(i) /\ agents'[i] = [agents[i] EXCEPT !.active = FALSE])
    BY <1>2 DEF Deactivate
  <2>2. Exists(i) => agents[i] \in AgentRow /\ [agents[i] EXCEPT !.active = FALSE] \in AgentRow
    BY RowsTyped DEF Exists
  <2> QED BY <2>1, <2>2, NoAgentIsNoRow DEF Exists, AgentRow
<1> QED BY <1>1, <1>2

\* A rename that writes.
LEMMA RenameWritten ==
    ASSUME TypeOK, NEW r \in Requests, RenameAgent(r), agents' # agents
    PROVE  /\ Undecided(r) /\ req[r].op.kind = "rename_agent" /\ req[r].dirty # {} /\ Commit(r)
           /\ \A i \in Ids :
                  /\ i # req[r].op.agent => agents'[i] = agents[i]
                  /\ i = req[r].op.agent => /\ Exists(i) /\ agents'[i] # NoAgent
                                            /\ agents'[i].name = AgentName[req[r].op.name]
<1> DEFINE j == req[r].op.agent
           nm == AgentName[req[r].op.name]
<1>1. /\ Undecided(r) /\ req[r].op.kind = "rename_agent" /\ req[r].dirty # {} /\ Commit(r)
      /\ Exists(j) /\ agents' = [agents EXCEPT ![j].name = nm]
  BY DEF RenameAgent, At, Undecided
<1>2. j \in Ids /\ nm \in AgentNames
  BY <1>1, RequestFields, OpFields, NamesTyped
<1> HIDE DEF j, nm
<1>3. agents[j] \in AgentRow /\ [agents[j] EXCEPT !.name = nm] \in AgentRow
  BY <1>1, <1>2, RowsTyped DEF Exists
<1>4. agents'[j] = [agents[j] EXCEPT !.name = nm] /\ \A i \in Ids : i # j => agents'[i] = agents[i]
  BY <1>1, <1>2 DEF TypeOK
<1>5. agents'[j] # NoAgent /\ agents'[j].name = nm
  BY <1>3, <1>4, NoAgentIsNoRow DEF AgentRow
<1> QED BY <1>1, <1>4, <1>5 DEF j, nm

\* An agent that is inserted.
LEMMA InsertWritten ==
    ASSUME TypeOK, NEW r \in Requests, InsertAgent(r), agents' # agents
    PROVE  /\ Undecided(r) /\ req[r].op.kind = "create_agent" /\ CommitNew(r, nextId) /\ nextId \in Ids
           /\ \A i \in Ids : i # nextId => agents'[i] = agents[i]
           /\ agents'[nextId] # NoAgent /\ agents'[nextId].name = AgentName[req[r].op.name]
<1> DEFINE nm == AgentName[req[r].op.name]
<1>1. /\ Undecided(r) /\ req[r].op.kind = "create_agent" /\ CommitNew(r, nextId) /\ nextId \in Ids
      /\ agents' = [agents EXCEPT ![nextId] = NewAgent(nm, <<"spy", nextId>>)]
  BY DEF InsertAgent, At, Undecided
<1>2. nm \in AgentNames /\ <<"spy", nextId>> \in Keys
  BY <1>1, RequestFields, OpFields, NamesTyped
<1> HIDE DEF nm
<1>3. NewAgent(nm, <<"spy", nextId>>) \in AgentRow /\ NewAgent(nm, <<"spy", nextId>>).name = nm
  BY <1>2 DEF NewAgent, AgentRow, Never
<1>4. agents'[nextId] = NewAgent(nm, <<"spy", nextId>>) /\ \A i \in Ids : i # nextId => agents'[i] = agents[i]
  BY <1>1 DEF TypeOK
<1>5. agents'[nextId] # NoAgent
  BY <1>3, <1>4, NoAgentIsNoRow
<1> QED BY <1>1, <1>3, <1>4, <1>5 DEF nm

\* A name that an agent comes to have was given by this commit.
LEMMA NameAppears ==
    ASSUME TypeOK, NEW r \in Requests, Handles(r), NEW i \in Ids, NEW name,
           Exists(i)', agents'[i].name = name, ~Exists(i) \/ agents[i].name # name
    PROVE  Gave(r, name)'
<1>0. agents' # agents
  BY DEF Exists
<1>1. CASE InsertAgent(r)
  <2>1. /\ Undecided(r) /\ req[r].op.kind = "create_agent" /\ CommitNew(r, nextId)
        /\ i = nextId /\ name = AgentName[req[r].op.name]
    BY <1>0, <1>1, InsertWritten DEF Exists
  <2> QED BY <2>1, CommitNewGoesOn DEF Gave, GoesOn
<1>2. CASE RenameAgent(r)
  <2>1. /\ Undecided(r) /\ req[r].op.kind = "rename_agent" /\ req[r].dirty # {} /\ Commit(r)
        /\ i = req[r].op.agent /\ name = AgentName[req[r].op.name]
    BY <1>0, <1>2, RenameWritten DEF Exists
  <2> QED BY <2>1, CommitGoesOn DEF Gave, GoesOn
<1>3. CASE RecordHeartbeat(r) \/ Deactivate(r)
  BY <1>3, RowWritten
<1>4. CASE DeleteAgent(r)
  <2>1. agents'[i] = agents[i] \/ agents'[i] = NoAgent
    BY <1>4 DEF DeleteAgent, TypeOK
  <2> QED BY <2>1 DEF Exists
<1> QED BY <1>0, <1>1, <1>2, <1>3, <1>4
        DEF Handles, FindUser, InsertUser, GetUser, DeactivateUser, FindAgent, GetAgent, FindSilent, rows

\* An agent that is gone was deleted by this commit.
LEMMA RowDisappears ==
    ASSUME TypeOK, NEW r \in Requests, Handles(r), NEW i \in Ids, Exists(i), ~Exists(i)'
    PROVE  Did(r, "delete_agent")' /\ req[r].op.agent = i
<1>0. agents' # agents
  BY DEF Exists
<1>1. CASE InsertAgent(r)
  BY <1>0, <1>1, InsertWritten DEF Exists
<1>2. CASE RenameAgent(r)
  BY <1>0, <1>2, RenameWritten DEF Exists
<1>3. CASE RecordHeartbeat(r) \/ Deactivate(r)
  BY <1>3, RowWritten
<1>4. CASE DeleteAgent(r)
  <2> DEFINE j == req[r].op.agent
  <2>1. Undecided(r) /\ req[r].op.kind = "delete_agent" /\ Commit(r) /\ agents' = [agents EXCEPT ![j] = NoAgent]
    BY <1>4 DEF DeleteAgent, At, Undecided
  <2>2. i = j
    <3> HIDE DEF j
    <3> QED BY <2>1 DEF TypeOK, Exists
  <2> QED BY <2>1, <2>2, CommitGoesOn DEF Did, GoesOn
<1> QED BY <1>0, <1>1, <1>2, <1>3, <1>4
        DEF Handles, FindUser, InsertUser, GetUser, DeactivateUser, FindAgent, GetAgent, FindSilent, rows

\* What another request relies on is as it found it, or this commit excuses it.
LEMMA LostIsExcused ==
    ASSUME TypeOK, AdminInv, UserBind, NEW r \in Requests, Handles(r),
           NEW q \in Requests \ {r}, Finds(q)
    PROVE  Finds(q)' \/ Excused(q)'
<1>1. req'[q] = req[q] /\ GoesOn(r)
  BY HandlesGoesOn DEF AdminInv
<1>2. r \in Requests \ ({q} \cup req'[q].after) /\ req'[r].op = req[r].op
  BY <1>1 DEF GoesOn, Undecided, Settled, AdminInv, AfterSettled
<1>3. req[q].op \in Operations /\ req[q].dirty \in SUBSET Ids
  BY RequestFields
<1> SUFFICES ASSUME ~TookFrom(r, q)' PROVE Finds(q)'
  BY <1>2 DEF Excused
<1>4. ASSUME At(q, "loaded", "create_user") PROVE users'[TakenName(q)] = NoUser
  <2> DEFINE u == TakenName(q)
  <2>1. u \in UserNames /\ users[u] = NoUser
    BY <1>3, <1>4, OpFields, NamesTyped DEF At, TakenName, Finds
  <2>2. users'[u] # NoUser => Did(r, "create_user")' /\ TakenName(r) = u
    BY <2>1, UserAppears
  <2>3. ~(Did(r, "create_user")' /\ TakenName(r) = u)
    BY <1>1, <1>2, <1>4 DEF TookFrom, At, TakenName
  <2> QED BY <2>2, <2>3
<1>5. ASSUME At(q, "loaded", "create_agent") PROVE Named(AgentName[req[q].op.name])' = {}
  <2> DEFINE name == AgentName[req[q].op.name]
  <2>1. Named(name) = {}
    BY <1>4, <1>5 DEF Finds
  <2>2. \A i \in Ids : ~(Exists(i)' /\ agents'[i].name = name)
    <3> SUFFICES ASSUME NEW i \in Ids, Exists(i)', agents'[i].name = name PROVE FALSE
      OBVIOUS
    <3>1. PICK nm : nm = name
      OBVIOUS
    <3>2. ~Exists(i) \/ agents[i].name # nm
      BY <2>1, <3>1 DEF Named
    <3> HIDE DEF name
    <3>3. Gave(r, nm)'
      BY <3>1, <3>2, NameAppears
    <3> QED BY <1>1, <1>5, <3>1, <3>3 DEF TookFrom, At, name
  <2> QED BY <1>1, <2>2 DEF Named
<1>6. Awaits(q)' = Awaits(q)
  BY <1>1 DEF Awaits, Needs
<1>7. ASSUME NEW i \in Awaits(q) PROVE Exists(i)'
  <2>1. i \in Ids /\ Exists(i) /\ i \in Needs(q)'
    <3>1. i \in Needs(q) /\ Exists(i)
      BY <1>7 DEF Awaits, Finds
    <3>2. Needs(q) \subseteq Ids
      BY <1>3, OpFields DEF Needs
    <3> QED BY <1>1, <3>1, <3>2 DEF Needs
  <2>2. ~(Did(r, "delete_agent")' /\ req'[r].op.agent = i)
    BY <2>1 DEF TookFrom
  <2> QED BY <1>2, <2>1, <2>2, RowDisappears
<1>8. (At(q, "loaded", "create_user")' <=> At(q, "loaded", "create_user"))
      /\ (At(q, "loaded", "create_agent")' <=> At(q, "loaded", "create_agent"))
      /\ TakenName(q)' = TakenName(q)
  BY <1>1 DEF At, TakenName
<1> QED BY <1>1, <1>4, <1>5, <1>6, <1>7, <1>8 DEF Finds

\* What a handler goes on with after it has read is there.
LEMMA LoadFinds ==
    ASSUME TypeOK, AdminInv, NEW r \in Requests, Handles(r), req'[r].stage = "loaded"
    PROVE  Finds(r)'
<1>0. GoesOn(r) /\ req'[r].op = req[r].op /\ req[r].stage = "open"
  BY HandlesGoesOn DEF GoesOn, AdminInv
<1>1. CASE FindUser(r)
  <2>1. users' = users /\ req[r].op.kind = "create_user"
        /\ (Answer(r, "conflict") \/ users[TakenName(r)] = NoUser)
    BY <1>1 DEF FindUser, At, rows, TakenName
  <2>2. users[TakenName(r)] = NoUser
    BY <1>0, <2>1, AnswerGoesOn DEF GoesOn
  <2> QED BY <1>0, <2>1, <2>2 DEF Finds, TakenName, At, Awaits
<1>2. CASE FindAgent(r)
  <2>1. agents' = agents /\ req[r].op.kind = "create_agent"
        /\ (Answer(r, "conflict") \/ Named(AgentName[req[r].op.name]) = {})
    BY <1>2 DEF FindAgent, At, rows
  <2>2. Named(AgentName[req[r].op.name]) = {}
    BY <1>0, <2>1, AnswerGoesOn DEF GoesOn
  <2>3. \A name : Named(name)' = Named(name)
    BY <2>1 DEF Named, Exists
  <2> QED BY <1>0, <2>1, <2>2, <2>3 DEF Finds, At, Awaits
<1>3. CASE GetUser(r)
  <2>1. req[r].op.kind = "deactivate_user"
    BY <1>3 DEF GetUser, At
  <2> QED BY <1>0, <2>1 DEF Finds, At, Awaits
<1>4. CASE GetAgent(r)
  <2>1. agents' = agents /\ req[r].op.kind \in {"rename_agent", "deactivate_agent", "delete_agent"}
    BY <1>4 DEF GetAgent, rows
  <2>2. ~Answer(r, "not_found")
    BY <1>0, AnswerGoesOn DEF GoesOn
  <2>3. PICK ids \in SUBSET {req[r].op.agent} : Exists(req[r].op.agent) /\ Load(r, ids)
    BY <1>4, <2>2 DEF GetAgent
  <2>4. req'[r].dirty = ids
    BY <1>0, <2>3, LoadGoesOn DEF GoesOn
  <2> QED BY <1>0, <2>1, <2>3, <2>4 DEF Finds, Exists, At, Awaits, Needs
<1>5. CASE FindSilent(r)
  <2> DEFINE silent == { i \in Ids : agents[i].active /\ Silent(i, clock) }
  <2>1. agents' = agents /\ req[r].op.kind = "sweep"
    BY <1>5 DEF FindSilent, At, rows
  <2>2. ~Answer(r, "ok")
    BY <1>0, AnswerGoesOn DEF GoesOn
  <2>3. req' = [req EXCEPT ![r].stage = "loaded", ![r].dirty = silent, ![r].now = clock]
    BY <1>5, <2>2 DEF FindSilent
  <2>4. req'[r].dirty = silent
    <3> HIDE DEF silent
    <3> QED BY <1>0, <2>3, LoadGoesOn DEF GoesOn
  <2>5. \A i \in silent : Exists(i)
    BY DEF Exists, NoAgent
  <2> HIDE DEF silent
  <2> QED BY <1>0, <2>1, <2>4, <2>5 DEF Finds, Exists, At, Awaits, Needs
<1>6. CASE \/ InsertUser(r) \/ DeactivateUser(r) \/ InsertAgent(r) \/ RenameAgent(r) \/ DeleteAgent(r)
           \/ Deactivate(r) \/ RecordHeartbeat(r)
  BY <1>0, <1>6 DEF InsertUser, DeactivateUser, InsertAgent, RenameAgent, DeleteAgent, Deactivate, RecordHeartbeat,
                At
<1> QED BY <1>1, <1>2, <1>3, <1>4, <1>5, <1>6 DEF Handles

\* A handler that fails at its commit misses what it relied on, or its new name is
\* another agent's.
LEMMA ErrorMisses ==
    ASSUME TypeOK, AdminInv, NamesGiven, NEW r \in Requests, Handles(r),
           req'[r].answer = "error", req[r].answer # "error"
    PROVE  req'[r].stage = "answered" /\ req'[r].dirty = req[r].dirty /\ (~Finds(r) \/ Clashes(r))
<1>0. /\ GoesOn(r) /\ req[r].stage = "loaded" /\ req'[r].stage = "answered" /\ ~req[r].wrote
      /\ req'[r].dirty = req[r].dirty
  BY HandlesGoesOn DEF AdminInv, WroteSettled, GoesOn, Undecided, Settled
<1>1. ~Commit(r) /\ ~CommitNew(r, nextId)
  BY <1>0, CommitGoesOn, CommitNewGoesOn DEF GoesOn
<1>2. CASE InsertUser(r)
  BY <1>1, <1>2, <1>0 DEF InsertUser, At, Finds, TakenName
<1>3. CASE InsertAgent(r)
  BY <1>1, <1>3, <1>0 DEF InsertAgent, At, Finds
<1>4. CASE Deactivate(r)
  BY <1>1, <1>4, <1>0 DEF Deactivate, Finds, Awaits, Needs
<1>5. CASE RecordHeartbeat(r)
  BY <1>1, <1>5, <1>0 DEF RecordHeartbeat, At, Finds, Awaits, Needs
<1>6. CASE RenameAgent(r)
  <2> DEFINE i == req[r].op.agent
             name == AgentName[req[r].op.name]
  <2>1. req[r].op.kind = "rename_agent" /\ ~(Exists(i) /\ Named(name) \ {i} = {})
    BY <1>1, <1>6 DEF RenameAgent, At
  <2>2. CASE ~Exists(i)
    BY <1>0, <2>1, <2>2 DEF Finds, Awaits, Needs
  <2>3. CASE \E j \in Ids : Exists(j) /\ agents[j].name = name
    <3>1. name = Demo \/ \E s \in Requests : Gave(s, name)
      BY <2>3 DEF NamesGiven
    <3>2. ~Gave(r, name)
      BY <1>0 DEF Gave
    <3> QED BY <1>0, <2>1, <3>1, <3>2 DEF Clashes
  <2> QED BY <2>1, <2>2, <2>3 DEF Named
<1>7. CASE DeactivateUser(r) \/ DeleteAgent(r)
  BY <1>1, <1>7 DEF DeactivateUser, DeleteAgent
<1>8. CASE FindUser(r) \/ GetUser(r) \/ FindAgent(r) \/ GetAgent(r) \/ FindSilent(r)
  BY <1>0, <1>8 DEF FindUser, GetUser, FindAgent, GetAgent, FindSilent, At
<1> QED BY <1>0, <1>2, <1>3, <1>4, <1>5, <1>6, <1>7, <1>8 DEF Handles

\* A handler that commits leaves the row there that it reads once more.
LEMMA CommitFinds ==
    ASSUME TypeOK, AdminInv, NEW r \in Requests, Handles(r), req'[r].stage = "committed"
    PROVE  Finds(r)' \/ (~Finds(r) /\ req'[r].dirty = req[r].dirty)
<1>0. GoesOn(r) /\ req'[r].op = req[r].op /\ req[r].stage = "loaded"
  BY HandlesGoesOn DEF GoesOn, AdminInv
<1>1. CASE InsertAgent(r)
  <2>1. /\ CommitNew(r, nextId) /\ agents'[nextId] # NoAgent /\ req[r].op.kind = "create_agent"
    <3>1. ~Answer(r, "error")
      BY <1>0, AnswerGoesOn DEF GoesOn
    <3>2. CommitNew(r, nextId) /\ agents' = [agents EXCEPT ![nextId] =
                                      NewAgent(AgentName[req[r].op.name], <<"spy", nextId>>)]
          /\ nextId \in Ids
      BY <1>1, <3>1 DEF InsertAgent
    <3>3. NewAgent(AgentName[req[r].op.name], <<"spy", nextId>>).active /\ ~NoAgent.active
      BY DEF NewAgent, NoAgent
    <3>4. agents'[nextId] # NoAgent
      BY <3>2, <3>3 DEF TypeOK
    <3> QED BY <1>1, <3>2, <3>4 DEF InsertAgent, At
  <2>2. req'[r].dirty = {nextId}
    BY <1>0, <2>1, CommitNewGoesOn DEF GoesOn
  <2> QED BY <1>0, <2>1, <2>2 DEF Finds, At, Awaits, Needs, Exists
<1>2. CASE RenameAgent(r)
  <2>1. req[r].op.kind = "rename_agent" /\ req[r].op.agent \in Ids
    BY <1>2, RequestFields, OpFields DEF RenameAgent, At
  <2>2. req'[r].dirty = req[r].dirty
    BY <1>0, <2>1, HandlesGoesOn DEF AdminInv
  <2>3. CASE Finds(r)
    <3>1. Exists(req[r].op.agent)
      BY <1>0, <2>1, <2>3 DEF Finds, Awaits, Needs
    <3>2. agents'[req[r].op.agent] # NoAgent
      BY <1>2, <2>1, <3>1, RenameWritten DEF Exists
    <3> QED BY <1>0, <2>1, <3>2 DEF Finds, At, Awaits, Needs, Exists
  <2> QED BY <2>2, <2>3
<1>3. CASE req[r].op.kind \notin {"create_agent", "rename_agent"}
  <2>1. Awaits(r)' = {}
    BY <1>0, <1>3 DEF Awaits
  <2> QED BY <2>1 DEF Finds, At
<1> QED BY <1>1, <1>2, <1>3, <1>0
        DEF Handles, FindUser, InsertUser, GetUser, DeactivateUser, FindAgent, GetAgent, DeleteAgent, FindSilent,
            Deactivate, RecordHeartbeat, At

\* The names agents have are given still.
LEMMA NamesStayGiven ==
    ASSUME TypeOK, AdminInv, NamesGiven, DeedsStay,
           \A i \in Ids : Exists(i)' =>
               \/ Exists(i) /\ agents'[i].name = agents[i].name
               \/ agents'[i].name = Demo
               \/ \E s \in Requests : \A name : name = agents'[i].name => Gave(s, name)'
    PROVE  NamesGiven'
<1> SUFFICES ASSUME NEW i \in Ids, Exists(i)'
             PROVE  agents'[i].name = Demo \/ \E s \in Requests : Gave(s, agents[i].name)'
  BY DEF NamesGiven
<1>1. PICK name : name = agents'[i].name
  OBVIOUS
<1>2. ASSUME NEW s \in Requests, Gave(s, name)' PROVE Gave(s, agents[i].name)'
  BY <1>1, <1>2 DEF Gave
<1>3. CASE Exists(i) /\ agents'[i].name = agents[i].name
  <2>1. name = Demo \/ \E s \in Requests : Gave(s, name)
    BY <1>1, <1>3 DEF NamesGiven
  <2> QED BY <1>1, <1>2, <2>1, GaveStays
<1> QED BY <1>1, <1>2, <1>3

\* The step of a handler leaves every error excused.
LEMMA HandlerExcuses ==
    ASSUME TypeOK, AdminInv, UserBind, ErrorsExcused, NEW r \in Requests, Handles(r)
    PROVE  ErrorsExcused'
<1>1. DeedsStay /\ GoesOn(r) /\ \A s \in Requests \ {r} : req'[s] = req[s]
  BY HandlesGoesOn, HandlesStays DEF AdminInv
<1>2. NamesGiven'
  <2>1. ASSUME NEW i \in Ids, Exists(i)', ~Exists(i) \/ agents'[i].name # agents[i].name,
               NEW name, name = agents'[i].name
        PROVE  Gave(r, name)'
    BY <2>1, NameAppears
  <2> QED BY <1>1, <2>1, NamesStayGiven DEF ErrorsExcused
<1>3. ASSUME NEW q \in Requests \ {r}
      PROVE  /\ Finds(q)' \/ Excused(q)'
             /\ req'[q].answer = "error" => req'[q].stage = "answered" /\ (Excused(q)' \/ Clashes(q)')
  BY <1>1, LostIsExcused, ExcuseStays, ClashStays DEF ErrorsExcused
<1>4. req'[r].op = req[r].op /\ req'[r].after = req[r].after /\ req[r].answer # "error"
  BY <1>1 DEF GoesOn, Undecided, ErrorsExcused
<1>5. Excused(r) /\ req'[r].dirty = req[r].dirty => Excused(r)'
  BY <1>1, <1>4, ExcuseStays
<1>6. Finds(r)' \/ Excused(r)'
  <2>1. CASE req'[r].stage = "loaded"
    BY <2>1, LoadFinds
  <2>2. CASE req'[r].stage = "committed"
    BY <1>5, <2>2, CommitFinds DEF ErrorsExcused
  <2>3. CASE req'[r].stage = "answered"
    BY <2>3 DEF Finds, At, Awaits
  <2> QED BY <2>1, <2>2, <2>3, HandlesGoesOn DEF AdminInv
<1>7. ASSUME req'[r].answer = "error"
      PROVE  req'[r].stage = "answered" /\ (Excused(r)' \/ Clashes(r)')
  <2>1. req'[r].stage = "answered" /\ req'[r].dirty = req[r].dirty /\ (~Finds(r) \/ Clashes(r))
    BY <1>4, <1>7, ErrorMisses DEF ErrorsExcused
  <2> QED BY <1>1, <1>4, <1>5, <2>1, ClashStays DEF ErrorsExcused
<1> QED BY <1>2, <1>3, <1>6, <1>7 DEF ErrorsExcused

\* A response that misses the row it reads again is excused too.
LEMMA RespondExcuses ==
    ASSUME TypeOK, AdminInv, ErrorsExcused, NEW r \in Requests, Respond(r)
    PROVE  ErrorsExcused'
<1>1. /\ DeedsStay /\ \A s \in Requests : SameDeed(s)
      /\ \A s \in Requests \ {r} : req'[s] = req[s]
      /\ req[r].stage = "committed" /\ req'[r].stage = "answered"
      /\ req'[r].answer = IF \A i \in Refreshed(r) : Exists(i) THEN "ok" ELSE "error"
      /\ UNCHANGED <<users, agents>>
  BY RespondStays, RespondGoesOn DEF DeedsStay, Settled
<1>2. NamesGiven'
  <2>1. \A i \in Ids : Exists(i)' => Exists(i) /\ agents'[i].name = agents[i].name
    BY <1>1 DEF Exists
  <2> QED BY <1>1, <2>1, NamesStayGiven DEF ErrorsExcused
<1>3. \A q \in Requests : Excused(q) => Excused(q)'
  BY <1>1, ExcuseStays DEF SameDeed
<1>4. ASSUME NEW q \in Requests \ {r}
      PROVE  /\ Finds(q)' \/ Excused(q)'
             /\ req'[q].answer = "error" => req'[q].stage = "answered" /\ (Excused(q)' \/ Clashes(q)')
  <2>1. Finds(q) => Finds(q)'
    BY <1>1 DEF Finds, At, Awaits, Needs, TakenName, Exists, Named
  <2>2. Clashes(q) => Clashes(q)'
    BY <1>1, ClashStays
  <2> QED BY <1>1, <1>3, <2>1, <2>2 DEF ErrorsExcused
<1>5. Finds(r)'
  BY <1>1 DEF Finds, At, Awaits
<1>6. ASSUME req'[r].answer = "error" PROVE Excused(r)'
  <2>1. ~\A i \in Refreshed(r) : Exists(i)
    BY <1>1, <1>6
  <2>2. Refreshed(r) \subseteq Awaits(r)
    BY <1>1 DEF Refreshed, Awaits, Needs
  <2>3. ~Finds(r)
    BY <2>1, <2>2 DEF Finds
  <2> QED BY <1>3, <2>3 DEF ErrorsExcused
<1> QED BY <1>1, <1>2, <1>4, <1>5, <1>6 DEF ErrorsExcused

\* A request begins: a heartbeat gets in for an agent that is there.
LEMMA BeginningExcuses ==
    ASSUME TypeOK, AdminInv, ErrorsExcused, NEW r \in Requests, NEW op, NEW u, NEW stage, NEW a, NEW ids,
           Began(r, op, u, stage, a, ids), UNCHANGED rows, a # "error", stage # "committed",
           stage = "loaded" => op.kind = "heartbeat" /\ \A i \in ids : Exists(i)
    PROVE  ErrorsExcused'
<1>1. /\ DeedsStay /\ UNCHANGED <<users, agents>>
      /\ req'[r].op = op /\ req'[r].stage = stage /\ req'[r].answer = a /\ req'[r].dirty = ids
      /\ \A s \in Requests \ {r} : req'[s] = req[s]
  BY BeganFields, BeganStays DEF rows
<1>2. NamesGiven'
  <2>1. \A i \in Ids : Exists(i)' => Exists(i) /\ agents'[i].name = agents[i].name
    BY <1>1 DEF Exists
  <2> QED BY <1>1, <2>1, NamesStayGiven DEF ErrorsExcused
<1>3. ASSUME NEW q \in Requests \ {r}
      PROVE  /\ Finds(q)' \/ Excused(q)'
             /\ req'[q].answer = "error" => req'[q].stage = "answered" /\ (Excused(q)' \/ Clashes(q)')
  <2>1. Finds(q) => Finds(q)'
    BY <1>1 DEF Finds, At, Awaits, Needs, TakenName, Exists, Named
  <2> QED BY <1>1, <2>1, ExcuseStays, ClashStays DEF ErrorsExcused
<1>4. Finds(r)'
  BY <1>1 DEF Finds, At, Awaits, Needs, Exists
<1> QED BY <1>1, <1>2, <1>3, <1>4 DEF ErrorsExcused

\* A start: nobody relies on anything any more.
LEMMA RestartExcuses ==
    ASSUME TypeOK, AdminInv, ErrorsExcused, NEW k \in EnvKeys, Restart(k)
    PROVE  ErrorsExcused'
<1>1. DeedsStay
  BY RestartStays
<1>2. \A s \in Requests : /\ req'[s].stage \in {"unsent", "answered"}
                          /\ req'[s].op = req[s].op
                          /\ req'[s].answer = "error" => req'[s] = req[s]
  BY RestartGoesOn, RequestFields DEF GoesOn, SameDeed, InFlight, Stages
<1>3. NamesGiven'
  <2> DEFINE key == <<"env", k>>
  <2>1. CASE UNCHANGED agents
    BY <1>1, <2>1, NamesStayGiven DEF ErrorsExcused, Exists
  <2>2. CASE agents' = [i \in Ids |-> IF i \in Named(Demo)
                                      THEN [agents[i] EXCEPT !.key = key, !.active = TRUE]
                                      ELSE agents[i]]
    <3>1. \A i \in Ids : Exists(i)' => Exists(i) /\ agents'[i].name = agents[i].name
      BY <2>2 DEF Exists, Named, TypeOK, AgentRow
    <3> QED BY <1>1, <3>1, NamesStayGiven DEF ErrorsExcused
  <2>3. CASE agents' = [agents EXCEPT ![nextId] = NewAgent(Demo, key)]
    <3>1. \A i \in Ids : agents'[i] = agents[i] \/ agents'[i].name = Demo
      BY <2>3 DEF TypeOK, NewAgent
    <3> QED BY <1>1, <3>1, NamesStayGiven DEF ErrorsExcused, Exists
  <2> QED BY <2>1, <2>2, <2>3 DEF Restart, Seed
<1> QED BY <1>1, <1>2, <1>3, ExcuseStays, ClashStays DEF ErrorsExcused, Finds, At, Awaits

LEMMA ErrorsExcusedStep == TypeOK /\ AdminInv /\ UserBind /\ ErrorsExcused /\ [Next]_vars => ErrorsExcused'
<1> SUFFICES ASSUME TypeOK, AdminInv, UserBind, ErrorsExcused, [Next]_vars PROVE ErrorsExcused'
  OBVIOUS
<1>1. ASSUME NEW r \in Requests, Handles(r) \/ Respond(r) PROVE ErrorsExcused'
  BY <1>1, HandlerExcuses, RespondExcuses
<1>2. ASSUME NEW r \in Requests, NEW u \in UserNames, NEW op \in AdminOps, Arrive(r, u, op)
      PROVE  ErrorsExcused'
  <2> DEFINE verdict == RequireAdmin(u)
             stage == IF verdict = "none" THEN "open" ELSE "answered"
  <2>1. Began(r, op, u, stage, verdict, {}) /\ UNCHANGED rows /\ verdict # "error" /\ stage \in {"open", "answered"}
    BY <1>2 DEF Arrive, RequireAdmin
  <2> HIDE DEF verdict, stage
  <2> QED BY <2>1, BeginningExcuses
<1>3. ASSUME NEW r \in Requests, NEW op \in LoginOps, Login(r, op) PROVE ErrorsExcused'
  <2> DEFINE a == IF users[op.user].active THEN "ok" ELSE "unauthorized"
  <2>1. Began(r, op, op.user, "answered", a, {}) /\ UNCHANGED rows /\ a # "error"
    BY <1>3 DEF Login
  <2> HIDE DEF a
  <2> QED BY <2>1, BeginningExcuses
<1>4. ASSUME NEW r \in Requests, NEW op \in HeartbeatOps, Heartbeat(r, op) PROVE ErrorsExcused'
  <2>1. UNCHANGED rows /\ op.kind = "heartbeat"
    BY <1>4, KindsDiffer DEF Heartbeat
  <2>2. CASE Began(r, op, Root, "answered", "unauthorized", {})
    BY <2>1, <2>2, BeginningExcuses
  <2>3. ASSUME NEW i \in Owners(op.key), Began(r, op, Root, "loaded", "none", {i}) PROVE ErrorsExcused'
    <3>1. \A j \in {i} : Exists(j)
      BY DEF Owners
    <3> QED BY <2>1, <2>3, <3>1, BeginningExcuses
  <2>4. ASSUME NEW i, Began(r, op, Root, "answered", "forbidden", {i}) PROVE ErrorsExcused'
    BY <2>1, <2>4, BeginningExcuses
  <2> QED BY <1>4, <2>2, <2>3, <2>4 DEF Heartbeat
<1>5. ASSUME NEW k \in EnvKeys, Restart(k) PROVE ErrorsExcused'
  BY <1>5, RestartExcuses
<1>6. CASE Tick \/ UNCHANGED vars
  <2>1. UNCHANGED <<users, agents, req>>
    BY <1>6 DEF Tick, rows, vars
  <2>2. DeedsStay /\ \A i \in Ids : Exists(i)' => Exists(i) /\ agents'[i].name = agents[i].name
    BY <2>1, SameIsSame DEF DeedsStay, Settled, Exists
  <2>3. NamesGiven'
    BY <2>2, NamesStayGiven DEF ErrorsExcused
  <2>4. \A q \in Requests : /\ Excused(q) => Excused(q)'
                            /\ Clashes(q) => Clashes(q)'
                            /\ Finds(q) => Finds(q)'
    <3>1. \A q \in Requests : Finds(q) => Finds(q)'
      BY <2>1 DEF Finds, At, Awaits, Needs, TakenName, Exists, Named
    <3> QED BY <2>1, <2>2, <3>1, ExcuseStays, ClashStays
  <2> QED BY <2>1, <2>3, <2>4 DEF ErrorsExcused
<1> QED BY <1>1, <1>2, <1>3, <1>4, <1>5, <1>6, StepIsHandled DEF Next

LEMMA ErrorsExcusedInit == Init => ErrorsExcused
<1> SUFFICES ASSUME Init PROVE ErrorsExcused
  OBVIOUS
<1>1. \A r \in Requests : req[r].stage = "unsent" /\ req[r].answer = "none"
  BY DEF Init, NotSent
<1>2. NamesGiven
  BY DEF Init, NamesGiven, Exists, NewAgent
<1> QED BY <1>1, <1>2 DEF ErrorsExcused, Finds, At, Awaits

\* On the first start of the server: who is out of service was taken out by a
\* commit, and who was created has the key that was handed out.
OutOfService(i) == i < nextId /\ ~agents[i].active
HasItsKey(c, i) == i < nextId /\ (restarts = 0 /\ Exists(i) => agents[i].key = <<"spy", i>>)

\* The heartbeats that were refused because of agent i.
RefusedFor(r, i) ==
    /\ req[r].op.kind = "heartbeat" /\ req[r].run = 0
    /\ \/ req[r].answer = "forbidden" /\ i \in req[r].dirty
       \/ /\ req[r].answer = "unauthorized" /\ req[r].op.key = <<"spy", i>>
          /\ \E c \in req[r].after : Did(c, "create_agent") /\ i \in req[c].dirty

ServiceEnded ==
    /\ \A r \in Requests : At(r, "loaded", "delete_agent") => req[r].dirty = {req[r].op.agent}
    /\ \A r \in Requests : Undecided(r) \/ req[r].stage = "committed" => req[r].answer = "none"
    /\ restarts = 0 => \A i \in Ids : OutOfService(i) => \E s \in Requests : Ended(s, i)
    /\ \A c \in Requests : Did(c, "create_agent") => \A i \in req[c].dirty : HasItsKey(c, i)
    /\ \A r \in Requests, i \in Ids : RefusedFor(r, i) => \E s \in req[r].after : Ended(s, i)

\* An agent that a handler takes out of service is one it answers for.
LEMMA HandlerEnds ==
    ASSUME TypeOK, AdminInv, ServiceEnded, NEW r \in Requests, Handles(r), NEW i \in Ids,
           agents[i].active, ~agents'[i].active
    PROVE  Ended(r, i)'
<1>0. req[r].op \in Operations
  BY RequestFields
<1>1. CASE DeleteAgent(r)
  <2>1. /\ Undecided(r) /\ Commit(r) /\ req[r].dirty = {req[r].op.agent} /\ req[r].op.kind = "delete_agent"
        /\ agents' = [agents EXCEPT ![req[r].op.agent] = NoAgent]
    BY <1>1 DEF DeleteAgent, At, Undecided, ServiceEnded
  <2>2. i = req[r].op.agent
    <3> DEFINE j == req[r].op.agent
    <3> HIDE DEF j
    <3> SUFFICES i = j
      BY DEF j
    <3>1. agents' = [agents EXCEPT ![j] = NoAgent]
      BY <2>1 DEF j
    <3> QED BY <3>1 DEF TypeOK
  <2> QED BY <2>1, <2>2, CommitGoesOn DEF Ended, GoesOn
<1>2. CASE Deactivate(r)
  <2>1. Undecided(r) /\ req[r].op.kind \in {"deactivate_agent", "sweep"}
    BY <1>2 DEF Deactivate, Undecided
  <2>2. i \in req[r].dirty /\ Commit(r)
    BY <1>2 DEF Deactivate
  <2> QED BY <2>1, <2>2, CommitGoesOn DEF Ended, GoesOn
<1>3. CASE RecordHeartbeat(r)
  <2> DEFINE t == req[r].now
  <2> PICK j \in req[r].dirty :
          IF Exists(j) THEN agents' = [agents EXCEPT ![j].seen = t] ELSE UNCHANGED agents
    BY <1>3 DEF RecordHeartbeat
  <2> HIDE DEF t
  <2>1. agents'[i] = agents[i] \/ agents'[i] = [agents[i] EXCEPT !.seen = t]
    BY DEF TypeOK
  <2>2. agents[i] \in AgentRow
    BY DEF TypeOK, NoAgent
  <2> QED BY <2>1, <2>2 DEF AgentRow
<1>4. CASE RenameAgent(r)
  <2> DEFINE j == req[r].op.agent
             name == AgentName[req[r].op.name]
  <2>1. agents' = agents \/ agents' = [agents EXCEPT ![j].name = name]
    BY <1>4 DEF RenameAgent
  <2> HIDE DEF j, name
  <2>2. agents'[i] = agents[i] \/ agents'[i] = [agents[i] EXCEPT !.name = name]
    BY <2>1 DEF TypeOK
  <2>3. agents[i] \in AgentRow
    BY DEF TypeOK, NoAgent
  <2> QED BY <2>2, <2>3 DEF AgentRow
<1>5. CASE InsertAgent(r)
  <2> DEFINE name == AgentName[req[r].op.name]
  <2>1. agents' = agents \/ agents' = [agents EXCEPT ![nextId] = NewAgent(name, <<"spy", nextId>>)]
    BY <1>5 DEF InsertAgent
  <2> QED BY <2>1 DEF TypeOK, NewAgent
<1>6. CASE agents' = agents
  BY <1>6
<1> QED
  BY <1>1, <1>2, <1>3, <1>4, <1>5, <1>6
  DEF Handles, FindUser, InsertUser, GetUser, DeactivateUser, FindAgent, GetAgent, FindSilent, rows

\* An agent that a handler inserts is in service, and its answer names it.
LEMMA HandlerCreates ==
    ASSUME TypeOK, AdminInv, NEW r \in Requests, Handles(r)
    PROVE  \/ nextId' = nextId /\ ~Did(r, "create_agent")'
           \/ /\ nextId \in Ids /\ nextId' = nextId + 1 /\ req'[r].dirty = {nextId}
              /\ agents'[nextId].active /\ agents'[nextId].key = <<"spy", nextId>>
<1>0. GoesOn(r) /\ Undecided(r) /\ ~req[r].wrote
  BY HandlesGoesOn DEF GoesOn, Undecided, Settled, AdminInv, WroteSettled
<1>1. CASE InsertAgent(r)
  <2>2. CASE UNCHANGED <<agents, nextId>> /\ Answer(r, "error")
    BY <1>0, <2>2, AnswerGoesOn DEF Did
  <2>3. CASE /\ nextId \in Ids /\ nextId' = nextId + 1 /\ CommitNew(r, nextId)
             /\ agents' = [agents EXCEPT ![nextId] =
                               NewAgent(AgentName[req[r].op.name], <<"spy", nextId>>)]
    BY <1>0, <2>3, CommitNewGoesOn DEF TypeOK, NewAgent
  <2> QED BY <1>1, <2>2, <2>3 DEF InsertAgent
<1>2. CASE FindAgent(r)
  <2>1. nextId' = nextId
    BY <1>2 DEF FindAgent, rows
  <2>2. CASE Answer(r, "conflict")
    BY <1>0, <2>1, <2>2, AnswerGoesOn DEF Did
  <2>3. CASE Load(r, {})
    BY <1>0, <2>1, <2>3, LoadGoesOn DEF Did
  <2> QED BY <1>2, <2>2, <2>3 DEF FindAgent
<1>3. CASE \/ FindUser(r) \/ InsertUser(r) \/ GetUser(r) \/ DeactivateUser(r) \/ GetAgent(r) \/ RenameAgent(r)
           \/ DeleteAgent(r) \/ FindSilent(r) \/ Deactivate(r) \/ RecordHeartbeat(r)
  <2>1. nextId' = nextId /\ req[r].op.kind # "create_agent"
    BY <1>3 DEF FindUser, InsertUser, GetUser, DeactivateUser, GetAgent, RenameAgent, DeleteAgent, FindSilent,
                Deactivate, RecordHeartbeat, At, rows
  <2> QED BY <1>0, <2>1 DEF Did, GoesOn
<1> QED BY <1>1, <1>2, <1>3 DEF Handles

\* A refusal stands, with the reason it had.
LEMMA RefusalStays ==
    ASSUME TypeOK, AdminInv, ServiceEnded, DeedsStay, NEW q \in Requests, NEW i \in Ids,
           \/ req'[q] = req[q]
           \/ req'[q].op.kind = "heartbeat" => req'[q].answer \notin {"forbidden", "unauthorized"},
           RefusedFor(q, i)'
    PROVE  (\E s \in req[q].after : Ended(s, i))'
<1>1. req'[q] = req[q]
  BY DEF RefusedFor
<1>2. \A s \in req[q].after : s \in Requests /\ SameDeed(s)
  BY RequestFields DEF AdminInv, AfterSettled, DeedsStay
<1>3. RefusedFor(q, i)
  BY <1>1, <1>2 DEF RefusedFor, Did, SameDeed
<1>4. PICK s \in req[q].after : Ended(s, i)
  BY <1>3 DEF ServiceEnded
<1>5. Ended(s, i)'
  BY <1>2, <1>4 DEF Ended, SameDeed
<1> QED BY <1>1, <1>4, <1>5

\* What ended the service of an agent did so for good.
LEMMA EndedStays ==
    ASSUME TypeOK, AdminInv, DeedsStay, NEW s \in Requests, NEW i \in Ids, Ended(s, i)
    PROVE  s \in Settled /\ Ended(s, i)'
<1>1. s \in Settled /\ SameDeed(s)
  BY DEF Ended, AdminInv, WroteSettled, DeedsStay
<1> QED BY <1>1 DEF Ended, SameDeed

\* The step of a handler.
LEMMA HandlerKeepsEnded ==
    ASSUME TypeOK, AdminInv, RegistryInv, ServiceEnded, NEW r \in Requests, Handles(r)
    PROVE  ServiceEnded'
<1>1. GoesOn(r) /\ \A s \in Requests \ {r} : req'[s] = req[s]
  BY HandlesGoesOn DEF AdminInv
<1>2. DeedsStay
  BY HandlesStays DEF AdminInv
<1>3. \A s \in Requests, i \in Ids : Ended(s, i) => Ended(s, i)'
  BY <1>2, EndedStays
<1>4. nextId \in Nat /\ Ids \subseteq Nat /\ req[r].op \in Operations
  BY RequestFields, SMT DEF TypeOK, Ids
<1>5. restarts' = restarts
  BY DEF Handles, FindUser, InsertUser, GetUser, DeactivateUser, FindAgent, InsertAgent, GetAgent, RenameAgent,
         DeleteAgent, FindSilent, Deactivate, RecordHeartbeat
<1>6. ASSUME At(r, "loaded", "delete_agent")' PROVE req'[r].dirty = {req'[r].op.agent}
  <2>1. req[r].op.kind = "delete_agent" /\ req[r].stage = "open" /\ req'[r].op = req[r].op
    BY <1>1, <1>6, HandlesGoesOn DEF At, GoesOn, AdminInv
  <2>2. GetAgent(r) /\ Undecided(r)
    BY <2>1 DEF Handles, FindUser, InsertUser, GetUser, DeactivateUser, FindAgent, InsertAgent, RenameAgent,
                DeleteAgent, FindSilent, Deactivate, RecordHeartbeat, At, Undecided
  <2>3. ~Answer(r, "not_found")
    BY <1>6, <2>2, AnswerGoesOn DEF At
  <2>4. Load(r, {req[r].op.agent})
    BY <2>1, <2>2, <2>3 DEF GetAgent
  <2> QED BY <2>1, <2>2, <2>4, LoadGoesOn
<1>7. ASSUME restarts = 0, NEW i \in Ids, OutOfService(i)' PROVE \E s \in Requests : Ended(s, i)'
  <2>1. i < nextId
    BY <1>4, <1>7, HandlerCreates DEF OutOfService
  <2>2. CASE agents[i].active
    BY <1>7, <2>2, HandlerEnds DEF OutOfService
  <2>3. CASE ~agents[i].active
    BY <1>3, <1>7, <2>1, <2>3 DEF OutOfService, ServiceEnded
  <2> QED BY <2>2, <2>3
<1>8. ASSUME NEW c \in Requests, Did(c, "create_agent")', NEW i \in req'[c].dirty PROVE HasItsKey(c, i)'
  <2>1. CASE c = r
    BY <1>4, <1>8, <2>1, HandlerCreates DEF HasItsKey
  <2>2. CASE c # r
    <3>1. HasItsKey(c, i) /\ i \in Ids
      BY <1>1, <1>8, <2>2, RequestFields DEF Did, ServiceEnded
    <3>2. i < nextId' /\ i # nextId
      <4>1. i \in Nat /\ i < nextId
        BY <1>4, <3>1 DEF HasItsKey
      <4>2. nextId' = nextId \/ nextId' = nextId + 1
        BY HandlerCreates
      <4> QED BY <1>4, <4>1, <4>2, SMT
    <3>3. Exists(i)' => Exists(i) /\ agents'[i].key = agents[i].key
      BY <3>1, <3>2, HandlerRows DEF Step, Handles, SameKeys, NewRow, Exists
    <3> QED BY <1>5, <3>1, <3>2, <3>3 DEF HasItsKey
  <2> QED BY <2>1, <2>2
<1>9. ASSUME NEW q \in Requests, NEW i \in Ids, RefusedFor(q, i)'
      PROVE  (\E s \in req[q].after : Ended(s, i))'
  <2>1. req[r].op.kind = "heartbeat" => req'[r].answer \notin {"forbidden", "unauthorized"}
    <3>1. req[r].op.kind = "heartbeat" => RecordHeartbeat(r) /\ Undecided(r)
      BY DEF Handles, FindUser, InsertUser, GetUser, DeactivateUser, FindAgent, InsertAgent, GetAgent,
             RenameAgent, DeleteAgent, FindSilent, Deactivate, RecordHeartbeat, At, Undecided
    <3>2. RecordHeartbeat(r) => Commit(r) \/ Answer(r, "error")
      BY DEF RecordHeartbeat
    <3>3. Undecided(r) => req[r].answer = "none"
      BY DEF ServiceEnded
    <3> QED BY <3>1, <3>2, <3>3, AnswerGoesOn, CommitGoesOn
  <2> QED BY <1>1, <1>2, <1>9, <2>1, RefusalStays DEF GoesOn
<1>10. \A q \in Requests : At(q, "loaded", "delete_agent")' => req'[q].dirty = {req'[q].op.agent}
  BY <1>1, <1>6 DEF ServiceEnded, At
<1>11. \A q \in Requests : Undecided(q)' \/ req'[q].stage = "committed" => req'[q].answer = "none"
  BY <1>1, HandlesGoesOn DEF ServiceEnded, AdminInv, Undecided, GoesOn
<1> QED BY <1>5, <1>7, <1>8, <1>9, <1>10, <1>11 DEF ServiceEnded

\* A response.
LEMMA RespondKeepsEnded ==
    ASSUME TypeOK, AdminInv, RegistryInv, ServiceEnded, NEW r \in Requests, Respond(r)
    PROVE  ServiceEnded'
<1>1. /\ DeedsStay /\ \A s \in Requests : SameDeed(s)
      /\ \A s \in Requests \ {r} : req'[s] = req[s]
      /\ req'[r].stage = "answered" /\ req'[r].answer \in {"ok", "error"}
      /\ UNCHANGED <<agents, nextId, restarts>>
  BY RespondStays, RespondGoesOn DEF DeedsStay, Settled
<1>2. ASSUME NEW q \in Requests, NEW i \in Ids, RefusedFor(q, i)'
      PROVE  (\E s \in req[q].after : Ended(s, i))'
  BY <1>1, <1>2, RefusalStays
<1>3. \A i \in Ids : OutOfService(i)' <=> OutOfService(i)
  BY <1>1 DEF OutOfService
<1>4. ASSUME NEW c \in Requests, Did(c, "create_agent")', NEW i \in req'[c].dirty PROVE HasItsKey(c, i)'
  <2>1. Did(c, "create_agent") /\ req'[c].dirty = req[c].dirty
    BY <1>1, <1>4 DEF Did, SameDeed
  <2> QED BY <1>1, <1>4, <2>1 DEF ServiceEnded, HasItsKey, Exists
<1> QED BY <1>1, <1>2, <1>3, <1>4, EndedStays DEF ServiceEnded, At, Undecided, SameDeed

\* A request begins: a heartbeat that is refused finds its agent out of service, or
\* its key gone.
LEMMA BeginningKeepsEnded ==
    ASSUME TypeOK, AdminInv, RegistryInv, ServiceEnded, NEW r \in Requests, NEW op, NEW u, NEW stage, NEW a,
           NEW ids, Began(r, op, u, stage, a, ids), UNCHANGED <<rows, restarts>>,
           stage # "committed", stage \in {"open", "loaded"} => a = "none",
           stage = "loaded" => op.kind = "heartbeat",
           op.kind = "heartbeat" /\ a = "forbidden" => \A i \in ids : Exists(i) /\ ~agents[i].active,
           op.kind = "heartbeat" /\ a = "unauthorized" => Owners(op.key) = {}
    PROVE  ServiceEnded'
<1>1. /\ req[r].stage = "unsent"
      /\ req'[r].op = op /\ req'[r].stage = stage /\ req'[r].answer = a /\ req'[r].dirty = ids
      /\ req'[r].after = Settled /\ req'[r].run = restarts /\ ~req'[r].wrote
      /\ \A s \in Requests \ {r} : req'[s] = req[s]
  BY BeganFields
<1>2. DeedsStay
  BY BeganStays
<1>3. \A s \in Requests, i \in Ids : Ended(s, i) => s \in Settled /\ Ended(s, i)'
  BY <1>2, EndedStays
<1>4. UNCHANGED <<agents, nextId, restarts>> /\ nextId \in Nat /\ Ids \subseteq Nat
  BY SMT DEF rows, TypeOK, Ids
<1>5. \A q \in Requests : At(q, "loaded", "delete_agent")' => req'[q].dirty = {req'[q].op.agent}
  BY <1>1 DEF At, ServiceEnded
<1>6. restarts = 0 => \A i \in Ids : OutOfService(i) => \E s \in Requests : Ended(s, i)'
  BY <1>3 DEF ServiceEnded
<1>7. ASSUME NEW c \in Requests, Did(c, "create_agent")', NEW i \in req'[c].dirty PROVE HasItsKey(c, i)'
  BY <1>1, <1>4, <1>7 DEF Did, ServiceEnded, HasItsKey, Exists
<1>8. ASSUME NEW q \in Requests, NEW i \in Ids, RefusedFor(q, i)'
      PROVE  (\E s \in req[q].after : Ended(s, i))'
  <2>1. CASE q # r
    BY <1>1, <1>2, <1>8, <2>1, RefusalStays
  <2>2. CASE q = r
    <3>1. op.kind = "heartbeat" /\ restarts = 0
      BY <1>1, <1>8, <2>2 DEF RefusedFor
    <3>2. OutOfService(i)
      <4>1. CASE a = "forbidden" /\ i \in ids
        BY <1>4, <3>1, <4>1 DEF OutOfService, RegistryInv, Fresh, Exists
      <4>2. CASE a = "unauthorized" /\ op.key = <<"spy", i>>
                 /\ \E c \in Settled : Did(c, "create_agent")' /\ i \in req'[c].dirty
        <5>1. PICK c \in Settled : Did(c, "create_agent")' /\ i \in req'[c].dirty
          BY <4>2
        <5>2. HasItsKey(c, i)
          BY <1>2, <5>1 DEF Settled, Did, ServiceEnded, DeedsStay, SameDeed
        <5>3. ~Exists(i)
          BY <3>1, <4>2, <5>2 DEF HasItsKey, Owners
        <5> QED BY <5>2, <5>3 DEF HasItsKey, OutOfService, Exists, NoAgent
      <4> QED BY <1>1, <1>8, <2>2, <4>1, <4>2 DEF RefusedFor
    <3>3. PICK s \in Requests : Ended(s, i)
      BY <3>1, <3>2 DEF ServiceEnded
    <3> QED BY <1>1, <1>3, <2>2, <3>3
  <2> QED BY <2>1, <2>2
<1>9. \A i \in Ids : OutOfService(i)' <=> OutOfService(i)
  BY <1>4 DEF OutOfService
<1>10. \A q \in Requests : Undecided(q)' \/ req'[q].stage = "committed" => req'[q].answer = "none"
  BY <1>1 DEF ServiceEnded, Undecided
<1> QED BY <1>4, <1>5, <1>6, <1>7, <1>8, <1>9, <1>10 DEF ServiceEnded

LEMMA ServiceEndedStep == TypeOK /\ AdminInv /\ RegistryInv /\ ServiceEnded /\ [Next]_vars => ServiceEnded'
<1> SUFFICES ASSUME TypeOK, AdminInv, RegistryInv, ServiceEnded, [Next]_vars PROVE ServiceEnded'
  OBVIOUS
<1>1. ASSUME NEW r \in Requests, Handles(r) \/ Respond(r) PROVE ServiceEnded'
  BY <1>1, HandlerKeepsEnded, RespondKeepsEnded
<1>2. ASSUME NEW r \in Requests, NEW u \in UserNames, NEW op \in AdminOps, Arrive(r, u, op)
      PROVE  ServiceEnded'
  <2> DEFINE verdict == RequireAdmin(u)
             stage == IF verdict = "none" THEN "open" ELSE "answered"
  <2>1. /\ Began(r, op, u, stage, verdict, {}) /\ UNCHANGED <<rows, restarts>>
        /\ stage \in {"open", "answered"} /\ (stage = "open" => verdict = "none") /\ op.kind # "heartbeat"
    BY <1>2, KindsDiffer DEF Arrive, RequireAdmin
  <2> HIDE DEF verdict, stage
  <2> QED BY <2>1, BeginningKeepsEnded
<1>3. ASSUME NEW r \in Requests, NEW op \in LoginOps, Login(r, op) PROVE ServiceEnded'
  <2> DEFINE a == IF users[op.user].active THEN "ok" ELSE "unauthorized"
  <2>1. Began(r, op, op.user, "answered", a, {}) /\ UNCHANGED <<rows, restarts>> /\ op.kind = "login"
    BY <1>3, KindsDiffer DEF Login
  <2> HIDE DEF a
  <2> QED BY <2>1, BeginningKeepsEnded
<1>4. ASSUME NEW r \in Requests, NEW op \in HeartbeatOps, Heartbeat(r, op) PROVE ServiceEnded'
  <2>1. UNCHANGED <<rows, restarts>> /\ op.kind = "heartbeat"
    BY <1>4, KindsDiffer DEF Heartbeat
  <2>2. CASE Owners(op.key) = {} /\ Began(r, op, Root, "answered", "unauthorized", {})
    BY <2>1, <2>2, BeginningKeepsEnded
  <2>3. ASSUME NEW i, Began(r, op, Root, "loaded", "none", {i}) PROVE ServiceEnded'
    BY <2>1, <2>3, BeginningKeepsEnded
  <2>4. ASSUME NEW i \in Owners(op.key), ~agents[i].active, Began(r, op, Root, "answered", "forbidden", {i})
        PROVE  ServiceEnded'
    <3>1. \A j \in {i} : Exists(j) /\ ~agents[j].active
      BY <2>4 DEF Owners
    <3> QED BY <2>1, <2>4, <3>1, BeginningKeepsEnded
  <2> QED BY <1>4, <2>2, <2>3, <2>4 DEF Heartbeat
<1>5. ASSUME NEW k \in EnvKeys, Restart(k) PROVE ServiceEnded'
  <2>1. restarts' # 0 /\ nextId \in Nat /\ (nextId' = nextId \/ nextId' = nextId + 1) /\ Ids \subseteq Nat
    <3>1. /\ restarts \in 0..MaxRestarts /\ restarts' = restarts + 1
          /\ nextId \in 1..(MaxAgents + 1) /\ (nextId' = nextId \/ nextId' = nextId + 1)
      BY <1>5 DEF Restart, Seed, TypeOK
    <3> QED BY <3>1, AdminAssumption, SMT DEF Ids
  <2>2. DeedsStay
    BY <1>5, RestartStays
  <2>3. ASSUME NEW q \in Requests, NEW i \in Ids, RefusedFor(q, i)'
        PROVE  (\E s \in req[q].after : Ended(s, i))'
    BY <1>5, <2>2, <2>3, RestartGoesOn, RefusalStays
  <2>4. ASSUME NEW c \in Requests, Did(c, "create_agent")', NEW i \in req'[c].dirty PROVE HasItsKey(c, i)'
    <3>1. Did(c, "create_agent") /\ req'[c].dirty = req[c].dirty
      BY <1>5, <2>4, RestartGoesOn DEF Did, GoesOn, SameDeed
    <3>2. i < nextId /\ i \in Nat
      BY <2>1, <2>4, <3>1, RequestFields DEF ServiceEnded, HasItsKey
    <3> QED BY <2>1, <3>2 DEF HasItsKey
  <2>5. \A q \in Requests : req'[q].stage \in {"unsent", "answered"}
    BY <1>5, RestartGoesOn, RequestFields DEF GoesOn, SameDeed, InFlight, Stages
  <2> QED BY <2>1, <2>3, <2>4, <2>5 DEF ServiceEnded, At, Undecided
<1>6. CASE Tick \/ UNCHANGED vars
  <2>1. UNCHANGED <<agents, nextId, req, restarts>>
    BY <1>6 DEF Tick, rows, vars
  <2> QED BY <2>1 DEF ServiceEnded, At, Undecided, OutOfService, Ended, Did, HasItsKey, Exists, RefusedFor
<1> QED BY <1>1, <1>2, <1>3, <1>4, <1>5, <1>6, StepIsHandled DEF Next

LEMMA ServiceEndedInit == Init => ServiceEnded
<1> SUFFICES ASSUME Init PROVE ServiceEnded
  OBVIOUS
<1>1. \A r \in Requests : req[r].stage = "unsent" /\ req[r].answer = "none" /\ ~req[r].wrote
  BY DEF Init, NotSent
<1>2. \A i \in Ids : ~OutOfService(i)
  <2>1. nextId = 2 /\ 1 \in Ids /\ Ids \subseteq Nat /\ \A i \in Ids : i >= 1
    BY AdminAssumption, SMT DEF Init, Ids
  <2>2. agents[1].active
    BY <2>1 DEF Init, NewAgent
  <2> QED BY <2>1, <2>2 DEF OutOfService
<1> QED BY <1>1, <1>2 DEF ServiceEnded, At, Did, RefusedFor

\* Every refusal of a heartbeat, and every 500, has its reason.
THEOREM RefusalsAlwaysExplained == Spec => []RefusalsExplained
<1>1. ServiceEnded /\ ErrorsExcused => RefusalsExplained
  BY DEF ServiceEnded, RefusedFor, ErrorsExcused, Excused, Clashes, RefusalsExplained
<1> QED BY <1>1, InitTyped, NextTyped, AdminInit, AdminStep, RegistryInit, RegistryStep, UserBindInit,
           UserBindStep, ErrorsExcusedInit, ErrorsExcusedStep, ServiceEndedInit, ServiceEndedStep, PTL DEF Spec

-----------------------------------------------------------------------------
(* SweepSparesLive: an agent that a sweep is about to write was silent when *)
(* it looked, unless a heartbeat came between.                              *)

HeardWhile(r, i) == \E h \in Requests \ req[r].after : Did(h, "heartbeat") /\ i \in req[h].dirty

WasSilent(r, i) ==
    \/ agents[i].seen = Never
    \/ req[r].now - agents[i].seen > Timeout
    \/ HeardWhile(r, i)

SweepsFindSilent ==
    \A r \in Requests : At(r, "loaded", "sweep") => \A i \in req[r].dirty : WasSilent(r, i)

\* A handler leaves the time of the last heartbeat, unless it records one.
LEMMA HandlerHears ==
    ASSUME TypeOK, AdminInv, NEW r \in Requests, Handles(r), NEW i \in Ids
    PROVE  \/ agents'[i].seen \in {agents[i].seen, Never}
           \/ Did(r, "heartbeat")' /\ i \in req'[r].dirty
<1>0. NoAgent.seen = Never /\ req[r].op \in Operations
      /\ (agents[i] # NoAgent => agents[i] \in AgentRow)
  BY RequestFields DEF NoAgent, TypeOK
<1>1. CASE DeleteAgent(r)
  <2>1. agents'[i] = agents[i] \/ agents'[i] = NoAgent
    BY <1>1 DEF DeleteAgent, TypeOK
  <2> QED BY <1>0, <2>1
<1>2. CASE Deactivate(r)
  <2>1. agents'[i] = agents[i] \/ (Exists(i) /\ agents'[i] = [agents[i] EXCEPT !.active = FALSE])
    BY <1>2 DEF Deactivate
  <2> QED BY <1>0, <2>1 DEF AgentRow, Exists
<1>3. CASE RecordHeartbeat(r)
  <2> DEFINE t == req[r].now
  <2> PICK j \in req[r].dirty :
          IF Exists(j) THEN agents' = [agents EXCEPT ![j].seen = t] /\ Commit(r) ELSE UNCHANGED agents
    BY <1>3 DEF RecordHeartbeat
  <2> HIDE DEF t
  <2>1. agents'[i] = agents[i] \/ (i = j /\ Commit(r))
    BY DEF TypeOK
  <2>2. Undecided(r) /\ req[r].op.kind = "heartbeat"
    BY <1>3 DEF RecordHeartbeat, At, Undecided
  <2> QED BY <2>1, <2>2, CommitGoesOn DEF Did, GoesOn
<1>4. CASE RenameAgent(r)
  <2> DEFINE j == req[r].op.agent
             name == AgentName[req[r].op.name]
  <2>1. agents' = agents \/ (Exists(j) /\ agents' = [agents EXCEPT ![j].name = name])
    BY <1>4 DEF RenameAgent
  <2> HIDE DEF j, name
  <2>2. agents'[i] = agents[i] \/ (Exists(i) /\ agents'[i] = [agents[i] EXCEPT !.name = name])
    BY <2>1 DEF TypeOK
  <2> QED BY <1>0, <2>2 DEF AgentRow, Exists
<1>5. CASE InsertAgent(r)
  <2> DEFINE name == AgentName[req[r].op.name]
  <2>1. agents' = agents \/ agents' = [agents EXCEPT ![nextId] = NewAgent(name, <<"spy", nextId>>)]
    BY <1>5 DEF InsertAgent
  <2> QED BY <2>1 DEF TypeOK, NewAgent
<1>6. CASE agents' = agents
  BY <1>6
<1> QED
  BY <1>1, <1>2, <1>3, <1>4, <1>5, <1>6
  DEF Handles, FindUser, InsertUser, GetUser, DeactivateUser, FindAgent, GetAgent, FindSilent, rows

\* Heartbeats that a request does not come after stay so for good.
LEMMA HeardStays ==
    ASSUME TypeOK, AdminInv, DeedsStay, NEW r \in Requests, NEW i, HeardWhile(r, i), req'[r].after = req[r].after
    PROVE  HeardWhile(r, i)'
<1>1. PICK h \in Requests \ req[r].after : Did(h, "heartbeat") /\ i \in req[h].dirty
  BY DEF HeardWhile
<1>2. SameDeed(h)
  BY <1>1 DEF Did, AdminInv, WroteSettled, DeedsStay
<1> QED BY <1>1, <1>2 DEF HeardWhile, Did, SameDeed

LEMMA HandlerSpares ==
    ASSUME TypeOK, AdminInv, SweepsFindSilent, NEW r \in Requests, Handles(r)
    PROVE  SweepsFindSilent'
<1>1. GoesOn(r) /\ \A s \in Requests \ {r} : req'[s] = req[s]
  BY HandlesGoesOn DEF AdminInv
<1>2. DeedsStay
  BY HandlesStays DEF AdminInv
<1> SUFFICES ASSUME NEW q \in Requests, At(q, "loaded", "sweep")', NEW i \in req'[q].dirty
             PROVE  WasSilent(q, i)'
  BY DEF SweepsFindSilent
<1>3. CASE q = r
  <2>1. req[r].op.kind = "sweep" /\ req[r].stage = "open"
    BY <1>1, <1>3, HandlesGoesOn DEF At, GoesOn, AdminInv
  <2>2. FindSilent(r) /\ Undecided(r)
    BY <2>1 DEF Handles, FindUser, InsertUser, GetUser, DeactivateUser, FindAgent, InsertAgent, GetAgent,
                RenameAgent, DeleteAgent, Deactivate, RecordHeartbeat, At, Undecided
  <2>3. ~Answer(r, "ok")
    BY <1>3, <2>2, AnswerGoesOn DEF At
  <2> DEFINE silent == { j \in Ids : agents[j].active /\ Silent(j, clock) }
  <2>4. req' = [req EXCEPT ![r].stage = "loaded", ![r].dirty = silent, ![r].now = clock] /\ agents' = agents
    BY <2>2, <2>3 DEF FindSilent, rows
  <2>5. req'[r].dirty = silent /\ req'[r].now = clock
    <3> HIDE DEF silent
    <3> QED BY <2>4 DEF TypeOK, Request
  <2>6. i \in Ids /\ agents[i].active /\ Silent(i, clock)
    BY <1>3, <2>5
  <2>7. agents[i].seen \in {Never} \cup 0..MaxTime /\ clock \in 0..MaxTime
    BY <2>6 DEF TypeOK, AgentRow, NoAgent
  <2>8. agents[i].seen = Never \/ clock - agents[i].seen > Timeout
    BY <2>6, <2>7, AdminAssumption, SMT DEF Silent
  <2> QED BY <1>3, <2>4, <2>5, <2>8 DEF WasSilent
<1>4. CASE q # r
  <2>1. req'[q] = req[q] /\ i \in Ids /\ WasSilent(q, i)
    BY <1>1, <1>4, RequestFields DEF SweepsFindSilent, At
  <2>2. CASE agents'[i].seen \in {agents[i].seen, Never}
    BY <1>2, <2>1, <2>2, HeardStays DEF WasSilent
  <2>3. CASE Did(r, "heartbeat")' /\ i \in req'[r].dirty
    <3>1. r \notin req'[q].after
      BY <1>1, <2>1 DEF GoesOn, Undecided, AdminInv, AfterSettled, Settled
    <3> QED BY <2>3, <3>1 DEF WasSilent, HeardWhile
  <2> QED BY <2>1, <2>2, <2>3, HandlerHears
<1> QED BY <1>3, <1>4

LEMMA SweepsFindSilentStep == TypeOK /\ AdminInv /\ SweepsFindSilent /\ [Next]_vars => SweepsFindSilent'
<1> SUFFICES ASSUME TypeOK, AdminInv, SweepsFindSilent, [Next]_vars PROVE SweepsFindSilent'
  OBVIOUS
<1>1. ASSUME NEW r \in Requests, Handles(r) PROVE SweepsFindSilent'
  BY <1>1, HandlerSpares
<1>8. ASSUME NEW r \in Requests, Respond(r) PROVE SweepsFindSilent'
  <2>1. /\ DeedsStay /\ req'[r].stage = "answered" /\ agents' = agents
        /\ \A s \in Requests \ {r} : req'[s] = req[s]
    BY <1>8, RespondStays, RespondGoesOn DEF DeedsStay, Settled
  <2>2. \A q \in Requests \ {r} : \A i : HeardWhile(q, i) => HeardWhile(q, i)'
    BY <2>1, HeardStays
  <2> QED BY <2>1, <2>2 DEF SweepsFindSilent, At, WasSilent
<1>2. ASSUME NEW r \in Requests, NEW op, NEW u, NEW stage, NEW a, NEW ids, Began(r, op, u, stage, a, ids),
             agents' = agents, stage = "loaded" => op.kind # "sweep"
      PROVE  SweepsFindSilent'
  <2>1. /\ req[r].stage = "unsent" /\ req'[r].op = op /\ req'[r].stage = stage
        /\ \A s \in Requests \ {r} : req'[s] = req[s]
    BY <1>2, BeganFields
  <2>2. DeedsStay
    BY <1>2, BeganStays
  <2>3. \A q \in Requests \ {r} : \A i : HeardWhile(q, i) => HeardWhile(q, i)'
    BY <2>1, <2>2, HeardStays
  <2> QED BY <1>2, <2>1, <2>3 DEF SweepsFindSilent, At, WasSilent
<1>3. ASSUME NEW r \in Requests, NEW u \in UserNames, NEW op \in AdminOps, Arrive(r, u, op)
      PROVE  SweepsFindSilent'
  <2> DEFINE verdict == RequireAdmin(u)
             stage == IF verdict = "none" THEN "open" ELSE "answered"
  <2>1. Began(r, op, u, stage, verdict, {}) /\ agents' = agents /\ stage # "loaded"
    BY <1>3 DEF Arrive, rows
  <2> HIDE DEF verdict, stage
  <2> QED BY <1>2, <2>1
<1>4. ASSUME NEW r \in Requests, NEW op \in LoginOps, Login(r, op) PROVE SweepsFindSilent'
  <2> DEFINE a == IF users[op.user].active THEN "ok" ELSE "unauthorized"
  <2>1. Began(r, op, op.user, "answered", a, {}) /\ agents' = agents
    BY <1>4 DEF Login, rows
  <2> HIDE DEF a
  <2> QED BY <1>2, <2>1
<1>5. ASSUME NEW r \in Requests, NEW op \in HeartbeatOps, Heartbeat(r, op) PROVE SweepsFindSilent'
  <2>1. agents' = agents /\ op.kind = "heartbeat"
    BY <1>5, KindsDiffer DEF Heartbeat, rows
  <2>2. \E stage, a, ids : Began(r, op, Root, stage, a, ids)
    BY <1>5 DEF Heartbeat
  <2> QED BY <1>2, <2>1, <2>2
<1>6. ASSUME NEW k \in EnvKeys, Restart(k) PROVE SweepsFindSilent'
  BY <1>6, RestartGoesOn DEF SweepsFindSilent, At, GoesOn, SameDeed, InFlight
<1>7. CASE Tick \/ UNCHANGED vars
  <2>1. UNCHANGED <<agents, req>>
    BY <1>7 DEF Tick, rows, vars
  <2> QED BY <2>1 DEF SweepsFindSilent, At, WasSilent, HeardWhile, Did, Ordered
<1> QED BY <1>1, <1>3, <1>4, <1>5, <1>6, <1>7, <1>8, StepIsHandled DEF Next

LEMMA SweepsFindSilentInit == Init => SweepsFindSilent
BY DEF Init, NotSent, SweepsFindSilent, At

\* A sweep takes out of service only agents that had been silent when it looked, and
\* those a heartbeat was recorded for since the sweep was authorised.
THEOREM SweepsAlwaysSpareLive == Spec => SweepSparesLive
<1> DEFINE Spared ==
        \A r \in Requests : (At(r, "loaded", "sweep") /\ req'[r].wrote) =>
            \A i \in Ids : agents[i].active /\ ~agents'[i].active =>
                \/ agents[i].seen = Never
                \/ req[r].now - agents[i].seen > Timeout
                \/ \E h \in Requests \ req[r].after : Did(h, "heartbeat") /\ i \in req[h].dirty
<1>1. TypeOK /\ AdminInv /\ SweepsFindSilent /\ [Next]_vars => [Spared]_vars
  <2> SUFFICES ASSUME TypeOK, AdminInv, SweepsFindSilent, [Next]_vars,
                      NEW r \in Requests, At(r, "loaded", "sweep"), req'[r].wrote,
                      NEW i \in Ids, agents[i].active, ~agents'[i].active
               PROVE  WasSilent(r, i)
    BY DEF WasSilent, HeardWhile
  <2>1. ~req[r].wrote /\ req'[r] # req[r] /\ req[r].stage = "loaded"
    BY DEF At, AdminInv, WroteSettled, Settled
  <2>2. ASSUME NEW q \in Requests, Handles(q) PROVE q = r
    BY <2>1, <2>2, HandlesGoesOn DEF AdminInv
  <2>3. ASSUME NEW q \in Requests, Handles(q) PROVE Deactivate(r)
    BY <2>2, <2>3 DEF Handles, FindUser, InsertUser, GetUser, DeactivateUser, FindAgent, InsertAgent, GetAgent,
                      RenameAgent, DeleteAgent, FindSilent, RecordHeartbeat, At
  <2>4. ASSUME NEW q \in Requests, NEW op, NEW u, NEW stage, NEW a, NEW ids, Began(q, op, u, stage, a, ids)
        PROVE  FALSE
    BY <2>1, <2>4, BeganFields DEF At
  <2>5. ASSUME NEW q \in Requests, Respond(q) PROVE FALSE
    BY <2>1, <2>5, RespondGoesOn
  <2>6. ASSUME NEW k \in EnvKeys, Restart(k) PROVE FALSE
    BY <2>1, <2>6, RestartGoesOn
  <2>8. Deactivate(r)
    BY <2>1, <2>3, <2>4, <2>5, <2>6, StepIsHandled DEF Next, Arrive, Login, Heartbeat, Tick, vars
  <2>7. i \in req[r].dirty
    BY <2>8 DEF Deactivate
  <2> QED BY <2>7 DEF SweepsFindSilent
<1> QED BY <1>1, InitTyped, NextTyped, AdminInit, AdminStep, SweepsFindSilentInit, SweepsFindSilentStep, PTL
        DEF Spec, SweepSparesLive

=============================================================================
