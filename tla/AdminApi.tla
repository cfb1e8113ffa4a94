------------------------------ MODULE AdminApi ------------------------------
(***************************************************************************)
(* The registry of users and agents, and the requests that change it:      *)
(* api/users.py, api/admin.py, the heartbeat of api/agents.py and their    *)
(* services.  A request runs in four steps, with other requests between    *)
(* any two of them: its caller is authorised, its handler reads the rows   *)
(* it decides on, one commit writes, and the response goes out, which some *)
(* handlers read their row for again.  Every request has a session of its  *)
(* own, and a commit updates the changed columns only.                     *)
(*                                                                         *)
(* Callers hold a token that has not expired (it names a user, and the row *)
(* of the user is read anew for every request), and name rows by the ids   *)
(* the server lists.  Ids are not reused; a username stands for its id,    *)
(* since users are never deleted.                                          *)
(***************************************************************************)
EXTENDS Integers

CONSTANTS
    Requests,          \* the HTTP requests of a behaviour
    Workloads,         \* sets of kinds of requests: a behaviour has those of one set
    UserSpellings,     \* usernames as people type them
    UserName,          \* UserName[s]: s.strip().lower()
    AgentSpellings,    \* agent names as people type them
    AgentName,         \* AgentName[s]: s.strip()
    Root,              \* settings.admin_username
    Demo,              \* "demo-agent"
    EnvKeys,           \* values AGENT_API_KEY has had
    MaxAgents,         \* bound: agents ever created
    Timeout,           \* heartbeat_timeout_minutes
    MaxTime,           \* bound: the clock
    MaxRestarts        \* bound: restarts of the server

UserNames == { UserName[s] : s \in UserSpellings }
AgentNames == { AgentName[s] : s \in AgentSpellings }

ASSUME AdminAssumption ==
    /\ Root \in UserNames
    /\ Demo \in AgentNames
    /\ MaxAgents \in Nat \ {0} /\ Timeout \in Nat /\ MaxTime \in Nat /\ MaxRestarts \in Nat
    /\ EnvKeys # {}

VARIABLES
    users,       \* table users: a row for each username, or NoUser
    agents,      \* table agents: a row for each id, or NoAgent
    nextId,      \* the sequence of agents.id
    req,         \* the requests
    clock,       \* minutes
    restarts,    \* restarts of the server so far
    kinds        \* the kinds of requests of this behaviour

rows == <<users, agents, nextId>>
vars == <<users, agents, nextId, req, clock, restarts, kinds>>

-----------------------------------------------------------------------------
Never == -1      \* last_seen is None
Ids == 1..MaxAgents
Roles == {"admin", "analyst"}
Keys == { <<"env", k>> : k \in EnvKeys } \cup { <<"spy", i>> : i \in Ids }

NoUser == [role |-> "none", active |-> FALSE]
NoAgent == [name |-> "none", key |-> <<"none", 0>>, active |-> FALSE, seen |-> Never]

NewUser(role) == [role |-> role, active |-> TRUE]
NewAgent(name, key) == [name |-> name, key |-> key, active |-> TRUE, seen |-> Never]

Exists(i) == agents[i] # NoAgent
Owners(key) == { i \in Ids : Exists(i) /\ agents[i].key = key }
Named(name) == { i \in Ids : Exists(i) /\ agents[i].name = name }

-----------------------------------------------------------------------------
(* Requests.  dirty holds the agents a request writes, now the time it      *)
(* takes for last_seen or compares it with, wrote says that its commit went *)
(* through, and after holds the requests that had committed, or had been    *)
(* answered without a commit, when it was authorised.                       *)

UserOps ==
    [kind : {"create_user"}, name : UserSpellings, role : Roles]
    \cup [kind : {"deactivate_user"}, user : UserNames]

AgentOps ==
    [kind : {"create_agent"}, name : AgentSpellings]
    \cup [kind : {"rename_agent"}, agent : Ids, name : AgentSpellings]
    \cup [kind : {"deactivate_agent", "delete_agent"}, agent : Ids]
    \cup [kind : {"sweep"}]

AdminOps == UserOps \cup AgentOps
LoginOps == [kind : {"login"}, user : UserNames]
HeartbeatOps == [kind : {"heartbeat"}, key : Keys]
NoOp == [kind |-> "none"]
Operations == {NoOp} \cup AdminOps \cup LoginOps \cup HeartbeatOps

NotSent == [op |-> NoOp, actor |-> Root, stage |-> "unsent", answer |-> "none",
            dirty |-> {}, now |-> 0, wrote |-> FALSE, after |-> {}, run |-> 0]

Stages == {"unsent", "open", "loaded", "committed", "answered"}
Answers == {"none", "ok", "bad_request", "unauthorized", "forbidden", "not_found", "conflict",
            "error", "lost"}

At(r, stage, kind) == req[r].stage = stage /\ req[r].op.kind = kind
InFlight(r) == req[r].stage \in {"open", "loaded", "committed"}
Settled == { r \in Requests : req[r].stage \in {"committed", "answered"} }

Began(r, op, u, stage, answer, dirty) ==
    /\ req[r].stage = "unsent"
    /\ op.kind \in kinds
    /\ req' = [req EXCEPT ![r] = [op |-> op, actor |-> u, stage |-> stage, answer |-> answer,
                                  dirty |-> dirty, now |-> IF stage = "loaded" THEN clock ELSE 0,
                                  wrote |-> FALSE, after |-> Settled, run |-> restarts]]

Load(r, ids) == req' = [req EXCEPT ![r].stage = "loaded", ![r].dirty = ids]

Answer(r, answer) == req' = [req EXCEPT ![r].stage = "answered", ![r].answer = answer]

Commit(r) == req' = [req EXCEPT ![r].stage = "committed", ![r].wrote = TRUE]

\* The commit that inserts agent i.
CommitNew(r, i) ==
    req' = [req EXCEPT ![r].stage = "committed", ![r].wrote = TRUE, ![r].dirty = {i}]

\* The rows a handler reads once more for its response.
Refreshed(r) ==
    CASE req[r].op.kind = "create_agent" -> req[r].dirty
      [] req[r].op.kind = "rename_agent" -> {req[r].op.agent}
      [] OTHER -> {}

\* The response behind the commit.  A refresh that misses its row raises, though
\* all is written; that of crear_usuario finds it, since users are never deleted.
Respond(r) ==
    /\ req[r].stage = "committed"
    /\ Answer(r, IF \A i \in Refreshed(r) : Exists(i) THEN "ok" ELSE "error")
    /\ UNCHANGED <<rows, clock, restarts, kinds>>

-----------------------------------------------------------------------------
Init ==
    /\ users = [u \in UserNames |-> IF u = Root THEN NewUser("admin") ELSE NoUser]
    /\ \E k \in EnvKeys :
           agents = [i \in Ids |-> IF i = 1 THEN NewAgent(Demo, <<"env", k>>) ELSE NoAgent]
    /\ nextId = 2
    /\ req = [r \in Requests |-> NotSent]
    /\ clock = 0
    /\ restarts = 0
    /\ kinds \in Workloads

TrustsToken(u) == IF users[u].role # "admin" THEN "forbidden" ELSE "none"

\* require_admin: what it answers user u, "none" if it lets the request in.
RequireAdmin(u) ==
    IF ~users[u].active THEN "unauthorized"
    ELSE IF users[u].role # "admin" THEN "forbidden"
    ELSE "none"

\* A request of somebody who has an account reaches the server.
Arrive(r, u, op) ==
    /\ op \in AdminOps
    /\ users[u] # NoUser
    /\ LET verdict == RequireAdmin(u)
       IN  Began(r, op, u, IF verdict = "none" THEN "open" ELSE "answered", verdict, {})
    /\ UNCHANGED <<rows, clock, restarts, kinds>>

\* autenticar with the right password: one read.
Login(r, op) ==
    /\ op \in LoginOps
    /\ Began(r, op, op.user, "answered", IF users[op.user].active THEN "ok" ELSE "unauthorized", {})
    /\ UNCHANGED <<rows, clock, restarts, kinds>>

HeartbeatOfAny(r, op) ==
    /\ op \in HeartbeatOps
    /\ \E i \in Owners(op.key) : Began(r, op, Root, "loaded", "none", {i})
    /\ UNCHANGED <<rows, clock, restarts, kinds>>

\* require_agent: the keys of all agents are tried, active or not.
Heartbeat(r, op) ==
    /\ op \in HeartbeatOps
    /\ \/ /\ Owners(op.key) = {}
          /\ Began(r, op, Root, "answered", "unauthorized", {})
       \/ \E i \in Owners(op.key) :
              IF agents[i].active
              THEN Began(r, op, Root, "loaded", "none", {i})
              ELSE Began(r, op, Root, "answered", "forbidden", {i})
    /\ UNCHANGED <<rows, clock, restarts, kinds>>

RecordWholeRow(r) ==
    /\ At(r, "loaded", "heartbeat")
    /\ \E i \in req[r].dirty :
           /\ agents' = [agents EXCEPT ![i].seen = req[r].now, ![i].active = TRUE]
           /\ Commit(r)
    /\ UNCHANGED <<users, nextId, clock, restarts, kinds>>

\* The handler commits last_seen, the time it was let in; an agent deleted
\* meanwhile makes the UPDATE miss its row, and SQLAlchemy raises.
RecordHeartbeat(r) ==
    /\ At(r, "loaded", "heartbeat")
    /\ \E i \in req[r].dirty :
           IF Exists(i)
           THEN agents' = [agents EXCEPT ![i].seen = req[r].now] /\ Commit(r)
           ELSE UNCHANGED agents /\ Answer(r, "error")
    /\ UNCHANGED <<users, nextId, clock, restarts, kinds>>

-----------------------------------------------------------------------------
(* Users.                                                                  *)

FindUserAsTyped(r) ==
    /\ At(r, "open", "create_user")
    /\ IF \E u \in UserNames : u = req[r].op.name /\ users[u] # NoUser
       THEN Answer(r, "conflict")
       ELSE Load(r, {})
    /\ UNCHANGED <<rows, clock, restarts, kinds>>

FindUser(r) ==
    /\ At(r, "open", "create_user")
    /\ IF users[UserName[req[r].op.name]] # NoUser THEN Answer(r, "conflict") ELSE Load(r, {})
    /\ UNCHANGED <<rows, clock, restarts, kinds>>

\* The unique index refuses a name that was taken since; nobody catches that.
InsertUser(r) ==
    /\ At(r, "loaded", "create_user")
    /\ LET u == UserName[req[r].op.name]
       IN  IF users[u] # NoUser
           THEN UNCHANGED users /\ Answer(r, "error")
           ELSE users' = [users EXCEPT ![u] = NewUser(req[r].op.role)] /\ Commit(r)
    /\ UNCHANGED <<agents, nextId, clock, restarts, kinds>>

GetUser(r) ==
    /\ At(r, "open", "deactivate_user")
    /\ LET u == req[r].op.user
       IN  IF u = req[r].actor THEN Answer(r, "bad_request")
           ELSE IF users[u] = NoUser THEN Answer(r, "not_found")
           ELSE Load(r, {})
    /\ UNCHANGED <<rows, clock, restarts, kinds>>

DeactivateUser(r) ==
    /\ At(r, "loaded", "deactivate_user")
    /\ users' = [users EXCEPT ![req[r].op.user].active = FALSE]
    /\ Commit(r)
    /\ UNCHANGED <<agents, nextId, clock, restarts, kinds>>

-----------------------------------------------------------------------------
(* Agents.                                                                 *)

FindAgent(r) ==
    /\ At(r, "open", "create_agent")
    /\ IF Named(AgentName[req[r].op.name]) # {} THEN Answer(r, "conflict") ELSE Load(r, {})
    /\ UNCHANGED <<rows, clock, restarts, kinds>>

\* The key is new.
InsertAgent(r) ==
    /\ At(r, "loaded", "create_agent")
    /\ LET name == AgentName[req[r].op.name]
       IN  IF Named(name) # {}
           THEN UNCHANGED <<agents, nextId>> /\ Answer(r, "error")
           ELSE /\ nextId \in Ids
                /\ agents' = [agents EXCEPT ![nextId] = NewAgent(name, <<"spy", nextId>>)]
                /\ nextId' = nextId + 1
                /\ CommitNew(r, nextId)
    /\ UNCHANGED <<users, clock, restarts, kinds>>

\* session.get of the three operations on one agent.  An agent that is inactive
\* already, or has the name already, is not written.
GetAgent(r) ==
    /\ req[r].stage = "open"
    /\ req[r].op.kind \in {"rename_agent", "deactivate_agent", "delete_agent"}
    /\ LET i == req[r].op.agent
           unchanged == \/ req[r].op.kind = "deactivate_agent" /\ ~agents[i].active
                        \/ /\ req[r].op.kind = "rename_agent"
                           /\ agents[i].name = AgentName[req[r].op.name]
       IN  IF ~Exists(i) THEN Answer(r, "not_found")
           ELSE Load(r, IF unchanged THEN {} ELSE {i})
    /\ UNCHANGED <<rows, clock, restarts, kinds>>

\* A taken name breaks the unique index, which is no ValueError; without a new
\* name the commit writes nothing.
RenameAgent(r) ==
    /\ At(r, "loaded", "rename_agent")
    /\ LET i == req[r].op.agent
           name == AgentName[req[r].op.name]
       IN  \/ req[r].dirty = {} /\ UNCHANGED agents /\ Commit(r)
           \/ /\ req[r].dirty # {}
              /\ IF Exists(i) /\ Named(name) \ {i} = {}
                 THEN agents' = [agents EXCEPT ![i].name = name] /\ Commit(r)
                 ELSE UNCHANGED agents /\ Answer(r, "error")
    /\ UNCHANGED <<users, nextId, clock, restarts, kinds>>

\* DELETE of a row that is gone is only a warning.
DeleteAgent(r) ==
    /\ At(r, "loaded", "delete_agent")
    /\ agents' = [agents EXCEPT ![req[r].op.agent] = NoAgent]
    /\ Commit(r)
    /\ UNCHANGED <<users, nextId, clock, restarts, kinds>>

SilentAtLimit(i, t) == agents[i].seen = Never \/ agents[i].seen <= t - Timeout

\* desactivar_inactivos: the time, and the active agents that were silent by then.
Silent(i, t) == agents[i].seen = Never \/ agents[i].seen < t - Timeout

FindSilent(r) ==
    /\ At(r, "open", "sweep")
    /\ LET silent == { i \in Ids : agents[i].active /\ Silent(i, clock) }
       IN  IF silent = {} THEN Answer(r, "ok")
           ELSE req' = [req EXCEPT ![r].stage = "loaded", ![r].dirty = silent, ![r].now = clock]
    /\ UNCHANGED <<rows, clock, restarts, kinds>>

\* The commit of desactivar_agente and of desactivar_inactivos: one UPDATE for
\* each agent, all or none.
Deactivate(r) ==
    /\ req[r].stage = "loaded"
    /\ req[r].op.kind \in {"deactivate_agent", "sweep"}
    /\ IF \A i \in req[r].dirty : Exists(i)
       THEN /\ agents' = [i \in Ids |-> IF i \in req[r].dirty THEN [agents[i] EXCEPT !.active = FALSE]
                                        ELSE agents[i]]
            /\ Commit(r)
       ELSE UNCHANGED agents /\ Answer(r, "error")
    /\ UNCHANGED <<users, nextId, clock, restarts, kinds>>

-----------------------------------------------------------------------------
SeedByName(key) ==
    \/ /\ Named(Demo) # {}
       /\ agents' = [i \in Ids |-> IF i \in Named(Demo)
                                   THEN [agents[i] EXCEPT !.key = key, !.active = TRUE]
                                   ELSE agents[i]]
       /\ UNCHANGED nextId
    \/ /\ Named(Demo) = {}
       /\ nextId \in Ids
       /\ agents' = [agents EXCEPT ![nextId] = NewAgent(Demo, key)]
       /\ nextId' = nextId + 1

\* The start seeds the demo agent: nothing to do if the key is known, else the
\* agent of that name gets the key, else a new one does.
Seed(key) ==
    \/ /\ Owners(key) # {}
       /\ UNCHANGED <<agents, nextId>>
    \/ /\ Owners(key) = {}
       /\ Named(Demo) # {}
       /\ agents' = [i \in Ids |-> IF i \in Named(Demo)
                                   THEN [agents[i] EXCEPT !.key = key, !.active = TRUE]
                                   ELSE agents[i]]
       /\ UNCHANGED nextId
    \/ /\ Owners(key) = {} /\ Named(Demo) = {}
       /\ nextId \in Ids
       /\ agents' = [agents EXCEPT ![nextId] = NewAgent(Demo, key)]
       /\ nextId' = nextId + 1

\* The server stops, with the requests in flight, the committed ones too, whose
\* answers nobody gets, and starts again.  The root user exists, whatever became of
\* it: crear_usuario refuses, and the start goes on.  Without a database it goes on
\* too, and seeds nothing.
Restart(k) ==
    /\ restarts < MaxRestarts
    /\ restarts' = restarts + 1
    /\ req' = [r \in Requests |-> IF InFlight(r)
                                  THEN [req[r] EXCEPT !.stage = "answered", !.answer = "lost"]
                                  ELSE req[r]]
    /\ Seed(<<"env", k>>) \/ UNCHANGED <<agents, nextId>>
    /\ UNCHANGED <<users, clock, kinds>>

\* Time passes in the behaviours with heartbeats; nothing else reads the clock.
Tick ==
    /\ "heartbeat" \in kinds
    /\ clock < MaxTime
    /\ clock' = clock + 1
    /\ UNCHANGED <<rows, req, restarts, kinds>>

Step(r) ==
    \/ \E u \in UserNames, op \in AdminOps : Arrive(r, u, op)
    \/ \E op \in LoginOps : Login(r, op)
    \/ \E op \in HeartbeatOps : Heartbeat(r, op)
    \/ RecordHeartbeat(r)
    \/ FindUser(r) \/ InsertUser(r)
    \/ GetUser(r) \/ DeactivateUser(r)
    \/ FindAgent(r) \/ InsertAgent(r)
    \/ GetAgent(r) \/ RenameAgent(r) \/ DeleteAgent(r)
    \/ FindSilent(r) \/ Deactivate(r)
    \/ Respond(r)

Next ==
    \/ \E r \in Requests : Step(r)
    \/ \E k \in EnvKeys : Restart(k)
    \/ Tick

Spec == Init /\ [][Next]_vars

-----------------------------------------------------------------------------
AgentRow == [name : AgentNames, key : Keys, active : BOOLEAN, seen : {Never} \cup 0..MaxTime]
Request == [op : Operations, actor : UserNames,
            stage : Stages, answer : Answers, dirty : SUBSET Ids, now : 0..MaxTime,
            wrote : BOOLEAN, after : SUBSET Requests, run : 0..MaxRestarts]

TypeOK ==
    /\ users \in [UserNames -> {NoUser} \cup [role : Roles, active : BOOLEAN]]
    /\ agents \in [Ids -> {NoAgent} \cup AgentRow]
    /\ nextId \in 1..(MaxAgents + 1)
    /\ req \in [Requests -> Request]
    /\ clock \in 0..MaxTime
    /\ restarts \in 0..MaxRestarts
    /\ kinds \in Workloads

Did(r, kind) == req[r].op.kind = kind /\ req[r].wrote
Ordered(r, s) == r \in req[s].after \/ s \in req[r].after

\* api/users.py:79-83 forbids to deactivate oneself "to avoid leaving no admins":
\* some admin stays active as long as of every two deactivations of users that
\* were committed, answered or not, one was committed before the other was
\* authorised.  (Two admins who deactivate each other at once leave none, and no
\* restart brings one back.)
AdminRemains ==
    (\A r, s \in Requests : Did(r, "deactivate_user") /\ Did(s, "deactivate_user") /\ r # s
                                => Ordered(r, s))
        => \E u \in UserNames : users[u].active /\ users[u].role = "admin"

\* The requests that took agent i out of service.
Ended(s, i) ==
    /\ req[s].op.kind \in {"deactivate_agent", "sweep", "delete_agent"}
    /\ req[s].wrote
    /\ i \in req[s].dirty

\* A commit binds the requests that are authorised after it, whether it was
\* answered or its answer was lost: a deactivated user is let in to these requests
\* neither with the token of before nor with the password (GET /auth/me, which
\* asks for no active user, is not one of them), the name of a user is not given
\* again however it is spelled, and an agent out of service gets no heartbeat in
\* until the server starts anew.
CommitsBind ==
    \A r \in Requests : \A s \in req[r].after :
        /\ Did(s, "deactivate_user") =>
               /\ req[r].op.kind = "login" /\ req[r].op.user = req[s].op.user => req[r].answer # "ok"
               /\ req[r].op \in AdminOps /\ req[r].actor = req[s].op.user =>
                      req[r].answer = "unauthorized"
        /\ Did(s, "create_user") /\ Did(r, "create_user") =>
               UserName[req[r].op.name] # UserName[req[s].op.name]
        /\ Did(r, "heartbeat") /\ req[s].run = req[r].run =>
               \A i \in req[r].dirty : ~Ended(s, i)

\* A key identifies its agent (obtener_por_api_key takes the first that fits),
\* through renames and through starts with one AGENT_API_KEY or another.
KeysIdentify == \A key \in Keys : \A i, j \in Owners(key) : i = j

\* The requests that gave an agent this name.
Gave(s, name) ==
    /\ req[s].op.kind \in {"create_agent", "rename_agent"}
    /\ req[s].wrote /\ req[s].dirty # {}
    /\ AgentName[req[s].op.name] = name

\* The agents that must be there for request r.
Needs(r) == IF req[r].op.kind = "rename_agent" THEN {req[r].op.agent} ELSE req[r].dirty

\* Request s took from request r what r had found: a free name, or the row.
TookFrom(s, r) ==
    \/ /\ Did(s, "create_user") /\ req[r].op.kind = "create_user"
       /\ UserName[req[s].op.name] = UserName[req[r].op.name]
    \/ req[r].op.kind = "create_agent" /\ Gave(s, AgentName[req[r].op.name])
    \/ Did(s, "delete_agent") /\ req[s].op.agent \in Needs(r)

\* Every refusal has its reason.  A heartbeat is refused only because of a request
\* that had committed before and took the agent out of service: the agent is found
\* inactive, or the key it was created with is found no more (on the first start of
\* the server; a later one may give an agent the key of the environment).  And the
\* server answers 500 only to a request that lost to a commit made since it was
\* authorised, which took the name it had found free or deleted the agent it needs,
\* and to a rename to a name that was given before (IntegrityError is not the
\* ValueError api/admin.py:155 waits for).
RefusalsExplained ==
    /\ \A r \in Requests, i \in Ids :
        (/\ req[r].op.kind = "heartbeat" /\ req[r].run = 0
         /\ \/ req[r].answer = "forbidden" /\ i \in req[r].dirty
            \/ /\ req[r].answer = "unauthorized" /\ req[r].op.key = <<"spy", i>>
               /\ \E c \in req[r].after : Did(c, "create_agent") /\ i \in req[c].dirty)
            => \E s \in req[r].after : Ended(s, i)
    /\ \A r \in Requests : req[r].answer = "error" =>
        \/ \E s \in Requests \ ({r} \cup req[r].after) : TookFrom(s, r)
        \/ /\ req[r].op.kind = "rename_agent"
           /\ \/ AgentName[req[r].op.name] = Demo
              \/ \E s \in Requests \ {r} : Gave(s, AgentName[req[r].op.name])

\* What was deactivated stays so, whatever was read before and is written back:
\* only a start with another AGENT_API_KEY brings an agent back.
DeactivationLasts ==
    [][/\ \A u \in UserNames : users[u] # NoUser /\ ~users[u].active => ~users[u].active'
       /\ \A i \in Ids : Exists(i) /\ ~agents[i].active /\ agents'[i].active =>
              restarts' > restarts /\ agents'[i].key # agents[i].key]_vars

\* A sweep takes out of service no agent whose last_seen lies in the Timeout minutes
\* before it looked, except by a heartbeat committed since the sweep was authorised.
SweepSparesLive ==
    [][\A r \in Requests : (At(r, "loaded", "sweep") /\ req'[r].wrote) =>
          \A i \in Ids : agents[i].active /\ ~agents'[i].active =>
              \/ agents[i].seen = Never
              \/ req[r].now - agents[i].seen > Timeout
              \/ \E h \in Requests \ req[r].after : Did(h, "heartbeat") /\ i \in req[h].dirty]_vars
=============================================================================
