# SentinelPy in TLA+

SentinelPy collects security events with remote agents and a UDP collector,
stores them, correlates them with rules into alerts, scores anomalies and
entity risk, and notifies. This directory models the parts of it in which
order, concurrency and failure decide whether it works: TLA+ modules
translated from the source, TLC configurations that check them on small
instances, and theorems about them that TLAPS checks for every value of the
constants. `PROJECT.json` maps every definition to the lines it stands for and
lists the runs, mutants, theorems, hazards and findings.

Paths below are relative to the root of the repository.

Run a check with `tlc -config X.cfg M` and a proof with `tlapm M.tla`.

## 1. The system

| Component | State | Operations | Talks to |
|---|---|---|---|
| Remote agent (`agent/agent.py`, `queue.py`, `sender.py`, `ratelimit.py`) | SQLite queue (rows, status), token bucket, the batch being sent | poll cycle, enqueue, send cycle, retry with backoff, mark_sent, stop | watched files, ingestion endpoint |
| File watcher (`agent/watcher.py`) | an offset per file, in memory | watch, poll (stat, read, split) | files other programs write |
| Ingestion endpoint (`backend/app/api/agents.py`, `auth.py`, `ratelimit.py`) | the agent's row, a sliding window of requests per agent | authenticate, limit, validate the batch, process event by event, answer | pipeline |
| Agent registry (`agent_service.py`, `api/admin.py`) | table `agents` | create, rename, delete, heartbeat, deactivate, sweep of inactive agents, seed at start | endpoint |
| Collector (`collector.py`) | the UDP transport | a task per datagram | pipeline |
| Pipeline (`pipeline.py`) | table `events` | parse, store, analyse (in a task), evaluate | analysis, engine |
| Correlation engine (`engine.py`) and callbacks (`main.py`, `alert_service.py`) | the list of rules, an open window per rule; table `alerts` | evaluate, create alert, update counter, reload | rules API, alerts |
| Rules API (`api/rules.py`, `rule_service.py`) | table `rules` | create, update, toggle, delete, reload of the engine | engine |
| Alert lifecycle (`api/alerts.py`, `alert_service.py`) | table `alerts` | status requests, grouping task | engine, entity risk |
| Entity risk (`EntityRiskStore` in `analysis_service.py`) | a dictionary written through to table `entity_risks` | update_risk, get_or_create, load_from_db | analysis tasks |
| Analysis and ML (`analysis_service.py`, `ml_engine.py`) | baselines, a model and its scaler, a queue of predictions for one thread | start, analyse, score, train, shutdown | pipeline, entity risk |
| Users and login (`api/users.py`, `auth_service.py`) | table `users` | create, deactivate, token | admin requests |
| Notifiers, threat intelligence, parsers, statistics, frontend | – | – | – |

Agent and server are two processes that share nothing but HTTP. Inside each
process there is one asyncio event loop, so code between two `await`s is atomic
and everything else interleaves: tasks of the engine and of the risk store,
and requests, each with a database session of its own under READ COMMITTED. The
one place with two threads is the scorer: it trains on the event loop and
predicts in an executor.

What is hard, and which property watches it (`PROJECT.json` "hazards" has the
lines):

- an agent that retries, times out, restarts and gets late answers must not
  acknowledge a row the server never accepted, skip a row or exceed its queue
  (`SentWasAccepted`, `SentInOrder`, `PendingBounded`, `CopiesBoundedByRestarts`,
  `QueuedEventuallySent`);
- the status codes of the two sides must fit each other (`AcceptedIsSuccess`,
  `OnlyFirstBatchStored`), and one bad event must not hold up the others
  (`BlockedByPoison` states that it does);
- a file may change between the stat and the read of a poll
  (`NoRepeatInPass`, `NothingSkipped`, `CatchesUp`);
- tasks that match the same rule at once must share one window and one alert
  (`AlertsSpaced`), and counters travel through sessions that may cross
  (`NeverOvercounts`, `CountersSettled`, `CountersStayInTheirWindow`);
- the engine runs a copy of the rules that requests refresh concurrently
  (`EngineRunsCommittedRules`) and a start may fail to read: whenever the copy is
  out of step there is a reason (`StalenessExplained`);
- an event is stored, analysed, evaluated, alerted on and announced by steps
  that fail one by one (`EffectsOnce`, `BatchAccounted`,
  `EveryTargetTried`, `TasksFinish`), and what a rule means is decided by a
  small interpreter (`AlertsFollowRules`, `OperatorsFit`, `NotGroupsNegate`);
- upserts of one risk may commit in any order or be lost with the process
  (`RiskJustified`, `RestartForgetsOnly`);
- the requests that administer users and agents authorise, read, commit and answer
  with others in between (`AdminRemains`, `CommitsBind`, `RefusalsExplained`,
  `SweepSparesLive`), and a start writes the same rows (`KeysIdentify`,
  `DeactivationLasts`);
- the status of an alert is written by requests and its group by a background
  task, both with sessions that may be stale (`DecisionsStand`,
  `ClosedAlertsStamped`, `ClosedAlertsSettle`), and the task must survive its own
  failures (`ActiveAlertsGrouped`);
- a model is refitted on the event loop while a thread predicts with it
  (`ScoresOfOneTraining`), only scores bring the next training
  (`OutOfUseForGood` says what that costs), and an exception in either thread must
  not leave an analysis waiting (`AnalysesEnd`).

## 2. The modules

### AtLeastOnceQueue, AgentDelivery

`AtLeastOnceQueue` is the abstract promise: items get numbers, are delivered at
least once and acknowledged in order, only after a delivery, and never leave
the queue another way.

`AgentDelivery` is the agent against any server and network. `rows` and `sent`
are the SQLite table (the row id is the position), `offset` and `pos` the
watcher's position and how far `_process_lines` has come, `tokens` the bucket,
`phase`, `batch`, `attempt`, `reply` the local state of `_send_cycle` and
`send_batch`, `wire` the requests under way. The poll cycle never awaits
anything that suspends, so the sender takes no step while lines are being
processed (`LoopFree`); a kill may fall between two enqueues, a `stop()` may
not. A request whose client gave up stays on the wire (`waiting = FALSE`): the
server may still process it, its answer reaches nobody. The queue's file and
the requests on the wire survive a restart, everything else starts again.
Refinement: `queued <- Len(rows)`, `delivered <- accepted`,
`acked <- Cardinality(sent)`.

### AgentServer

Composes the agent with the endpoint of this repository: `Ingest` replaces the
arbitrary answer by what the request meets in turn: `require_agent` (401 for a key
that is no agent's, 403), `RateLimiter.__call__` (429), the body's schema (422), the
checks of the endpoint (400 for a batch too large or with an event that lacks a
required field, 503 without a pipeline) and the processing loop (201). `Incomplete`
and `IllTyped` are the lines whose event one of these refuses, `Unstorable` those
whose event is counted as failed every time; `MaxBatch` is the 100 of the code.
`Deactivate`, `Delete` and `RestartServer` (the limiter counts in memory) happen
meanwhile. `copies` counts the events stored per line. The module
shows that the endpoint is one of the servers `AgentDelivery` allows
(`RefinesAgentDelivery`), so what holds there holds here.

### CorrelationEngine

One action per stretch of code between two awaits: `Receive`, the three kinds
of match (`MatchImmediate`, `MatchInWindow`, `MatchOpensWindow`), the commit of
each callback (`CreateAlert`, `FindAlert`/`FindNoAlert`, `WriteCount`), a
failing callback, reloads, status changes and the clock. `windows` keeps every
window ever opened so that properties can speak about old ones; `current` is
`_ventanas`. Which rules an event matches is an input of `Receive` (`Conditions`
has what decides it). `overlapped` remembers whether two events were ever
evaluated at once.

### Conditions, Pipeline, MCPipeline

`Conditions` is the engine's interpreter: values of event fields (texts folded
to lower case with a flag for their spelling, numbers, missing), the operators
of `_evaluar_condicion`, `all()` and `any()` over verdicts with their order of
evaluation, and the dispatch of `_evaluar_regla`, for conditions of any nesting.
A number is a numeral, which has a text (`Written`, what `str()` gives) and a value
(`Worth`): `_eq` and `_compare` go by the value, `_in_list`, `_contains`,
`_startswith` and `_endswith` by the text, so 22 and 22.0 are equal and neither is
in a list of the other. `Readable` are the numerals `float()` finds in a text.
A verdict is "match", "no" or "raises": junk, a field that is no text and a number
too large for a float (`Overflowing`) raise what `_evaluar_condicion` does not catch
(`Raises`). A leaf whose operator is "and" or "or" is a group without conditions, as
it is to `_evaluar_regla`. `Means` is the documented meaning.
`JsonConditions` are the conditions there are and `Nesting` how deep each is
nested; `ConditionsAssumption` says that what is inside a condition is one too and
nested less deep (JSON values are finite trees), that two numerals `float()` reads
in one text have one value, and nothing of operators and fields. What descends into
conditions is a recursive function over `JsonConditions`, not a RECURSIVE operator.

`Pipeline` EXTENDS it: the rules it evaluates have conditions, events have
fields. It follows every datagram, REST request and batch from arrival to answer. `task` is the task's local state (`pc` names the await it is at, `at`
the event of the batch, `rule` and `channel` where its two loops are), `rows`
and `alerts` the tables. Commit and read-back are separate steps, because the
code treats a failing `refresh` like a failing commit. `EvaluationRaises` ends
the evaluation of one event: uncaught for datagrams, logged for requests.
`rows[r].analysis` is the analysis task of a row. `Terminate` and `Stop` are
SIGTERM and the end of the event loop: requests are waited for, datagrams and
analyses are not (`collector.py:89-97`).

`MCPipeline` gives TLC the workloads: two tasks at once, and one datagram against
one rule for every shape of conditions.

### RuleSync

A request is a record: the session's copy of the row, the rows it selected and
where it waits. The commit writes the columns that differ from the copy; the
select returns the session's own object for a row it already holds (identity
map), the table's rows otherwise; `LoadEngine` replaces the engine's list. A
content is a version number, so "the engine runs an old condition" is visible.
`attached` is whether `app.state.engine` is set: after `RestartUnread`, a start
that could not read the rules, reloads do nothing (`SkipReload`). `astray`
remembers that a load was overtaken or failed since the last quiet one.

### RiskStore, MCRiskStore

`update_risk` changes memory and leaves an upsert pending; `Persist` commits it
at any later time. Scores are whole points, the decay is a constant operator of
which only monotonicity and composition are assumed (`DecayAssumption`);
`MCRiskStore` gives TLC a decay that halves per clock unit, for which TLC
evaluates the assumption. Grouping keys, the severity table and the choice of
the entity key are inputs.

### FileWatcher

`StatTruncated`/`StatGrown` are the stat, `Read`/`ReadFails` the read of
`_read_new_lines`; files are written, truncated, removed and created in between.
A line handed out is the interval of positions it was read from, with the
number of times reading had restarted at the beginning (`pass`). A file that
shrank and grew again past the offset is not noticed by the code, and neither
by the model.

### AdminApi, MCAdminApi

The users, the agents and the requests that change them. A request is a record:
its operation, its caller and its `stage`. It takes four steps, with other requests
between any two: `Arrive`, `Heartbeat` and `Login` authorise it, an action named
for the query reads the rows its handler decides on (`FindUser`, `GetUser`,
`FindAgent`, `GetAgent`, `FindSilent`), one commit writes (`InsertUser`,
`DeactivateUser`, `InsertAgent`, `RenameAgent`, `DeleteAgent`, `Deactivate`,
`RecordHeartbeat`), and `Respond` sends the answer, before which creations and
renames read their row once more (`Refreshed`): an agent deleted in between makes
a 500 of what was written. Every request has a session of its own and a commit
writes only the columns that changed: `dirty` are the agents it will write, `now`
the time it took beforehand. An UPDATE that misses its row raises, a
DELETE that does is only a warning. `wrote` says that the commit went through,
`after` are the requests that had committed, or had been refused, when this one was
authorised, and `run` is the start of the server it ran in; the properties need
them to say "overlapped". `Restart` ends the requests in flight, of which those that
have committed lose only their answer, and seeds the
demo agent as `main.py:136-177` does, with any of the values `AGENT_API_KEY`
has had.

Callers are users with a token that has not expired; they name rows by the ids
the server lists (the check against deactivating oneself compares the text of
the id, `api/users.py:79`). `GET /auth/me` only reads and is not among the requests:
it lets a deactivated user in (`get_current_user_from_cookie`, `auth.py:25-57`, asks for
no active row). Hostnames, versions, listings and the rate limits of these endpoints
are left out. `MCAdminApi` names the kinds of requests that run
together: all kinds at once would only repeat what pairs of them show. Two pairs that
do not touch each other's columns, a rename and a heartbeat, a creation and a
deactivation, run in none of them and are left to the theorems.

### AlertLifecycle

The table `alerts` behind the engine. A status request (`request[r]`) is its
read (`ReadAlert`), its commit (`CommitStatus`) and the refresh whose status it
answers with; `seen` is what its session read, for the UPDATE writes only the
columns that differ from it. A grouping pass (`pass`) selects the open alerts,
looks up the risk of group after group (`LookUp`) and commits once. A failing
lookup rolls back what the pass had done, which expires every row it holds, and
the next title it reads raises (`TitleExpired`): the pass is lost, the loop goes
on. `decider` and `late` are histories: the request that committed last, and the
passes that wrote the row since it was closed. `EndProcess` loses requests and
passes and keeps the table.

### MLEngine

`scaler` and `model` are objects: the training that made them and whether they
are fitted. A training goes through the stages of `_train_model` (`selecting`,
`selected`, `scaler`, `scaled`, `model`, `over`); the steps from `NewScaler` to
`FitModel` hold the event loop (`fitting`), nothing else of the loop runs then.
The executor has one thread: `Transform` reads the scaler of this moment,
`Decide` the model of a later one, `PredictRaises` is an object that is not
fitted. `call[e]` is the call of `score()` for one event, with the trainings
behind its number; `disturbed` remembers that a fit ran while it was computed.
`score()` asks for a model (`HasModel`), its caller for a trained one (`Available`,
a guard of `Analyze` in `AnalysisService`). `CountScore` counts a score and starts
the training that is due; nothing else counts.

### AnalysisService, MCAnalysis

The service around both: baselines, first training and grouping task at start
(`SeedBaselines`, `StartGrouping`), a task per event (`Schedule` to `RaiseRisk`),
shutdown and a new start. It EXTENDS the two modules and composes their actions:
each step of the service is a step of one or both, or leaves them alone, and
`LoopIsFree` keeps everything on the event loop waiting while a fit runs. `load`
fixes what a behaviour is given, so that TLC does not multiply alerts by events
they never meet. `EndProcess /\ EndEngine` is the end of the process in one
step; what the intermediate steps of `shutdown()` could do is a subset of what
happens when they are not reached.

### Proof modules

`AgentDeliveryProofs`, `CorrelationEngineProofs`, `RuleSyncProofs`,
`RiskStoreProofs`, `FileWatcherProofs`, `AdminApiProofs`, `PipelineProofs`
extend their component's module; `AgentDeliveryProofs` extends `AgentServer` and has
the proofs about both, `AnalysisServiceProofs` those about `AlertLifecycle`,
`MLEngine` and the composition of the two.

The operators named `X_Something` beside an operator `X` are plausible wrong
versions of the code; they are used nowhere in the specifications. Each
property is violated when one of them replaces `X` (`PROJECT.json` "mutants").

## 3. The runs

| Run | Question | Bounds | States |
|---|---|---|---|
| `AgentDelivery.cfg` | delivery against any server, safety, refinement of `AtLeastOnceQueue`, eventual acknowledgement | 4 lines (one unparsed), queue of 3, batch of 2, 1 retry, 1 restart, a bucket of 1, codes 200, 201, 400 | 96 thousand |
| `AgentServer.cfg` | what the two sides do together | 4 lines (one unstorable, one incomplete, one ill-typed), queue of 4, batch of 3 where the server takes 2, a bucket of 1, 1 retry, 1 request per window, 1 restart | 489 thousand |
| `AgentServer_Accepted.cfg` | refutes: a processed batch counts as sent | 3 lines (one incomplete), queue of 3, batch of 2, 2 requests per window | – |
| `Correlation.cfg` | windows and counters under concurrency | 2 tasks, 2 rules (one windowed), 3 events, 1 reload, 1 status change, 1 failure | 538 thousand |
| `Correlation_OwnWindow.cfg` | refutes: a window's counter goes to its own alert | 2 tasks, 1 rule, 3 events | – |
| `RuleSync.cfg` | the cache under concurrent requests and a start without rules | 2 requests, 2 rules (one referenced by an alert), 3 writes, 1 failure, 1 restart | 1.5 million |
| `RiskStore.cfg` | write-through with crossing commits | 2 tasks, 2 entities, 4 updates, 2 restarts, 1 failure | 1.3 million |
| `Pipeline.cfg` | the life of an event, and what rules mean | 2 tasks, batch of 2, 3 rules, 2 notifiers, 2 failures, 1 restart; 56 conditions against 4 events, one number written in three ways, another in two, one that is too large | 126 thousand |
| `Pipeline_Not.cfg` | refutes: NOT groups negate | 3 conditions, 4 events | – |
| `AdminApi.cfg` | users and agents under concurrent requests and restarts | 3 requests of one of 5 workloads, 2 users (3 spellings), 2 agents (3 spellings), 2 values of `AGENT_API_KEY`, timeout 1, 2 ticks, 1 restart | 1.7 million (up to symmetry) |
| `FileWatcher.cfg` | polls against a changing file | 3 symbols, 2 changes, 1 failure, 1 restart | 295 thousand |
| `AnalysisService.cfg` | alerts between requests and grouping, the scorer between two threads, and both in one process | one of 5 loads: 2 alerts of 2 rules and 1 request, 1 alert and 2 requests, 2 events and failing fits over enough rows or too few, or one of each; 3 statuses and one word that is none; training from 2 rows, retraining after every score; 1 failure, 1 restart | 313 thousand |

Why the bounds are enough: every hazard needs at most two actors that cross
once, and one failure or restart at a time (two failures where one handler
covers for another: the fallback of `POST /api/events`). The queue is smaller than the
number of lines a restart and a stream can put in, so it overflows; the bucket is smaller too, so lines are
dropped; a batch is smaller than the queue where order between batches matters;
the window is shorter than the run, so a second window opens while the callback
of the first still runs; four updates let an older upsert commit after a newer
one, and a restart load either. `CHECK_DEADLOCK FALSE` stands where the bounds
let the system stop. The theorems remove the bounds for what they state.

What the runs that hold show:

- `SentWasAccepted`, `SentInOrder`, `PendingBounded`, `CopiesBoundedByRestarts`:
  no answer acknowledges a row it does not belong to, rows are acknowledged in
  order, at most `max_size` are pending, and duplicates come from restarts (the
  offsets are in memory) or from answers that were lost.
- `QueuedEventuallySent`: with a server that answers 200 often enough nothing
  stays in the queue.
- `BlockedByPoison`, `OnlyFirstBatchStored`, `FirstBatchEventuallyStored`: with
  the endpoint of this repository, the events of the first batch are stored
  (again and again) and nothing behind them ever is; an incomplete or ill-typed
  event blocks everything behind it. `FirstBatchEventuallyStored` names what keeps
  the first batch out for ever: a refusal that no retry changes (the agent
  deactivated or deleted, no pipeline, a batch larger than the server takes or with
  an event it refuses) or an event no row takes. These describe what the code does, and a repair
  of either side would change them.
- `AlertsSpaced`: recording the window before the await is what prevents two
  alerts; `NeverOvercounts`: counters may lag but never exaggerate;
  `CountersSettled`: they are exact as long as events come one at a time.
- `EngineRunsCommittedRules`, `StalenessExplained`: however requests cross, the
  engine runs contents the table has held as active. It is out of step with the
  table only while a reload nothing overtook is on its way, or because one was
  overtaken or failed since the last quiet one; none of the paths through 404,
  500, deletions and half-done toggles adds another way. After a start without
  rules it runs none.
- `EffectsOnce`, `BatchAccounted`: an event is stored twice only
  through the REST fallback, and even then evaluated and analysed once; the
  counts of a batch are what was evaluated. `EveryTargetTried`, `TasksFinish`:
  no channel keeps an alert from the others, and nothing hangs.
- `AlertsFollowRules`: leaves and AND/OR groups mean what the documentation
  says, over missing fields and mixed types, up to the first rule whose
  conditions raise; `OperatorsFit`: the operators are consistent with each other,
  as far as their comparing values here and texts there allows (equal numbers need
  not be members).
- `RiskJustified`, `RestartForgetsOnly`: crossing upserts lose risk, they never
  invent it, and because a row carries the instant of its score a restart
  never brings back what has decayed.
- `AdminRemains`: the check against deactivating oneself, together with reading
  the caller anew, is enough as long as deactivations come one after the other, also
  when the answer to one is late or lost.
  `CommitsBind`: what was committed binds every request authorised later, through
  logins, tokens and spellings. `KeysIdentify`, `DeactivationLasts`: renames and starts
  with other keys double no key and revive an agent only where the start gives it
  a new one. `RefusalsExplained`, `SweepSparesLive`: an agent is refused and swept
  away because of what was committed before, if not answered yet, and no request of
  one admin at a time ends in a 500, a rename to a taken name excepted; a 500 has a
  request behind it that took the name or deleted the agent.
- `NoRepeatInPass`, `NothingSkipped`, `CatchesUp`: nothing is handed out twice
  without a restart or a truncation, nothing is skipped while the file only
  grows, and the offset reaches the end of a file that stops changing.
- `DecisionsStand`: a status once committed is undone only by the next request,
  whatever a grouping pass had read before; `ClosedAlertsStamped`: `resolved_at`
  is set for every closed alert, though the two columns are written apart;
  `ClosedAlertsSettle`: one late pass may still write to a closed alert, a second
  never. `ActiveAlertsGrouped`: failing lookups and commits delay the grouping of
  an alert and never end it.
- `ScoresOfOneTraining`: unless a fit ran meanwhile, a score comes from a scaler
  and a model that were fitted together, also after a fit that raised between the
  two. `OutOfUseForGood` describes what the code does, though the docstring promises
  a retraining "every N events" (`ml_engine.py:33`): a process that starts with too
  few rows never trains again, nor does one whose retraining raised half-way; a
  repair would change the property. `AnalysesEnd`: no exception of a prediction is lost.

### Findings

Three runs refute what the repository says of itself:

1. **201 is not 200** (`AcceptedIsSuccess`). The endpoint answers 201
   (`backend/app/api/agents.py:78`), the sender accepts only 200
   (`agent/sender.py:139`). Every batch is stored, retried, stored again and
   never acknowledged; the tests of either side mock their own code.
2. **A counter in the wrong alert** (`CountersStayInTheirWindow`). A window is
   recorded before its alert exists; the second event of the window then finds
   the open alert of the previous one (`alert_service.py:158`).
3. **NOT groups do not negate** (`NotGroupsNegate`). `_evaluar_regla` sends only
   AND and OR groups to `_evaluar_grupo` (`engine.py:212`); "not" is read as a
   condition without a field and always matches, "NOT" is an unknown operator
   and never does. The tests call `_evaluar_grupo` directly.

Seen while modelling, without a run of their own:

- a batch answered 400 is not retried in the same cycle but dequeued and posted
  again in the next (`agent/sender.py:142` says "don't retry");
- two callbacks of one window may commit in the other order and lower the
  counter of their alert;
- an evaluation that waits during a reload goes on over the old rules and may
  open a window for a rule that is no longer loaded;
- two toggles that read the same status act as one; deleting a rule an alert
  refers to is answered 404;
- one rule with malformed conditions (the schema asks for an object and nothing
  more, `schemas/rule.py:27`) keeps every rule behind it from being evaluated
  for the events that reach the malformed part;
- a `refresh` that fails after its commit makes `POST /api/events` store the
  event twice and a batch count a stored event as failed; for an alert it means
  that nobody is told;
- `collector.stop()` says it waits for pending tasks (`collector.py:90`) and
  does not;
- the key alerts are grouped by is always `<rule>:unknown`: `_crear_alerta`
  hands the callback neither `source_ip` nor `source` (`main.py:50-54`);
- when the rules cannot be read at start the engine gets no callbacks and no
  reload reaches it until the next start (`main.py:186-202`, `RestartUnread`),
  while every request that changes a rule is answered as usual;
- two reloads may select in one order and load in the other; the engine keeps
  the older list until the next change (`api/rules.py:200-217`, the second reason
  of `StalenessExplained`);
- a status request whose word is the one it read writes no status: crossing
  another one, it is answered 200 with the status of the other
  (`alert_service.py:121-131`); no order of statuses is enforced, and reopening
  does not clear `resolved_at`;
- a failing risk lookup costs the pass its earlier groups and, unless it was the
  last group, the whole pass (`analysis_service.py` `agrupar_alertas_abiertas`);
  without the table `entity_risks` and with two groups nothing is ever grouped;
  after the last group the pass sets the risk of its alerts to NULL and counts
  the groups it rolled back;
- baselines are computed at start only, although they are said to be "computed as
  events arrive" (`analysis_service.py:352-353`); a process that starts with fewer
  than 50 events never trains its model, for retraining is triggered by scores;
- a fit that raises leaves its object unfitted: every later prediction raises,
  nothing is counted any more, and no retraining comes before the next start;
- two admins who deactivate each other at once leave no active admin, and no
  restart brings one back: the start finds the root user and leaves it as it is;
- renaming an agent to a taken name is answered 500: an `IntegrityError` is not
  the `ValueError` `api/admin.py:155` waits for; so are two creations of one name
  at once;
- an agent that is created or renamed and deleted before the handler reads its row
  again: the request is answered 500 though it was committed
  (`agent_service.py:82-83`, `196-197`);
- a heartbeat takes its time before it waits for the database (`agents.py:184-186`): a
  late one overwrites a newer `last_seen` with an older;
- `GET /auth/me` answers a deactivated user whose token has not expired
  (`api/auth.py:100`, `auth.py:53-55`), whom `require_admin` refuses;
- equal numbers that are written differently, 22 and 22.0, are `eq` but neither is `in` a
  list of the other, nor contains it (`engine.py:334`, `357-358`);
- a sweep during which one of its agents is deleted is rolled back whole;
- a heartbeat answered ok while a sweep runs does not save its agent from the
  sweep, and no endpoint activates an agent again;
- a file truncated and grown past the offset between two polls is read from the
  middle.

## 4. Fairness

- `AgentFairness`: the loops of the agent run for ever and every await of a
  sleep or a file returns, so each of its steps is weakly fair. Stops and kills
  are not fair.
- `WorldFairness`: an HTTP client has a timeout, so `PostFails` is weakly fair.
  That a server answers 200 to infinitely many waiting requests, in time, is an
  assumption about the world (strong fairness): without it nothing can be
  delivered.
- `ServerFairness`: time passes (`WindowSlides` weakly fair); the network
  carries some of the requests that are posted again and again, and storing an
  event does not fail every time (both strongly fair).
- `Pipeline`: every task that can run runs, and every database call and notifier
  returns (both network notifiers have timeouts). Arrivals, failures, analyses,
  shutdown and restart are not fair.
- `FileWatcher`: `_poll_loop` keeps polling (weakly fair); nothing is assumed
  of the programs that write.
- `AnalysisService` (`Fairness`): the event loop runs every task whose await is
  over, fits and predictions return, and the grouping task wakes up. The select of
  a training, a lookup and a commit return or fail; requests, new events, failures,
  shutdown and restart are not fair. `ActiveAlertsGrouped` holds although passes may fail because
  failures are bounded: it shows that one failure does not end the loop.
- `CorrelationEngine`, `RuleSync`, `RiskStore` and `AdminApi` state no liveness
  property: an upsert, a reload or a request may be lost with the process, and
  that the evaluation of an event ends is part of `TasksFinish`.

## 5. The theorems

All are of the form `Spec => ...` for every value of the constants; they use
the named assumptions (`SizesAssumption`, `ServerAssumption`, `EngineAssumption`, `RuleAssumption`,
`RiskAssumption`, `DecayAssumption`, `WatcherAssumption`, `ConditionsAssumption`, `WorkloadAssumption`,
`AdminAssumption`,
`LifecycleAssumption`, `MLAssumption`, `ServiceAssumption`) and nothing else. Type
correctness is proved for all of these modules, so TLC need not check it; only
`FileWatcher` keeps `TypeOK` in its run, where a mutant breaks it.

- **AgentDelivery**: `TypeCorrect`, `AcknowledgedOnlyWhenAccepted`,
  `AcknowledgedInOrder`, `QueueBounded`, `DuplicatesOnlyFromRestarts`,
  `ImplementsPromise`. `SentWasAccepted` is not inductive: a 200 in `reply` must
  be known to answer the current batch. `AgentInv` adds that a waiting request
  carries the current batch (`WaitingIsCurrent`), that a reply of 200 means the
  batch was accepted (`ReplyIsCurrent`), and that the batch is the head of the
  pending rows (`BatchIsHead`), from which order follows. Copies need
  `CopiesInv`: as many copies as restarts, and one more for lines already
  passed in this life. The refinement maps every step to a put, a delivery, an
  acknowledgement of the next items, or a stutter.
- **AgentServer**: `EndpointIsAServer`, `OnlyFirstBatchEverStored`,
  `PoisonAlwaysBlocks`. The first says that every step of the composition is a step
  of `AgentDelivery`, so the theorems above hold of it; `TypeOK` comes with it.
  `EndpointInv` then says what an unknown 201 costs: no 200 is
  ever on its way and no row is marked sent, so every batch, in the agent or on the
  wire, is a head of the queue (`NothingAcknowledged`), and what was stored stands in
  the first batch with no unacceptable event up to it (`StoredFromHead`).
- **CorrelationEngine**: `TypeCorrect`, `WindowsThrottleAlerts`,
  `CountersNeverOvercount`, `CountersAlwaysSettle`. `SpacingInv` says that the current window of a rule
  is its latest, that windows of one rule and one load of the rules are
  `WindowLen` apart, and that a task about to create the alert of a window is
  the only one that does. `CountInv` bounds what windows and waiting tasks carry, not
  only what alerts show. `CountersSettled` holds because a callback finds the right
  alert, which takes more than counters: while nothing disturbs the engine one task
  acts at a time, the alerts of a rule are in the order of its windows, every window
  has its alert or a task about to create it, and a callback works for the youngest
  window of its rule (`SettledInv`); the most recent open alert is then that window's
  (`AlertOfWaiting`).
- **RuleSync**: `TypeCorrect`, `NeverRunsUncommitted`, `StalenessAlwaysExplained`.
  `SyncInv` says of every request in progress that its copy and its rows were
  committed, and that they are what the table holds unless the request is
  marked as overtaken. `StaleInv` adds that the row of a request that has just
  committed is still there unless another commit overtook it, so a request that
  ends because its row vanished is never the one the engine waits for.
- **RiskStore**: `TypeCorrect`, `RiskNeverInvented`, `RestartNeverRevives`.
  Pending upserts must satisfy the same bounds as the rows they will become;
  `ForgetInv` compares entries by their worth at the present instant, and the
  laws of the decay carry that over a tick of the clock.
- **FileWatcher**: `TypeCorrect`, `NoLineTwice`, `NothingIsSkipped`. `PassInv` says
  that the lines of the current pass end where the next read begins. For
  `NothingSkipped`, `GrownInv` adds that the current pass covers every position up to
  the offset and that a line holds no newline but its last position. The lines of a
  read are cut at its newlines, so that they cover what was read (`LinesCover`)
  needs the first newline from a position on: `LeastNatural` takes it from the
  theorem that a well-founded relation has minima, which has no operator for a
  parameter and so stands in for induction.
- **AdminApi**: `TypeCorrect`, `AdminRemainsAlways`, `KeysIdentifyAlways`,
  `DeactivationAlwaysLasts`, `CommitsAlwaysBind`, `RefusalsAlwaysExplained`,
  `SweepsAlwaysSpareLive`. `AdminRemains` says nothing of a deactivation that
  is about to commit, so `AdminInv` adds `Standing`: its caller is an active
  admin still, or overlaps the request that deactivated him. A deactivation that
  commits then leaves its caller, who is not its target (`NotSelf`), or breaks
  the premise of `AdminRemains`; every other step is `Quiet`. `RegistryInv` says
  that ids not given yet have no agent (`Fresh`), that a key is one of the environment
  or carries the id it was made for (`KeyShape`), and that keys and names
  differ, so a new row brings a new key. A commit is one step and its answer a
  later one, so every argument rests on `SameDeed`: of a request that has committed
  (`WroteSettled`) nothing changes but that its answer goes out or is lost. For
  `CommitsBind`, `UserBind` and `AgentBind` say what a committed request left in the
  rows and that no step but a start undoes it (`UsersStay`, `RetiredStay`), so that a
  request that is authorised later sees it. For `RefusalsExplained`, `ServiceEnded`
  traces every agent out of service on the first run to a request that had
  committed, and `ErrorsExcused` says that a handler finds at its commit, and the
  refresh after it, the rows it needs (`Awaits`, `Finds`) unless another request
  committed meanwhile and took them (`Excused`), or gave another agent the name a
  rename asks for (`Clashes`). For `SweepSparesLive`, `SweepsFindSilent` says that of the time
  of the last heartbeat.
- **Pipeline**: `TypeCorrect`, `EffectsNeverDouble`, `TargetsAlwaysTried`,
  `BatchesAlwaysAccounted`, `OperatorsAlwaysFit`, `AlertsAlwaysFollow`,
  `TasksOnlyAdvance`, `DescentEnds`, `NeverStuck`.
  `TypeOK` (in `PipelineProofs`) includes that who works on a row or an alert holds
  one that exists. `EffectsOnce` says nothing of a task in the middle of its event:
  `Once` adds what each await finds in the table (`Hands`: no row before the commit, one
  row in hand after it, at most one untouched row before the fallback) and that
  the alerts of the row in hand are those of earlier rules (`AlertsFit`), so the next is
  none of them. For `EveryTargetTried`, `Heard` says that an alert belongs to one task
  (`OwnAlerts`) and that while it is announced the notifiers tried are the targets
  before the channel in hand (`Telling`). For `BatchAccounted`, `Counts` adds to
  `Once` that a row being evaluated was read back; the only row of a batch that
  anybody evaluates is the one in hand (`WritingInHand`), so what is counted stays
  counted. For `AlertsFollowRules`, `Follows` adds to `Once` that the rules before the
  one in hand did not raise and that each that matched has its alert or was refused
  one (`SeenBefore`); what a task takes for the verdict on its event is the verdict
  on its row (`FollowsHere`). For `OperatorsFit`, `Parsed` says that only what could be
  parsed is stored. What `TasksFinish` rests on besides fairness is
  proved too. `TasksOnlyAdvance`: each step of a task leaves it with fewer events to
  come; or the same and a later stage of its event; or the same stage and fewer
  rules, a later turn with the rule in hand, or fewer notifiers (`Nearer`). That the rule
  in hand is one of the rules, so that the next one is a step forward, comes from
  `Follows`. `DescentEnds`: the order of these measures is well founded. `NeverStuck`:
  while the process runs, an unfinished task has the guard of a step that needs no
  failure.
- **Conditions** (in `PipelineProofs`): `PlainVerdict` says that conditions of AND and
  OR groups of any depth, each on a field and without a number too large, are evaluated
  to what they mean and never raise;
  `AlertsAlwaysFollow` rests on it. `NotGroupsIgnoreEvents` is what is behind the
  refuted `NotGroupsNegate`: a NOT group is decided by its spelling alone.
  `RecursionDefines` shows that the recursive functions over conditions exist and
  satisfy their definitions: functions that satisfy them up to some depth agree, else
  take a condition nested least on which they differ (`LeastNested`); and if up to
  some depth there were none, the least such depth is reached from the one below it. The
  same choice of a least condition carries `PlainVerdict` down the groups.
  `OperatorsFitOn` takes the operators one by one: that a text is contained in, and a
  prefix and a suffix of, one written like it is `PartsContained`; that two numbers
  compare in one way however they are written, `FloatUnique`.
- **AlertLifecycle**: `TypeCorrect`, `DecisionsAlwaysStand`,
  `ClosedAlertsAlwaysStamped`, `ClosedAlertsAlwaysSettle`. `LifecycleInv` adds what
  a session's reading is worth: the status a request has read is the row's unless
  another request committed since (`ReadingsHold`), which is why a commit that
  leaves the status unwritten still leaves the one asked for; requests that
  committed are past their commit and cannot arrive again (`CommittersPast`); and
  an alert written after it was closed is not in the hands of the pass any more
  (`WrittenAlertsReleased`).
- **MLEngine**: `ScorerTypeCorrect`, `ScoresAlwaysOfOneTraining`,
  `OutOfUseAlwaysForGood`. `MLInv` says that only the training that holds the loop
  is past its select (`OneFit`), that scaler and model are of one training when no
  fit is running and the model is fitted (`FittedTogether`), that a prediction no
  fit disturbed holds the present scaler (`WorkerUpToDate`), and that nothing
  happens before the first training (`NothingBefore`). `OutOfUseForGood` needs no more:
  only a fit makes a scorer usable, a training only starts at the start of the
  process or with a score that is counted, and a score needs a prediction over
  fitted objects; out of use there is neither left.
- **AnalysisService**: `ServiceKeepsLifecycle` and `ServiceKeepsScorer`: the
  service implements `AlertLifecycle` and `MLEngine`; `ServiceCorrect` draws the
  conclusion for the properties of both.

Every invariant and every action property of the runs is proved. Only model-checked:
liveness (`QueuedEventuallySent`, `FirstBatchEventuallyStored`, `CatchesUp`,
`TasksFinish`, `ActiveAlertsGrouped`, `AnalysesEnd`), for TLAPS has no rules for
fairness and ENABLED. Of `TasksFinish`, the measure and the guards are proved (see
Pipeline above); only the step from there to "a fair task finishes" is left to TLC.

## 6. Modelling assumptions

- Awaits are the only points where a process interleaves; database statements
  take effect atomically while their task waits.
- `created_at` orders alerts as their commits do; an alert is open or not (the
  other statuses are one to the engine); a rule that is not active is disabled.
- Clocks do not run backwards.
- Texts, scores and contents are symbols, points and versions. UTF-8 decoding
  and CR LF do not change where lines end.
- Two numerals `float()` reads in the same text denote one number, and a number a
  float holds is held exactly; numbers too large for one stand in conditions only (the
  numbers of an event are ports).
- Both watchers read every watched file in every poll; watchdog's events add
  nothing. One file stands for all (offsets are independent).
- The bounds (`Max...`) limit what the environment may do, not the code, with
  the exception of `MaxSize`, `BatchSize`, `MaxRetries`, `Burst`, `MaxRequests`,
  `WindowLen` and `MaxRisk`, which are the code's own settings.

## 7. Not modelled

- Statistics, baselines and model scores: floating-point arithmetic on one
  event.
- Parsers: pure functions of one line; their outcomes are inputs (`Unparsed`,
  `Poison`, `Unparsable`). Dotted field names: no event of the server has nested
  fields. Regular expressions other than literal texts and ill-formed ones.
- Delivery of mail and webhooks, sockets, hashing, JWT, the frontend, the demo
  script, migrations: input and output or library code.
- A start without the database or the collector: the process then has nothing
  to run on, or no datagrams. Two toggles at once and the answer of a delete that
  failed are in `RuleSync`, without a property of their own.
- Threat intelligence: no code of the application creates the service.
- The callbacks of the engine against status requests: `CorrelationEngine` lets an
  alert leave the status open at any time (`ChangeStatus`), `AlertLifecycle` lets
  one be inserted at any time, and neither needs more of the other.
- The connection pool: every database call of `Pipeline` may fail, for whatever
  reason.

## 8. Plan

Done so far: delivery (agent, endpoint, watcher), correlation and rules, the
pipeline, entity risk, the registry, the life of alerts and the analysis service
with its scorer. Next:

1. The lifespan as a module of its own: a start without a collector or a
   database (`main.py:103-262`).
2. The cache of `threat_intel_service.py`, should the application come to use it.
