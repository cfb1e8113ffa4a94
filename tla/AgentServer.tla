---------------------------- MODULE AgentServer ----------------------------
(***************************************************************************)
(* The agent of AgentDelivery talking to the server of this repository:    *)
(* POST /api/v2/events (backend/app/api/agents.py) behind require_agent    *)
(* (backend/app/auth.py) and the sliding-window limiter                    *)
(* (backend/app/ratelimit.py).  Where AgentDelivery lets the server answer *)
(* anything, here the answer is what the endpoint computes, and the events *)
(* it stores are counted.                                                  *)
(***************************************************************************)
EXTENDS AgentDelivery

CONSTANTS
    Incomplete,    \* lines whose parsed event lacks event_type, severity or
                   \* message: every line of SyslogParser, which fills neither
                   \* event_type nor severity
    IllTyped,      \* lines whose event has a field AgentEventItem refuses: a
                   \* port or a timestamp that is none, a message of JSON that
                   \* is no text
    Unstorable,    \* lines whose event no table row takes (a severity longer
                   \* than its column): processing it fails every time
    MaxBatch,      \* events one request may carry; the code has 100, and the
                   \* agent's batch_size is whatever its configuration says
    MaxRequests,   \* RateLimiter max_requests per window
    MaxCopies      \* bound: copies of one line counted, MaxCopies or more

ASSUME ServerAssumption ==
    /\ Incomplete \cup IllTyped \cup Unstorable \subseteq 1..MaxLines
    /\ {201, 400, 401, 403, 422, 429, 503} \subseteq Codes
    /\ MaxBatch \in Nat \ {0}
    /\ MaxRequests \in Nat \ {0}
    /\ MaxCopies \in Nat \ {0}

VARIABLES
    agentRow,  \* the agent's row in table agents: "active", "inactive" or
               \* "deleted", when its key is no agent's
    pipeline,  \* app.state.pipeline is there (the lifespan of main.py sets it;
               \* an application mounted without its lifespan has none)
    quota,     \* requests the limiter counted in the current window
    copies     \* events stored per line

serverVars == <<agentRow, pipeline, quota, copies>>
allVars == <<vars, serverVars>>

Created         == 201
BadRequest      == 400
Unauthorized    == 401
Forbidden       == 403
Unprocessable   == 422
TooManyRequests == 429
Unavailable     == 503

\* The events of a batch, and the lines that make a batch that holds one of
\* them unacceptable.
Lines(ids) == { rows[i] : i \in ids }
Poison     == Incomplete \cup IllTyped

ServerInit ==
    /\ Init
    /\ agentRow = "active" /\ pipeline \in BOOLEAN /\ quota = 0
    /\ copies = [n \in 1..MaxLines |-> 0]

-----------------------------------------------------------------------------
(* The endpoint. *)

Refuse(r, code) == Answer(r, code) /\ UNCHANGED <<agentRow, pipeline, copies>>

\* The batch is stored event by event; the events in failed are counted as
\* failed and the rest of the batch continues.
StoreBatch(r, failed) ==
    copies' = [n \in 1..MaxLines |->
                 LET stored == Cardinality({i \in r.ids \ failed : rows[i] = n})
                 IN  IF copies[n] + stored > MaxCopies
                       THEN MaxCopies ELSE copies[n] + stored]

\* What processing a batch may fail at: what no row takes, and anything else.
Failures(r) == { failed \in SUBSET r.ids : \A i \in r.ids : rows[i] \in Unstorable => i \in failed }

\* require_agent: the key of the request is no agent's.
DenyUnknown(r) ==
    /\ agentRow = "deleted"
    /\ Refuse(r, Unauthorized)
    /\ UNCHANGED quota

\* require_agent: a deactivated agent is answered 403 before the limiter.
DenyInactive(r) ==
    /\ agentRow = "inactive"
    /\ Refuse(r, Forbidden)
    /\ UNCHANGED quota

\* A limiter that answers 429 and lets the request go on.
LimitRate_StillHandled(r) ==
    /\ agentRow = "active" /\ quota = MaxRequests
    /\ reply' = IF r.waiting THEN TooManyRequests ELSE reply
    /\ UNCHANGED <<fileVars, queueVars, phase, batch, attempt, wire, accepted, restarts>>
    /\ UNCHANGED serverVars

\* RateLimiter.__call__: the window is full.
LimitRate(r) ==
    /\ agentRow = "active" /\ quota = MaxRequests
    /\ Refuse(r, TooManyRequests)
    /\ UNCHANGED quota

\* RateLimiter.__call__: the request is counted and goes on.
Admit == agentRow = "active" /\ quota < MaxRequests /\ quota' = quota + 1

\* FastAPI refuses a body that is no AgentEventBatch; the dependencies of the
\* route have run by then.
RejectTypes(r) ==
    /\ Admit
    /\ Lines(r.ids) \cap IllTyped # {}
    /\ Refuse(r, Unprocessable)

\* More than MaxBatch events, or one without a required field, and the whole
\* batch is refused.  (This agent posts no empty batch.)
RejectBatch(r) ==
    /\ Admit
    /\ Lines(r.ids) \cap IllTyped = {}
    /\ Cardinality(r.ids) > MaxBatch \/ Lines(r.ids) \cap Incomplete # {}
    /\ Refuse(r, BadRequest)

Valid(r) == Cardinality(r.ids) <= MaxBatch /\ Lines(r.ids) \cap Poison = {}

\* No pipeline to hand the events to.
RefuseUnavailable(r) ==
    /\ Admit
    /\ Valid(r) /\ ~pipeline
    /\ Refuse(r, Unavailable)

\* An endpoint without the check of the required fields.
StoreEvents_Unvalidated(r) ==
    /\ Admit
    /\ Cardinality(r.ids) <= MaxBatch /\ Lines(r.ids) \cap IllTyped = {} /\ pipeline
    /\ \E failed \in Failures(r) : StoreBatch(r, failed)
    /\ Answer(r, Created)
    /\ UNCHANGED <<agentRow, pipeline>>

\* ingestar_eventos_batch: the route answers 201 whatever failed.
StoreEvents(r) ==
    /\ Admit
    /\ Valid(r) /\ pipeline
    /\ \E failed \in Failures(r) : StoreBatch(r, failed)
    /\ Answer(r, Created)
    /\ UNCHANGED <<agentRow, pipeline>>

Ingest == \E r \in wire :
    \/ DenyUnknown(r) \/ DenyInactive(r) \/ LimitRate(r)
    \/ RejectTypes(r) \/ RejectBatch(r) \/ RefuseUnavailable(r)
    \/ StoreEvents(r)

\* desactivar_agente; no request sets active back to True (only the start of
\* the server does, for the demo agent).
Deactivate ==
    /\ agentRow = "active"
    /\ agentRow' = "inactive"
    /\ UNCHANGED <<vars, pipeline, quota, copies>>

\* eliminar_agente; an agent created again gets another key.
Delete ==
    /\ agentRow # "deleted"
    /\ agentRow' = "deleted"
    /\ UNCHANGED <<vars, pipeline, quota, copies>>

\* A limiter that forgets old entries only when it holds more than it allows.
WindowSlides_OverLimit ==
    /\ quota > MaxRequests
    /\ quota' = quota - 1
    /\ UNCHANGED <<vars, agentRow, pipeline, copies>>

\* Entries older than the window are removed.
WindowSlides ==
    /\ quota > 0
    /\ quota' = quota - 1
    /\ UNCHANGED <<vars, agentRow, pipeline, copies>>

\* The server starts again: the limiter counts in memory.  (A batch cut short by
\* it is one whose client has given up and whose last events failed.)
RestartServer ==
    /\ quota' = 0
    /\ UNCHANGED <<vars, agentRow, pipeline, copies>>

-----------------------------------------------------------------------------
AgentStep == AgentNext /\ UNCHANGED serverVars

WorldStep ==
    /\ WriteLine \/ \E r \in wire : LoseRequest(r)
    /\ UNCHANGED serverVars

ServerNextState == AgentStep \/ WorldStep \/ Ingest
    \/ Deactivate \/ Delete \/ WindowSlides \/ RestartServer

ServerSpec == ServerInit /\ [][ServerNextState]_allVars

\* The agent's loops and the server run; the network keeps carrying some of
\* the posts, and of the batches processed again and again each event is
\* stored at least once.
ServerFairness ==
    /\ WF_allVars(Run /\ UNCHANGED serverVars)
    /\ WF_allVars(PollFiles /\ UNCHANGED serverVars)
    /\ WF_allVars(ProcessLine /\ UNCHANGED serverVars)
    /\ WF_allVars(DequeueBatch /\ UNCHANGED serverVars)
    /\ WF_allVars((ReceiveOk \/ ReceiveRefusal \/ ReceiveOther) /\ UNCHANGED serverVars)
    /\ WF_allVars(PostFails /\ UNCHANGED serverVars)
    /\ WF_allVars(RetryPost /\ UNCHANGED serverVars)
    /\ WF_allVars(WindowSlides)
    /\ \A n \in (1..MaxLines) \ (Unstorable \cup Poison) :
           SF_allVars(\E r \in wire : StoreEvents(r) /\ copies'[n] > copies[n])

FairServerSpec == ServerSpec /\ ServerFairness

-----------------------------------------------------------------------------
(* Properties. *)

\* A batch with one incomplete or ill-typed event is refused as a whole: such an
\* event is never stored, and it keeps every event queued after it from being
\* stored (the body is validated before the endpoint runs, the required fields
\* before any processing, and the agent posts the same head of its queue again).
BlockedByPoison ==
    \A i \in DOMAIN rows : rows[i] \in Poison =>
        /\ copies[rows[i]] = 0
        /\ \A j \in DOMAIN rows : (j > i /\ copies[rows[j]] > 0) =>
               \E k \in 1..(i - 1) : rows[k] = rows[j]

\* The route answers 201 and the sender takes only 200 for success: nothing
\* is ever acknowledged and only the first batch_size rows ever reach the
\* event store, however many times they are sent.
OnlyFirstBatchStored ==
    \A n \in 1..MaxLines : copies[n] > 0 =>
        \E i \in 1..BatchSize : i \in DOMAIN rows /\ rows[i] = n

\* The rows of the first batch, once that many are queued.
FirstBatch == 1..(IF Len(rows) < BatchSize THEN Len(rows) ELSE BatchSize)

\* An event of the first batch_size rows is eventually stored, over lost
\* requests, timeouts, rate limiting, events that fail and restarts of the
\* agent.  What may keep it out for ever: no row takes it; the agent is
\* deactivated or deleted (require_agent answers 403 or 401); the server runs
\* without a pipeline (503); the batch it is in has an ill-typed (422) or an
\* incomplete event or more than MaxBatch of them (400), which the agent posts
\* again as it is.
FirstBatchEventuallyStored ==
    \A n \in (1..MaxLines) \ (Unstorable \cup Poison) :
        n \in Lines(FirstBatch)
        ~> \/ copies[n] > 0
           \/ agentRow # "active" \/ ~pipeline
           \/ Lines(FirstBatch) \cap Poison # {} \/ Cardinality(FirstBatch) > MaxBatch

\* The endpoint is one of the servers AgentDelivery allows: what is shown there
\* for any server holds for this one.
RefinesAgentDelivery == Spec

-----------------------------------------------------------------------------
(* A statement of the code that these two modules refute. *)

\* send_batch returns "True if the batch was sent successfully"
\* (agent/sender.py:123): a batch the server has processed is not treated as a
\* failed attempt.
AcceptedIsSuccess == [][ReceiveOther => reply # Created]_allVars
=============================================================================
