--------------------------- MODULE AgentDelivery ---------------------------
(***************************************************************************)
(* The remote agent (agent/agent.py) with its persistent queue             *)
(* (agent/queue.py), its HTTP sender (agent/sender.py) and its rate        *)
(* limiter (agent/ratelimit.py), against a server and a network that may   *)
(* answer with any status code of Codes, late, or never.                   *)
(*                                                                         *)
(* The agent is one asyncio event loop.  Its poll cycle never really       *)
(* suspends, so the sender makes no step while read lines are still being  *)
(* processed (LoopFree), but the process may be killed between two         *)
(* enqueues.  The lines of all watched files form one stream: line n is    *)
(* the n-th line written.                                                  *)
(***************************************************************************)
EXTENDS Integers, Sequences, FiniteSets

CONSTANTS
    MaxLines,     \* bound: lines the watched files ever receive
    Unparsed,     \* the lines no parser accepts (parse returns None)
    MaxSize,      \* EventQueue max_size: pending rows allowed
    BatchSize,    \* config batch_size: rows taken by one dequeue
    MaxRetries,   \* EventSender max_retries
    Burst,        \* capacity of the token bucket
    Codes,        \* status codes the server may answer with
    MaxRestarts   \* bound: times the process is stopped or killed

\* Every size the configuration gives is a positive whole number; MaxRetries
\* and the bound on restarts may be zero.
ASSUME SizesAssumption ==
    /\ MaxLines \in Nat /\ Unparsed \subseteq 1..MaxLines
    /\ MaxSize \in Nat \ {0} /\ BatchSize \in Nat \ {0}
    /\ MaxRetries \in Nat /\ Burst \in Nat \ {0}
    /\ Codes \subseteq Nat \ {0}
    /\ MaxRestarts \in Nat

VARIABLES
    written,   \* lines the watched files hold so far
    offset,    \* the watcher's position: lines it has handed to the poll cycle
    pos,       \* lines the poll cycle is done with (pos = offset between cycles)
    tokens,    \* tokens in the rate limiter's bucket
    rows,      \* SQLite table events: the line of row id 1, 2, ...
    sent,      \* ids of the rows whose status is 'sent'
    phase,     \* the agent's send loop: "down", "idle", "posting", "backoff"
    batch,     \* ids dequeued by the current send cycle
    attempt,   \* attempt number inside send_batch
    wire,      \* requests the server has not answered yet
    reply,     \* status code on its way to the waiting client, or NoReply
    accepted,  \* history: row ids of requests the server answered with 200
    restarts   \* history: times the process was stopped or killed

fileVars  == <<written, offset, pos, tokens>>
queueVars == <<rows, sent>>
sendVars  == <<phase, batch, attempt, reply>>
vars == <<fileVars, queueVars, sendVars, wire, accepted, restarts>>

NoReply  == 0
Ok       == 200
Refusals == {400, 401, 403}   \* send_batch returns False at once

\* A request on the wire; waiting tells whether the client that posted it
\* still waits for its answer.
Requests == [ids : SUBSET (DOMAIN rows), waiting : BOOLEAN]

Pending == DOMAIN rows \ sent

LoopFree == phase # "down" /\ pos = offset

TypeOK ==
    /\ written \in 0..MaxLines
    /\ offset \in 0..written
    /\ pos \in 0..offset
    /\ tokens \in 0..Burst
    /\ rows \in Seq(1..MaxLines)
    /\ sent \subseteq DOMAIN rows
    /\ phase \in {"down", "idle", "posting", "backoff"}
    /\ batch \subseteq DOMAIN rows
    /\ attempt \in 0..MaxRetries
    /\ wire \subseteq Requests
    /\ reply \in Codes \cup {NoReply}
    /\ accepted \subseteq DOMAIN rows
    /\ restarts \in 0..MaxRestarts

Init ==
    /\ written = 0 /\ offset = 0 /\ pos = 0 /\ tokens = Burst
    /\ rows = <<>> /\ sent = {}
    /\ phase = "down" /\ batch = {} /\ attempt = 0 /\ reply = NoReply
    /\ wire = {} /\ accepted = {} /\ restarts = 0

-----------------------------------------------------------------------------
(* The watched files and the process. *)

WriteLine ==
    /\ written < MaxLines
    /\ written' = written + 1
    /\ UNCHANGED <<offset, pos, tokens, queueVars, sendVars, wire, accepted, restarts>>

\* run(): the three loops start.  Watcher offsets are memory only, so a
\* restarted agent starts again at the beginning of every file.
Run ==
    /\ phase = "down"
    /\ phase' = "idle"
    /\ UNCHANGED <<fileVars, queueVars, batch, attempt, reply, wire, accepted, restarts>>

\* What any end of the process loses: offsets, tokens, the batch being sent.
\* The queue's file and the requests already on the wire survive.
LoseMemory ==
    /\ restarts < MaxRestarts
    /\ restarts' = restarts + 1
    /\ offset' = 0 /\ pos' = 0 /\ tokens' = Burst
    /\ phase' = "down" /\ batch' = {} /\ attempt' = 0 /\ reply' = NoReply
    /\ wire' = { [r EXCEPT !.waiting = FALSE] : r \in wire }
    /\ UNCHANGED <<written, queueVars, accepted>>

\* stop(): the tasks are cancelled at an await, never inside a poll cycle.
Stop == LoopFree /\ LoseMemory

\* The process is killed, possibly between two enqueues of one poll cycle.
Kill == phase # "down" /\ pos # offset /\ LoseMemory

-----------------------------------------------------------------------------
(* Poll cycle: watcher -> parser -> rate limiter -> queue. *)

\* A poll that hands out the lines already processed once more.
PollFiles_OffsetKept ==
    /\ LoopFree
    /\ offset < written
    /\ offset' = written /\ pos' = 0
    /\ UNCHANGED <<written, tokens, queueVars, sendVars, wire, accepted, restarts>>

\* watcher.poll() advances every offset before any line is processed.
PollFiles ==
    /\ LoopFree
    /\ offset < written
    /\ offset' = written
    /\ UNCHANGED <<written, pos, tokens, queueVars, sendVars, wire, accepted, restarts>>

\* The line the loop of _process_lines looks at.
Processing(n) == phase # "down" /\ pos < offset /\ n = pos + 1

SkipLine(n) ==
    /\ Processing(n)
    /\ n \in Unparsed
    /\ pos' = n
    /\ UNCHANGED <<written, offset, tokens, queueVars, sendVars, wire, accepted, restarts>>

DropLine(n) ==
    /\ Processing(n)
    /\ n \notin Unparsed
    /\ tokens = 0
    /\ pos' = n
    /\ UNCHANGED <<written, offset, tokens, queueVars, sendVars, wire, accepted, restarts>>

\* allow() takes a token, enqueue() inserts a pending row.
EnqueueLine_OneTooMany(n) ==
    /\ Processing(n)
    /\ n \notin Unparsed
    /\ tokens > 0
    /\ Cardinality(Pending) <= MaxSize
    /\ tokens' = tokens - 1
    /\ rows' = Append(rows, n)
    /\ pos' = n
    /\ UNCHANGED <<written, offset, sent, sendVars, wire, accepted, restarts>>

EnqueueLine(n) ==
    /\ Processing(n)
    /\ n \notin Unparsed
    /\ tokens > 0
    /\ Cardinality(Pending) < MaxSize
    /\ tokens' = tokens - 1
    /\ rows' = Append(rows, n)
    /\ pos' = n
    /\ UNCHANGED <<written, offset, sent, sendVars, wire, accepted, restarts>>

\* The queue is full: enqueue() raises OverflowError, which _process_lines
\* does not catch.  _poll_loop logs it, and this line and every line read
\* after it in this cycle are gone: their offsets have been passed.
OverflowLine(n) ==
    /\ Processing(n)
    /\ n \notin Unparsed
    /\ tokens > 0
    /\ Cardinality(Pending) >= MaxSize
    /\ tokens' = tokens - 1
    /\ pos' = offset
    /\ UNCHANGED <<written, offset, queueVars, sendVars, wire, accepted, restarts>>

ProcessLine == \E n \in 1..MaxLines :
    SkipLine(n) \/ DropLine(n) \/ EnqueueLine(n) \/ OverflowLine(n)

\* Time passes: the bucket refills up to its capacity.
Refill ==
    /\ phase # "down"
    /\ tokens < Burst
    /\ tokens' = tokens + 1
    /\ UNCHANGED <<written, offset, pos, queueVars, sendVars, wire, accepted, restarts>>

-----------------------------------------------------------------------------
(* Send cycle: dequeue -> send_batch -> mark_sent. *)

\* A queue that hands out the newest rows first.
NextBatch_NewestFirst ==
    { i \in Pending : Cardinality({j \in Pending : j >= i}) <= BatchSize }

\* SELECT ... WHERE status = 'pending' ORDER BY id ASC LIMIT batch_size
NextBatch ==
    { i \in Pending : Cardinality({j \in Pending : j <= i}) <= BatchSize }

Post(ids) == wire' = wire \cup { [ids |-> ids, waiting |-> TRUE] }

\* The client gives up on the answer of its outstanding request; the server
\* may still process it.
Abandon == wire' = { [r EXCEPT !.waiting = FALSE] : r \in wire }

\* An agent that waits until a full batch is pending.
DequeueBatch_FullOnly ==
    /\ LoopFree
    /\ phase = "idle"
    /\ Cardinality(Pending) >= BatchSize
    /\ batch' = NextBatch
    /\ phase' = "posting" /\ attempt' = 0
    /\ Post(NextBatch)
    /\ UNCHANGED <<fileVars, queueVars, reply, accepted, restarts>>

\* dequeue() and the first post; an empty queue ends the cycle.
DequeueBatch ==
    /\ LoopFree
    /\ phase = "idle"
    /\ Pending # {}
    /\ batch' = NextBatch
    /\ phase' = "posting" /\ attempt' = 0
    /\ Post(NextBatch)
    /\ UNCHANGED <<fileVars, queueVars, reply, accepted, restarts>>

\* A sender that takes any answer for an acknowledgement.
ReceiveOk_AnyAnswer ==
    /\ LoopFree
    /\ phase = "posting"
    /\ reply # NoReply
    /\ sent' = sent \cup batch
    /\ phase' = "idle" /\ batch' = {} /\ attempt' = 0 /\ reply' = NoReply
    /\ UNCHANGED <<fileVars, rows, wire, accepted, restarts>>

\* Status 200: send_batch returns True and the same step marks the rows.
ReceiveOk ==
    /\ LoopFree
    /\ phase = "posting"
    /\ reply = Ok
    /\ sent' = sent \cup batch
    /\ phase' = "idle" /\ batch' = {} /\ attempt' = 0 /\ reply' = NoReply
    /\ UNCHANGED <<fileVars, rows, wire, accepted, restarts>>

\* A sender that gets rid of a batch the server refuses.
ReceiveRefusal_Discards ==
    /\ LoopFree
    /\ phase = "posting"
    /\ reply \in Refusals
    /\ sent' = sent \cup batch
    /\ phase' = "idle" /\ batch' = {} /\ attempt' = 0 /\ reply' = NoReply
    /\ UNCHANGED <<fileVars, rows, wire, accepted, restarts>>

\* A sender that gets rid of a batch answered 400, as bad data.
ReceiveRefusal_DiscardsBad ==
    /\ LoopFree
    /\ phase = "posting"
    /\ reply \in Refusals
    /\ sent' = IF reply = 400 THEN sent \cup batch ELSE sent
    /\ phase' = "idle" /\ batch' = {} /\ attempt' = 0 /\ reply' = NoReply
    /\ UNCHANGED <<fileVars, rows, wire, accepted, restarts>>

\* Status 400, 401 or 403: send_batch returns False, the rows stay pending.
ReceiveRefusal ==
    /\ LoopFree
    /\ phase = "posting"
    /\ reply \in Refusals
    /\ phase' = "idle" /\ batch' = {} /\ attempt' = 0 /\ reply' = NoReply
    /\ UNCHANGED <<fileVars, queueVars, wire, accepted, restarts>>

\* Any other answer, a timeout or a connection error: back off, or give the
\* cycle up after the last attempt.
AttemptFailed ==
    /\ reply' = NoReply
    /\ IF attempt < MaxRetries
         THEN phase' = "backoff" /\ UNCHANGED <<batch, attempt>>
         ELSE phase' = "idle" /\ batch' = {} /\ attempt' = 0
    /\ UNCHANGED <<fileVars, queueVars, accepted, restarts>>

ReceiveOther ==
    /\ LoopFree
    /\ phase = "posting"
    /\ reply \notin Refusals \cup {Ok, NoReply}
    /\ AttemptFailed
    /\ UNCHANGED wire

PostFails ==
    /\ LoopFree
    /\ phase = "posting"
    /\ AttemptFailed
    /\ Abandon

\* The backoff sleep ends and the same batch is posted again.
RetryPost ==
    /\ LoopFree
    /\ phase = "backoff"
    /\ attempt' = attempt + 1
    /\ phase' = "posting"
    /\ Post(batch)
    /\ UNCHANGED <<fileVars, queueVars, batch, reply, accepted, restarts>>

-----------------------------------------------------------------------------
(* The network and the server, as the agent sees them. *)

\* A request is handled once and answered; the answer reaches the agent only
\* when its client still waits.
Answer(r, code) ==
    /\ r \in wire
    /\ wire' = wire \ {r}
    /\ accepted' = IF code = Ok THEN accepted \cup r.ids ELSE accepted
    /\ reply' = IF r.waiting THEN code ELSE reply
    /\ UNCHANGED <<fileVars, queueVars, phase, batch, attempt, restarts>>

\* A request is lost before the server sees it.
LoseRequest(r) ==
    /\ r \in wire
    /\ wire' = wire \ {r}
    /\ UNCHANGED <<fileVars, queueVars, sendVars, accepted, restarts>>

-----------------------------------------------------------------------------
AgentNext ==
    \/ Run \/ Stop \/ Kill
    \/ PollFiles \/ ProcessLine \/ Refill
    \/ DequeueBatch \/ ReceiveOk \/ ReceiveRefusal \/ ReceiveOther
    \/ PostFails \/ RetryPost

ServerNext == \E r \in wire :
    \/ \E code \in Codes : Answer(r, code)
    \/ LoseRequest(r)

Next == WriteLine \/ AgentNext \/ ServerNext

Spec == Init /\ [][Next]_vars

\* The loops of the agent keep running.
AgentFairness ==
    /\ WF_vars(Run)
    /\ WF_vars(PollFiles)
    /\ WF_vars(ProcessLine)
    /\ WF_vars(DequeueBatch)
    /\ WF_vars(ReceiveOk)
    /\ WF_vars(ReceiveRefusal)
    /\ WF_vars(ReceiveOther)
    /\ WF_vars(RetryPost)

\* What is asked of the outside world: of the posts the agent keeps making,
\* some are answered with 200 and the answer arrives in time, and a post that
\* is never answered times out.
WorldFairness ==
    /\ WF_vars(PostFails)
    /\ SF_vars(\E r \in wire : r.waiting /\ Answer(r, Ok))
    /\ SF_vars(ReceiveOk)

FairSpec == Spec /\ AgentFairness /\ WorldFairness

-----------------------------------------------------------------------------
(* Safety. *)

\* A row is marked 'sent' only after the server answered 200 to a request that
\* carried it: no stale, refused or missing answer acknowledges a row
\* (mark_sent is called only for the batch whose post returned 200).
SentWasAccepted == sent \subseteq accepted

\* Rows leave the queue in the order they entered it: no row is marked sent
\* while an older one is pending, over retries, restarts and lost answers.
SentInOrder == \A i \in sent : \A j \in 1..i : j \in sent

\* The queue never holds more than max_size pending rows, restarts included.
PendingBounded == Cardinality(Pending) <= MaxSize

\* One life of the agent enqueues a line at most once: a line read n times
\* means n - 1 restarts (offsets start at 0 again), never a poll cycle that
\* went over the same lines.
CopiesBoundedByRestarts ==
    \A n \in 1..MaxLines :
        Cardinality({i \in DOMAIN rows : rows[i] = n}) <= restarts + 1

\* Once a line is in the queue's file it is eventually acknowledged, over
\* stops, lost requests, refusals and exhausted retries, if the world answers
\* 200 often enough.
QueuedEventuallySent ==
    \A i \in 1..(MaxLines * (MaxRestarts + 1)) :
        (i \in DOMAIN rows) ~> (i \in sent)

-----------------------------------------------------------------------------
(* The promise of the queue: at-least-once, in order. *)

Promise == INSTANCE AtLeastOnceQueue
             WITH queued <- Len(rows), delivered <- accepted, acked <- Cardinality(sent)

PromiseSpec == Promise!Spec
=============================================================================
