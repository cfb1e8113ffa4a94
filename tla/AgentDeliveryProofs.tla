------------------------ MODULE AgentDeliveryProofs ------------------------
(***************************************************************************)
(* Proofs about AgentDelivery, for every value of its constants: the       *)
(* queue acknowledges rows in order and only after the server answered     *)
(* 200, and the queue implements the promise of AtLeastOnceQueue.  At the  *)
(* end, about AgentServer: the endpoint is one of the servers allowed, and *)
(* nothing behind the first batch or an incomplete event is ever stored.   *)
(***************************************************************************)
EXTENDS AgentServer, FiniteSetTheorems, TLAPS

\* A request a client waits for is the one that carries the current batch, and
\* no answer is on its way at the same time.
WaitingIsCurrent ==
    \A r \in wire : r.waiting => phase = "posting" /\ r.ids = batch /\ reply = NoReply

\* The answer on its way belongs to the current batch.
ReplyIsCurrent ==
    /\ reply # NoReply => phase = "posting"
    /\ reply = Ok => batch \subseteq accepted

\* The batch is an initial piece of the pending rows.
BatchIsHead ==
    /\ batch \subseteq Pending
    /\ \A i \in batch : \A j \in Pending : j < i => j \in batch
    /\ phase \in {"down", "idle"} => batch = {}

\* send_batch sleeps only when another attempt is left.
BackoffHasRetry == phase = "backoff" => attempt < MaxRetries

\* The inductive invariant: the two safety properties with what ties requests,
\* answers and rows together.
AgentInv ==
    /\ TypeOK
    /\ WaitingIsCurrent
    /\ ReplyIsCurrent
    /\ BatchIsHead
    /\ BackoffHasRetry
    /\ SentInOrder
    /\ SentWasAccepted

-----------------------------------------------------------------------------
(* Facts about the operators. *)

\* dequeue() returns pending rows and leaves out no pending row older than one
\* it returns (ORDER BY id LIMIT batch_size).
LEMMA NextBatchIsHead ==
    ASSUME rows \in Seq(1..MaxLines)
    PROVE  /\ NextBatch \subseteq Pending
           /\ \A i \in NextBatch : \A j \in Pending : j < i => j \in NextBatch
<1>1. NextBatch \subseteq Pending
  BY DEF NextBatch
<1>2. SUFFICES ASSUME NEW i \in NextBatch, NEW j \in Pending, j < i
               PROVE  j \in NextBatch
  BY <1>1
<1> DEFINE UpTo(k) == {q \in Pending : q <= k}
<1>3. DOMAIN rows = 1..Len(rows) /\ Len(rows) \in Nat
  OBVIOUS
<1>4. IsFiniteSet(UpTo(i))
  <2>1. UpTo(i) \subseteq 1..Len(rows)
    BY <1>3 DEF Pending
  <2>2. IsFiniteSet(1..Len(rows))
    BY <1>3, FS_Interval
  <2>3. QED
    BY <2>1, <2>2, FS_Subset
<1>5. UpTo(j) \subseteq UpTo(i)
  BY <1>1, <1>2, <1>3 DEF Pending
<1>6. /\ IsFiniteSet(UpTo(j))
      /\ Cardinality(UpTo(j)) <= Cardinality(UpTo(i))
  BY <1>4, <1>5, FS_Subset
<1>7. Cardinality(UpTo(i)) <= BatchSize
  BY <1>2 DEF NextBatch
<1>8. Cardinality(UpTo(i)) \in Nat /\ Cardinality(UpTo(j)) \in Nat
  BY <1>4, <1>6, FS_CardinalityType
<1>9. Cardinality(UpTo(j)) <= BatchSize
  BY <1>6, <1>7, <1>8, SizesAssumption DEF SizesAssumption
<1>10. QED
  BY <1>2, <1>9 DEF NextBatch

\* Once a request is abandoned no client waits for it; it carries the same rows.
LEMMA AbandonedRequests ==
    ASSUME NEW S, wire \subseteq [ids : S, waiting : BOOLEAN], Abandon
    PROVE  /\ wire' \subseteq [ids : S, waiting : BOOLEAN]
           /\ \A r \in wire' : r.waiting = FALSE
<1>1. SUFFICES ASSUME NEW q \in wire
               PROVE  /\ [q EXCEPT !.waiting = FALSE] \in [ids : S, waiting : BOOLEAN]
                      /\ [q EXCEPT !.waiting = FALSE].waiting = FALSE
  BY DEF Abandon
<1>2. q \in [ids : S, waiting : BOOLEAN]
  OBVIOUS
<1>3. QED
  BY <1>2

\* A posted batch is one more request that a client waits for.
LEMMA PostedRequests ==
    ASSUME NEW S, wire \subseteq [ids : S, waiting : BOOLEAN],
           NEW ids \in S, Post(ids)
    PROVE  /\ wire' \subseteq [ids : S, waiting : BOOLEAN]
           /\ \A r \in wire' : r \in wire \/ r.ids = ids
<1>1. [ids |-> ids, waiting |-> TRUE] \in [ids : S, waiting : BOOLEAN]
  OBVIOUS
<1>2. wire' = wire \cup {[ids |-> ids, waiting |-> TRUE]}
  BY DEF Post
<1>3. [ids |-> ids, waiting |-> TRUE].ids = ids
  OBVIOUS
<1>4. QED
  BY <1>1, <1>2, <1>3

-----------------------------------------------------------------------------
(* The invariant. *)

LEMMA InitInv == Init => AgentInv
BY SizesAssumption
   DEF Init, AgentInv, SizesAssumption, TypeOK, WaitingIsCurrent, ReplyIsCurrent,
       BatchIsHead, BackoffHasRetry, SentInOrder, SentWasAccepted, NoReply, Ok, Requests, Pending

LEMMA NextInv ==
    ASSUME AgentInv, [Next]_vars
    PROVE  AgentInv'
<1> USE SizesAssumption
<1> USE DEF AgentInv, SizesAssumption, TypeOK, WaitingIsCurrent, ReplyIsCurrent,
            BatchIsHead, BackoffHasRetry, SentInOrder, SentWasAccepted, NoReply, Ok, Requests, Pending,
            fileVars, queueVars, sendVars
<1>1. CASE WriteLine
  BY <1>1 DEF WriteLine
<1>2. CASE Run
  BY <1>2 DEF Run
<1>3. CASE LoseMemory
  <2>1. /\ wire' \subseteq [ids : SUBSET DOMAIN rows, waiting : BOOLEAN]
        /\ \A r \in wire' : r.waiting = FALSE
    BY <1>3, AbandonedRequests DEF LoseMemory, Abandon
  <2>2. QED
    BY <1>3, <2>1 DEF LoseMemory
<1>4. CASE PollFiles
  BY <1>4 DEF PollFiles
<1>5. ASSUME NEW n \in 1..MaxLines, SkipLine(n) \/ DropLine(n) \/ OverflowLine(n)
      PROVE  AgentInv'
  BY <1>5 DEF SkipLine, DropLine, OverflowLine, Processing
<1>6. ASSUME NEW n \in 1..MaxLines, EnqueueLine(n)
      PROVE  AgentInv'
  BY <1>6 DEF EnqueueLine, Processing
<1>7. CASE Refill
  BY <1>7 DEF Refill
<1>8. CASE DequeueBatch
  <2>1. /\ NextBatch \subseteq Pending
        /\ \A i \in NextBatch : \A j \in Pending : j < i => j \in NextBatch
    BY NextBatchIsHead
  <2>2. /\ wire' \subseteq [ids : SUBSET DOMAIN rows, waiting : BOOLEAN]
        /\ \A r \in wire' : r \in wire \/ r.ids = NextBatch
    BY <1>8, <2>1, PostedRequests DEF DequeueBatch
  <2>3. reply' = NoReply /\ batch' = NextBatch /\ phase' = "posting" /\ attempt' = 0
    BY <1>8 DEF DequeueBatch
  <2>4. /\ UNCHANGED <<fileVars, queueVars, reply, accepted, restarts>>
        /\ phase = "idle"
    BY <1>8 DEF DequeueBatch
  <2>5. TypeOK'
    BY <2>1, <2>2, <2>3, <2>4
  <2>6. WaitingIsCurrent'
    BY <2>2, <2>3, <2>4
  <2>7. QED
    BY <2>1, <2>3, <2>4, <2>5, <2>6
<1>9. CASE ReceiveOk
  BY <1>9 DEF ReceiveOk
<1>10. CASE ReceiveRefusal
  BY <1>10 DEF ReceiveRefusal, Refusals
<1>11. CASE ReceiveOther
  BY <1>11 DEF ReceiveOther, AttemptFailed
<1>12. CASE PostFails
  <2>1. /\ wire' \subseteq [ids : SUBSET DOMAIN rows, waiting : BOOLEAN]
        /\ \A r \in wire' : r.waiting = FALSE
    BY <1>12, AbandonedRequests DEF PostFails
  <2>2. TypeOK'
    BY <1>12, <2>1 DEF PostFails, AttemptFailed
  <2>3. QED
    BY <1>12, <2>1, <2>2 DEF PostFails, AttemptFailed
<1>13. CASE RetryPost
  <2>1. /\ wire' \subseteq [ids : SUBSET DOMAIN rows, waiting : BOOLEAN]
        /\ \A r \in wire' : r \in wire \/ r.ids = batch
    BY <1>13, PostedRequests DEF RetryPost
  <2>2. QED
    BY <1>13, <2>1 DEF RetryPost
<1>14. ASSUME NEW r \in wire, NEW code \in Codes, Answer(r, code)
       PROVE  AgentInv'
  BY <1>14 DEF Answer
<1>15. ASSUME NEW r \in wire, LoseRequest(r)
       PROVE  AgentInv'
  BY <1>15 DEF LoseRequest
<1>16. CASE UNCHANGED vars
  BY <1>16 DEF vars
<1>17. QED
  BY <1>1, <1>2, <1>3, <1>4, <1>5, <1>6, <1>7, <1>8, <1>9, <1>10, <1>11, <1>12,
     <1>13, <1>14, <1>15, <1>16
     DEF Next, AgentNext, ServerNext, ProcessLine, Stop, Kill

\* Every reachable state satisfies the inductive invariant.
THEOREM InvariantHolds == Spec => []AgentInv
<1>1. Init => AgentInv
  BY InitInv
<1>2. AgentInv /\ [Next]_vars => AgentInv'
  BY NextInv
<1>3. QED
  BY <1>1, <1>2, PTL DEF Spec

\* Every variable keeps its type: attempts stay within max_retries, tokens
\* within the burst, the lines processed within those read.
THEOREM TypeCorrect == Spec => []TypeOK
<1>1. AgentInv => TypeOK
  BY DEF AgentInv
<1>2. QED
  BY <1>1, InvariantHolds, PTL

\* No row is marked sent unless the server answered 200 to a request that
\* carried it.
THEOREM AcknowledgedOnlyWhenAccepted == Spec => []SentWasAccepted
<1>1. AgentInv => SentWasAccepted
  BY DEF AgentInv
<1>2. QED
  BY <1>1, InvariantHolds, PTL

\* Rows are marked sent in the order they were queued.
THEOREM AcknowledgedInOrder == Spec => []SentInOrder
<1>1. AgentInv => SentInOrder
  BY DEF AgentInv
<1>2. QED
  BY <1>1, InvariantHolds, PTL

-----------------------------------------------------------------------------
(* The bound of the queue. *)

\* The number of pending rows is a number.
LEMMA PendingFinite ==
    ASSUME TypeOK
    PROVE  IsFiniteSet(Pending) /\ Cardinality(Pending) \in Nat
<1>1. rows \in Seq(1..MaxLines) /\ DOMAIN rows = 1..Len(rows) /\ Len(rows) \in Nat
  BY DEF TypeOK
<1>2. IsFiniteSet(1..Len(rows)) /\ Pending \subseteq 1..Len(rows)
  BY <1>1, FS_Interval DEF Pending
<1>3. QED
  BY <1>2, FS_Subset, FS_CardinalityType

\* A queue with one more row has one more pending row.
LEMMA PendingAfterAppend ==
    ASSUME TypeOK, NEW n \in 1..MaxLines, rows' = Append(rows, n), sent' = sent
    PROVE  Cardinality(Pending') = Cardinality(Pending) + 1
<1>1. rows \in Seq(1..MaxLines) /\ sent \subseteq DOMAIN rows
  BY DEF TypeOK
<1>2. DOMAIN rows = 1..Len(rows) /\ Len(rows) \in Nat /\ DOMAIN rows' = 1..(Len(rows) + 1)
  BY <1>1
<1>3. Pending' = Pending \cup {Len(rows) + 1} /\ Len(rows) + 1 \notin Pending
  BY <1>1, <1>2 DEF Pending
<1>4. IsFiniteSet(Pending)
  BY PendingFinite
<1>5. QED
  BY <1>3, <1>4, FS_AddElement

\* A step adds at most one row, and acknowledging only takes rows away.
LEMMA QueueSteps ==
    ASSUME TypeOK, [Next]_vars
    PROVE  \/ UNCHANGED queueVars
           \/ \E n \in 1..MaxLines : EnqueueLine(n)
           \/ ReceiveOk
BY DEF Next, AgentNext, ServerNext, ProcessLine, Stop, Kill, LoseMemory, WriteLine, Run,
       PollFiles, SkipLine, DropLine, OverflowLine, Refill, DequeueBatch, ReceiveRefusal,
       ReceiveOther, PostFails, AttemptFailed, RetryPost, Answer, LoseRequest, vars, queueVars

\* The queue holds at most max_size pending rows (the check of enqueue, which
\* counts and inserts under one lock).
THEOREM QueueBounded == Spec => []PendingBounded
<1>1. Init => PendingBounded
  <2>1. Init => Pending = {}
    BY DEF Init, Pending
  <2>2. QED
    BY <2>1, FS_EmptySet, SizesAssumption DEF PendingBounded, SizesAssumption
<1>2. TypeOK /\ TypeOK' /\ PendingBounded /\ [Next]_vars => PendingBounded'
  <2>1. SUFFICES ASSUME TypeOK, TypeOK', PendingBounded, [Next]_vars
                 PROVE  Cardinality(Pending') <= MaxSize
    BY DEF PendingBounded
  <2>2. CASE UNCHANGED queueVars
    BY <2>1, <2>2 DEF queueVars, Pending, PendingBounded
  <2>3. ASSUME NEW n \in 1..MaxLines, EnqueueLine(n)
        PROVE  Cardinality(Pending') <= MaxSize
    <3>1. Cardinality(Pending') = Cardinality(Pending) + 1 /\ Cardinality(Pending) < MaxSize
      BY <2>1, <2>3, PendingAfterAppend DEF EnqueueLine
    <3>2. QED
      BY <2>1, <3>1, PendingFinite, SizesAssumption DEF SizesAssumption
  <2>4. CASE ReceiveOk
    <3>1. Pending' \subseteq Pending
      BY <2>4 DEF ReceiveOk, Pending
    <3>2. Cardinality(Pending') <= Cardinality(Pending) /\ Cardinality(Pending') \in Nat
      BY <2>1, <3>1, PendingFinite, FS_Subset, FS_CardinalityType
    <3>3. QED
      BY <2>1, <3>2, PendingFinite, SizesAssumption DEF SizesAssumption, PendingBounded
  <2>5. QED
    BY <2>1, <2>2, <2>3, <2>4, QueueSteps
<1>3. QED
  BY <1>1, <1>2, TypeCorrect, PTL DEF Spec

-----------------------------------------------------------------------------
(* Duplicates. *)

CopiesOf(n) == {i \in DOMAIN rows : rows[i] = n}

\* One life of the agent enqueues a line when it passes it, so a line beyond
\* pos has no copy from this life yet.
CopiesInv ==
    \A n \in 1..MaxLines :
        Cardinality(CopiesOf(n)) <= restarts + (IF n <= pos THEN 1 ELSE 0)

LEMMA CopiesFinite ==
    ASSUME TypeOK, NEW n
    PROVE  IsFiniteSet(CopiesOf(n)) /\ Cardinality(CopiesOf(n)) \in Nat
<1>1. rows \in Seq(1..MaxLines) /\ DOMAIN rows = 1..Len(rows) /\ Len(rows) \in Nat
  BY DEF TypeOK
<1>2. IsFiniteSet(1..Len(rows)) /\ CopiesOf(n) \subseteq 1..Len(rows)
  BY <1>1, FS_Interval DEF CopiesOf
<1>3. QED
  BY <1>2, FS_Subset, FS_CardinalityType

\* Appending line n adds one copy of n and none of another line.
LEMMA CopiesAfterAppend ==
    ASSUME TypeOK, NEW n \in 1..MaxLines, NEW m \in 1..MaxLines, rows' = Append(rows, n)
    PROVE  Cardinality(CopiesOf(m)') =
               Cardinality(CopiesOf(m)) + (IF m = n THEN 1 ELSE 0)
<1>1. rows \in Seq(1..MaxLines)
  BY DEF TypeOK
<1>2. /\ DOMAIN rows = 1..Len(rows) /\ Len(rows) \in Nat
      /\ DOMAIN rows' = 1..(Len(rows) + 1)
      /\ rows'[Len(rows) + 1] = n
      /\ \A i \in 1..Len(rows) : rows'[i] = rows[i]
  BY <1>1
<1>3. CASE m = n
  <2>1. CopiesOf(m)' = CopiesOf(m) \cup {Len(rows) + 1} /\ Len(rows) + 1 \notin CopiesOf(m)
    BY <1>2, <1>3 DEF CopiesOf
  <2>2. QED
    BY <1>3, <2>1, CopiesFinite, FS_AddElement
<1>4. CASE m # n
  <2>1. CopiesOf(m)' = CopiesOf(m)
    BY <1>2, <1>4 DEF CopiesOf
  <2>2. QED
    BY <1>4, <2>1, CopiesFinite
<1>5. QED
  BY <1>3, <1>4

\* A line is in the queue at most once per life of the agent: duplicates come
\* from restarts only, never from a poll cycle.
THEOREM DuplicatesOnlyFromRestarts == Spec => []CopiesBoundedByRestarts
<1>1. Init => CopiesInv
  <2>1. Init => \A n \in 1..MaxLines : CopiesOf(n) = {}
    BY DEF Init, CopiesOf
  <2>2. QED
    BY <2>1, FS_EmptySet DEF CopiesInv, Init
<1>2. TypeOK /\ TypeOK' /\ CopiesInv /\ [Next]_vars => CopiesInv'
  <2>1. SUFFICES ASSUME TypeOK, TypeOK', CopiesInv, [Next]_vars, NEW m \in 1..MaxLines
                 PROVE  Cardinality(CopiesOf(m)')
                            <= restarts' + (IF m <= pos' THEN 1 ELSE 0)
    BY DEF CopiesInv
  <2>2. /\ Cardinality(CopiesOf(m)) \in Nat
        /\ Cardinality(CopiesOf(m)) <= restarts + (IF m <= pos THEN 1 ELSE 0)
        /\ restarts \in Nat /\ pos \in Nat /\ restarts' \in Nat /\ pos' \in Nat
    BY <2>1, CopiesFinite, SizesAssumption DEF CopiesInv, TypeOK, SizesAssumption
  <2>3. CASE LoseMemory
    <3>1. CopiesOf(m)' = CopiesOf(m) /\ restarts' = restarts + 1 /\ pos' = 0
      BY <2>3 DEF LoseMemory, CopiesOf, queueVars
    <3>2. QED
      BY <2>2, <3>1
  <2>4. ASSUME NEW n \in 1..MaxLines, EnqueueLine(n)
        PROVE  Cardinality(CopiesOf(m)') <= restarts' + (IF m <= pos' THEN 1 ELSE 0)
    <3>1. /\ rows' = Append(rows, n) /\ pos' = n /\ n = pos + 1 /\ restarts' = restarts
      BY <2>4 DEF EnqueueLine, Processing
    <3>2. Cardinality(CopiesOf(m)') = Cardinality(CopiesOf(m)) + (IF m = n THEN 1 ELSE 0)
      BY <2>1, <3>1, CopiesAfterAppend
    <3>3. QED
      BY <2>2, <3>1, <3>2
  <2>5. CASE rows' = rows /\ restarts' = restarts /\ pos' >= pos
    <3>1. CopiesOf(m)' = CopiesOf(m)
      BY <2>5 DEF CopiesOf
    <3>2. QED
      BY <2>2, <2>5, <3>1
  <2>6. \/ LoseMemory
        \/ \E n \in 1..MaxLines : EnqueueLine(n)
        \/ rows' = rows /\ restarts' = restarts /\ pos' >= pos
    BY <2>1, <2>2, SizesAssumption
       DEF Next, AgentNext, ServerNext, ProcessLine, Stop, Kill, WriteLine, Run,
           PollFiles, SkipLine, DropLine, OverflowLine, Processing, Refill, DequeueBatch,
           ReceiveOk, ReceiveRefusal, ReceiveOther, PostFails, AttemptFailed, RetryPost,
           Answer, LoseRequest, vars, queueVars, fileVars, TypeOK, SizesAssumption
  <2>7. QED
    BY <2>3, <2>4, <2>5, <2>6
<1>3. TypeOK /\ CopiesInv => CopiesBoundedByRestarts
  <2>1. SUFFICES ASSUME TypeOK, CopiesInv, NEW n \in 1..MaxLines
                 PROVE  Cardinality(CopiesOf(n)) <= restarts + 1
    BY DEF CopiesBoundedByRestarts, CopiesOf
  <2>2. restarts \in Nat /\ Cardinality(CopiesOf(n)) \in Nat
    BY <2>1, CopiesFinite, SizesAssumption DEF TypeOK, SizesAssumption
  <2>3. QED
    BY <2>1, <2>2 DEF CopiesInv
<1>4. QED
  BY <1>1, <1>2, <1>3, TypeCorrect, PTL DEF Spec

-----------------------------------------------------------------------------
(* Refinement. *)

\* A set of ids that holds every id below each of its own is an initial piece
\* of the ids; its size is its last one.
LEMMA DownwardClosedIsPrefix ==
    ASSUME NEW n \in Nat, NEW S \in SUBSET (1..n), \A i \in S : \A j \in 1..i : j \in S
    PROVE  Cardinality(S) \in 0..n /\ S = 1..Cardinality(S)
<1>1. IsFiniteSet(1..n) /\ Cardinality(1..n) = n
  BY FS_Interval
<1>2. IsFiniteSet(S) /\ Cardinality(S) \in Nat /\ Cardinality(S) <= n
  BY <1>1, FS_Subset, FS_CardinalityType
<1>3. ASSUME NEW i \in S
      PROVE  i \in 1..Cardinality(S)
  <2>1. i \in Nat /\ i >= 1 /\ 1..i \subseteq S
    OBVIOUS
  <2>2. Cardinality(1..i) = i
    BY <2>1, FS_Interval
  <2>3. Cardinality(1..i) <= Cardinality(S)
    BY <1>2, <2>1, FS_Subset
  <2>4. QED
    BY <1>2, <2>1, <2>2, <2>3
<1>4. ASSUME NEW i \in 1..Cardinality(S), i \notin S
      PROVE  FALSE
  <2>1. i \in Nat /\ i >= 1 /\ i <= Cardinality(S)
    BY <1>2, <1>4
  <2>2. S \subseteq 1..(i - 1)
    BY <1>4, <2>1
  <2>3. i - 1 \in Int /\ 1 \in Int
    BY <2>1
  <2>4. IsFiniteSet(1..(i - 1)) /\ Cardinality(1..(i - 1)) = i - 1
    BY <2>1, <2>3, FS_Interval
  <2>5. Cardinality(S) <= Cardinality(1..(i - 1))
    BY <2>2, <2>4, FS_Subset
  <2>6. QED
    BY <1>2, <2>1, <2>4, <2>5
<1>5. S \subseteq 1..Cardinality(S)
  BY <1>3
<1>6. 1..Cardinality(S) \subseteq S
  BY <1>4
<1>7. S = 1..Cardinality(S)
  <2> DEFINE c == Cardinality(S)
  <2>1. S \subseteq 1..c /\ 1..c \subseteq S
    BY <1>5, <1>6
  <2> HIDE DEF c
  <2>2. S = 1..c
    BY <2>1
  <2>3. QED
    BY <2>2 DEF c
<1>8. Cardinality(S) \in 0..n
  BY <1>2
<1>9. QED
  BY <1>7, <1>8

\* The agent, its queue and any server implement the at-least-once queue: rows
\* are only added, deliveries only recorded when the server accepts, and
\* acknowledgements take delivered rows in order.
THEOREM ImplementsPromise == Spec => PromiseSpec
<1>1. Init => Promise!Init
  <2>1. ASSUME Init PROVE Len(rows) = 0 /\ accepted = {} /\ Cardinality(sent) = 0
    BY <2>1, FS_EmptySet DEF Init
  <2>2. QED
    BY <2>1 DEF Promise!Init
<1>2. AgentInv /\ AgentInv' /\ [Next]_vars => [Promise!Next]_(Promise!vars)
  <2>1. SUFFICES ASSUME AgentInv, AgentInv', [Next]_vars
                 PROVE  Promise!Next \/ UNCHANGED Promise!vars
    OBVIOUS
  <2>2. TypeOK /\ TypeOK' /\ SentInOrder /\ SentInOrder' /\ SentWasAccepted'
    BY <2>1 DEF AgentInv
  <2>3. rows \in Seq(1..MaxLines) /\ DOMAIN rows = 1..Len(rows)
    BY <2>2 DEF TypeOK
  <2>4. ASSUME NEW n \in 1..MaxLines, EnqueueLine(n)
        PROVE  Promise!Put
    BY <2>3, <2>4 DEF EnqueueLine, Promise!Put
  <2>5. ASSUME NEW r \in wire, NEW code \in Codes, Answer(r, code)
        PROVE  Promise!Deliver \/ UNCHANGED Promise!vars
    <3>1. r.ids \subseteq 1..Len(rows)
      BY <2>2, <2>3, <2>5 DEF TypeOK, Requests
    <3>2. UNCHANGED <<rows, sent>> /\ (accepted' = accepted \/ accepted' = accepted \cup r.ids)
      BY <2>5 DEF Answer, queueVars
    <3>3. QED
      BY <3>1, <3>2 DEF Promise!Deliver, Promise!vars
  <2>6. CASE ReceiveOk
    <3>1. UNCHANGED <<rows, accepted>> /\ sent \subseteq sent'
      BY <2>6 DEF ReceiveOk
    <3>2. /\ Cardinality(sent) \in Nat /\ sent = 1..Cardinality(sent)
          /\ Cardinality(sent') \in 0..Len(rows) /\ sent' = 1..Cardinality(sent')
      <4>1. /\ Len(rows) \in Nat /\ sent \in SUBSET (1..Len(rows)) /\ sent' \in SUBSET (1..Len(rows))
        BY <2>2, <2>3, <3>1 DEF TypeOK
      <4>2. /\ \A i \in sent : \A j \in 1..i : j \in sent
            /\ \A i \in sent' : \A j \in 1..i : j \in sent'
        BY <2>2 DEF SentInOrder
      <4>3. Cardinality(sent) \in 0..Len(rows) /\ sent = 1..Cardinality(sent)
        BY <4>1, <4>2, DownwardClosedIsPrefix
      <4>4. Cardinality(sent') \in 0..Len(rows) /\ sent' = 1..Cardinality(sent')
        BY <4>1, <4>2, DownwardClosedIsPrefix
      <4>5. QED
        BY <4>1, <4>3, <4>4
    <3>3. sent' \subseteq accepted
      BY <2>2, <3>1 DEF SentWasAccepted
    <3>4. Cardinality(sent) <= Cardinality(sent')
      <4>1. IsFiniteSet(sent')
        <5>1. Len(rows) \in Nat /\ sent' \subseteq 1..Len(rows)
          BY <2>2, <2>3, <3>1 DEF TypeOK
        <5>2. IsFiniteSet(1..Len(rows))
          BY <5>1, FS_Interval
        <5>3. QED
          BY <5>1, <5>2, FS_Subset
      <4>2. QED
        BY <3>1, <4>1, FS_Subset
    <3>5. CASE Cardinality(sent') = Cardinality(sent)
      BY <3>1, <3>5 DEF Promise!vars
    <3>6. CASE Cardinality(sent') # Cardinality(sent)
      <4>1. Cardinality(sent') \in (Cardinality(sent) + 1)..Len(rows)
        BY <2>3, <3>2, <3>4, <3>6
      <4>2. (Cardinality(sent) + 1)..Cardinality(sent') \subseteq accepted
        BY <3>2, <3>3
      <4>3. QED
        BY <3>1, <4>1, <4>2 DEF Promise!Next, Promise!Acknowledge
    <3>7. QED
      BY <3>5, <3>6
  <2>7. CASE UNCHANGED <<rows, sent, accepted>>
    BY <2>7 DEF Promise!vars
  <2>8. \/ \E n \in 1..MaxLines : EnqueueLine(n)
        \/ \E r \in wire : \E code \in Codes : Answer(r, code)
        \/ ReceiveOk
        \/ UNCHANGED <<rows, sent, accepted>>
    BY <2>1
       DEF Next, AgentNext, ServerNext, ProcessLine, Stop, Kill, LoseMemory, WriteLine, Run,
           PollFiles, SkipLine, DropLine, OverflowLine, Refill, DequeueBatch,
           ReceiveRefusal, ReceiveOther, PostFails, AttemptFailed, RetryPost,
           LoseRequest, vars, queueVars
  <2>9. QED
    BY <2>4, <2>5, <2>6, <2>7, <2>8 DEF Promise!Next
<1>3. QED
  BY <1>1, <1>2, InvariantHolds, PTL DEF Spec, PromiseSpec, Promise!Spec

-----------------------------------------------------------------------------
(* The endpoint of this repository. *)

ServerCodes ==
    {Created, BadRequest, Unauthorized, Forbidden, Unprocessable, TooManyRequests, Unavailable}

LEMMA ServerCodesFacts == ServerCodes \subseteq Codes /\ Ok \notin ServerCodes
BY ServerAssumption DEF ServerCodes, Created, BadRequest, Unauthorized, Forbidden,
   Unprocessable, TooManyRequests, Unavailable, Ok

\* Whatever the endpoint does is an answer to one request.
LEMMA IngestAnswers ==
    ASSUME Ingest
    PROVE  \E r \in wire, code \in ServerCodes : Answer(r, code)
BY DEF Ingest, DenyUnknown, DenyInactive, LimitRate, RejectTypes, RejectBatch,
       RefuseUnavailable, StoreEvents, Refuse, ServerCodes

\* What each step of the composition is for the agent.
LEMMA ServerStepRefines ==
    ASSUME [ServerNextState]_allVars
    PROVE  [Next]_vars
<1>1. CASE AgentStep
  BY <1>1 DEF AgentStep, Next
<1>2. CASE WorldStep
  BY <1>2 DEF WorldStep, Next, ServerNext
<1>3. CASE Ingest
  BY <1>3, IngestAnswers, ServerCodesFacts DEF Next, ServerNext
<1>4. CASE Deactivate \/ Delete \/ WindowSlides \/ RestartServer \/ UNCHANGED allVars
  BY <1>4 DEF Deactivate, Delete, WindowSlides, RestartServer, allVars
<1> QED BY <1>1, <1>2, <1>3, <1>4 DEF ServerNextState

\* The endpoint is one of the servers AgentDelivery allows, so every theorem
\* above holds of the agent that talks to it.
THEOREM EndpointIsAServer == ServerSpec => RefinesAgentDelivery
<1>1. ServerInit => Init
  BY DEF ServerInit
<1>2. [ServerNextState]_allVars => [Next]_vars
  BY ServerStepRefines
<1> QED BY <1>1, <1>2, PTL DEF ServerSpec, Spec, RefinesAgentDelivery

\* An initial piece of the queue, no longer than a batch.
IsHead(ids) ==
    /\ ids \subseteq 1..BatchSize
    /\ \A i \in ids : 1..i \subseteq ids

\* No answer is a 200, so nothing is acknowledged and every batch is the first.
NothingAcknowledged ==
    /\ reply # Ok /\ sent = {}
    /\ IsHead(batch)
    /\ \A r \in wire : IsHead(r.ids)

\* What was stored stands in the first batch with no unacceptable event before it.
StoredFromHead ==
    /\ copies \in [1..MaxLines -> Nat]
    /\ \A n \in 1..MaxLines : copies[n] > 0 =>
           \E i \in 1..BatchSize :
               /\ i \in DOMAIN rows /\ rows[i] = n
               /\ \A k \in 1..i : rows[k] \notin Poison

EndpointInv == NothingAcknowledged /\ StoredFromHead

\* With nothing acknowledged dequeue() returns the first rows.
LEMMA FirstBatchDequeued ==
    ASSUME TypeOK, sent = {}
    PROVE  IsHead(NextBatch)
<1>1. rows \in Seq(1..MaxLines) /\ Len(rows) \in Nat /\ Pending = 1..Len(rows)
  BY DEF TypeOK, Pending
<1>2. NextBatch \subseteq Pending
      /\ \A i \in NextBatch : \A j \in Pending : j < i => j \in NextBatch
  BY <1>1, NextBatchIsHead
<1>3. ASSUME NEW i \in NextBatch PROVE i \in 1..BatchSize /\ 1..i \subseteq NextBatch
  <2>1. i \in 1..Len(rows)
    BY <1>1, <1>2
  <2>2. {j \in Pending : j <= i} = 1..i
    BY <1>1, <2>1
  <2>3. Cardinality(1..i) = i
    BY <1>1, <2>1, FS_Interval
  <2>4. i <= BatchSize
    BY <2>2, <2>3 DEF NextBatch
  <2>5. \A j \in 1..i : j \in Pending /\ (j < i \/ j = i)
    BY <1>1, <2>1
  <2>6. 1..i \subseteq NextBatch
    BY <1>2, <2>5
  <2> QED BY <1>1, <2>1, <2>4, <2>6, SizesAssumption
<1> QED BY <1>3 DEF IsHead

\* Rows are only ever added behind those there are.
LEMMA RowsGrow ==
    ASSUME TypeOK, [Next]_vars
    PROVE  /\ DOMAIN rows \subseteq DOMAIN rows'
           /\ \A i \in DOMAIN rows : rows'[i] = rows[i]
<1>1. rows \in Seq(1..MaxLines) /\ DOMAIN rows = 1..Len(rows) /\ Len(rows) \in Nat
  BY DEF TypeOK
<1>2. CASE UNCHANGED queueVars
  BY <1>2 DEF queueVars
<1>3. ASSUME NEW n \in 1..MaxLines, EnqueueLine(n)
      PROVE  /\ DOMAIN rows \subseteq DOMAIN rows'
             /\ \A i \in DOMAIN rows : rows'[i] = rows[i]
  BY <1>1, <1>3 DEF EnqueueLine
<1>4. CASE ReceiveOk
  BY <1>4 DEF ReceiveOk
<1> QED BY <1>2, <1>3, <1>4, QueueSteps

\* What was stored still stands in the first batch when the queue grows.
LEMMA StoredStays ==
    ASSUME TypeOK, [Next]_vars, StoredFromHead, copies' = copies
    PROVE  StoredFromHead'
<1>1. ASSUME NEW n \in 1..MaxLines, copies[n] > 0
      PROVE  \E i \in 1..BatchSize : /\ i \in DOMAIN rows' /\ rows'[i] = n
                                     /\ \A k \in 1..i : rows'[k] \notin Poison
  <2>1. PICK i \in 1..BatchSize : /\ i \in DOMAIN rows /\ rows[i] = n
                                  /\ \A k \in 1..i : rows[k] \notin Poison
    BY <1>1 DEF StoredFromHead
  <2>2. 1..i \subseteq DOMAIN rows
    BY <2>1 DEF TypeOK
  <2>3. /\ DOMAIN rows \subseteq DOMAIN rows' /\ \A k \in DOMAIN rows : rows'[k] = rows[k]
    BY RowsGrow
  <2> QED BY <2>1, <2>2, <2>3
<1> QED BY <1>1 DEF StoredFromHead

\* A batch that is stored is a head of the queue without an unacceptable event.
LEMMA StoredBatch ==
    ASSUME TypeOK, EndpointInv, NEW r \in wire, StoreEvents(r)
    PROVE  StoredFromHead'
<1>1. PICK failed \in SUBSET r.ids : StoreBatch(r, failed)
  BY DEF StoreEvents, Failures
<1>2. /\ rows \in Seq(1..MaxLines) /\ Len(rows) \in Nat /\ DOMAIN rows = 1..Len(rows)
      /\ r.ids \subseteq DOMAIN rows /\ IsHead(r.ids) /\ rows' = rows
      /\ \A i \in r.ids : rows[i] \notin Poison
  BY DEF TypeOK, Requests, EndpointInv, NothingAcknowledged, StoreEvents, Valid, Answer, queueVars, Lines
<1> DEFINE Stored(n) == {i \in r.ids \ failed : rows[i] = n}
<1>3. copies' = [n \in 1..MaxLines |-> IF copies[n] + Cardinality(Stored(n)) > MaxCopies
                                       THEN MaxCopies ELSE copies[n] + Cardinality(Stored(n))]
  BY <1>1 DEF StoreBatch
<1>4. ASSUME NEW n \in 1..MaxLines
      PROVE  IsFiniteSet(Stored(n)) /\ Cardinality(Stored(n)) \in Nat
  <2>1. IsFiniteSet(1..Len(rows))
    <3>1. 1 \in Int /\ Len(rows) \in Int
      BY <1>2
    <3> QED BY <3>1, FS_Interval
  <2>2. Stored(n) \subseteq 1..Len(rows)
    BY <1>2
  <2> QED BY <2>1, <2>2, FS_Subset, FS_CardinalityType
<1>5. copies \in [1..MaxLines -> Nat] /\ MaxCopies \in Nat
  BY ServerAssumption DEF EndpointInv, StoredFromHead
<1> HIDE DEF Stored
<1>6. copies' \in [1..MaxLines -> Nat]
  BY <1>3, <1>4, <1>5
<1>7. ASSUME NEW n \in 1..MaxLines, copies'[n] > 0
      PROVE  \E i \in 1..BatchSize : /\ i \in DOMAIN rows /\ rows[i] = n
                                     /\ \A k \in 1..i : rows[k] \notin Poison
  <2>1. CASE copies[n] > 0
    BY <2>1 DEF EndpointInv, StoredFromHead
  <2>2. CASE Stored(n) # {}
    <3>1. PICK i \in r.ids : rows[i] = n
      BY <2>2 DEF Stored
    <3>2. i \in 1..BatchSize /\ 1..i \subseteq r.ids
      BY <1>2, <3>1 DEF IsHead
    <3> QED BY <1>2, <3>1, <3>2
  <2>3. CASE copies[n] = 0 /\ Stored(n) = {}
    <3>1. Cardinality(Stored(n)) = 0
      BY <2>3, FS_EmptySet
    <3>2. copies[n] + Cardinality(Stored(n)) = 0
      BY <2>3, <3>1
    <3>3. copies'[n] = 0
      BY <1>3, <1>5, <3>2, ServerAssumption
    <3> QED BY <1>7, <3>3
  <2>4. copies[n] > 0 \/ copies[n] = 0
    BY <1>5
  <2> QED BY <2>1, <2>2, <2>3, <2>4
<1> QED BY <1>2, <1>6, <1>7 DEF StoredFromHead

\* Only a 200 acknowledges, and the endpoint does not know it.
LEMMA NothingAcknowledgedKept ==
    ASSUME TypeOK, NothingAcknowledged, [ServerNextState]_allVars
    PROVE  NothingAcknowledged'
<1> USE DEF NothingAcknowledged
<1>1. CASE LoseMemory
  <2>1. wire' = { [r EXCEPT !.waiting = FALSE] : r \in wire } /\ batch' = {}
        /\ reply' = NoReply /\ sent' = sent
    BY <1>1 DEF LoseMemory, queueVars
  <2>2. \A r \in wire : [r EXCEPT !.waiting = FALSE].ids = r.ids
    BY DEF TypeOK, Requests
  <2>3. IsHead({})
    BY DEF IsHead
  <2>4. ASSUME NEW q \in wire' PROVE IsHead(q.ids)
    <3>1. PICK r \in wire : q = [r EXCEPT !.waiting = FALSE]
      BY <2>1, <2>4
    <3>2. q.ids = r.ids
      BY <2>2, <3>1
    <3> QED BY <3>2
  <2>5. reply' # Ok /\ sent' = {} /\ IsHead(batch')
    BY <2>1, <2>3 DEF NoReply, Ok
  <2> QED BY <2>4, <2>5
<1>2. CASE DequeueBatch
  <2>1. /\ batch' = NextBatch /\ wire' = wire \cup { [ids |-> NextBatch, waiting |-> TRUE] }
        /\ reply' = reply /\ sent' = sent
    BY <1>2 DEF DequeueBatch, Post, queueVars
  <2>2. IsHead(NextBatch)
    BY FirstBatchDequeued
  <2> QED BY <2>1, <2>2
<1>3. CASE RetryPost
  BY <1>3 DEF RetryPost, Post, queueVars
<1>4. CASE ReceiveOk
  BY <1>4 DEF ReceiveOk
<1>5. CASE ReceiveRefusal
  BY <1>5 DEF ReceiveRefusal, queueVars, IsHead, NoReply, Ok
<1>6. CASE ReceiveOther
  <2>1. wire' = wire /\ reply' = NoReply /\ sent' = sent /\ batch' \in {batch, {}}
    BY <1>6 DEF ReceiveOther, AttemptFailed, queueVars
  <2>2. IsHead({})
    BY DEF IsHead
  <2>3. IsHead(batch')
    <3>1. CASE batch' = batch
      BY <3>1
    <3>2. CASE batch' = {}
      BY <2>2, <3>2
    <3> QED BY <2>1, <3>1, <3>2
  <2>4. reply' # Ok /\ sent' = {}
    BY <2>1 DEF NoReply, Ok
  <2>5. \A r \in wire' : IsHead(r.ids)
    BY <2>1
  <2> QED BY <2>3, <2>4, <2>5
<1>7. CASE PostFails
  <2>1. wire' = { [r EXCEPT !.waiting = FALSE] : r \in wire }
        /\ reply' = NoReply /\ sent' = sent /\ batch' \in {batch, {}}
    BY <1>7 DEF PostFails, Abandon, AttemptFailed, queueVars
  <2>2. \A r \in wire : [r EXCEPT !.waiting = FALSE].ids = r.ids
    BY DEF TypeOK, Requests
  <2>3. IsHead({})
    BY DEF IsHead
  <2>4. ASSUME NEW q \in wire' PROVE IsHead(q.ids)
    <3>1. PICK r \in wire : q = [r EXCEPT !.waiting = FALSE]
      BY <2>1, <2>4
    <3>2. q.ids = r.ids
      BY <2>2, <3>1
    <3> QED BY <3>2
  <2>5. IsHead(batch')
    <3>1. CASE batch' = batch
      BY <3>1
    <3>2. CASE batch' = {}
      BY <2>3, <3>2
    <3> QED BY <2>1, <3>1, <3>2
  <2>6. reply' # Ok /\ sent' = {}
    BY <2>1 DEF NoReply, Ok
  <2> QED BY <2>4, <2>5, <2>6
<1>8. ASSUME NEW n \in 1..MaxLines, SkipLine(n) \/ DropLine(n) \/ EnqueueLine(n) \/ OverflowLine(n)
      PROVE  NothingAcknowledged'
  BY <1>8 DEF SkipLine, DropLine, EnqueueLine, OverflowLine, sendVars, queueVars
<1>9. CASE Run \/ PollFiles \/ Refill
  BY <1>9 DEF Run, PollFiles, Refill, sendVars, queueVars
<1>10. CASE AgentStep
  BY <1>1, <1>2, <1>3, <1>4, <1>5, <1>6, <1>7, <1>8, <1>9, <1>10
     DEF AgentStep, AgentNext, ProcessLine, Stop, Kill
<1>11. CASE WorldStep
  BY <1>11 DEF WorldStep, WriteLine, LoseRequest, sendVars, queueVars
<1>12. CASE Ingest
  <2>1. PICK r \in wire, code \in ServerCodes : Answer(r, code)
    BY <1>12, IngestAnswers
  <2>2. code # Ok
    BY ServerCodesFacts
  <2> QED BY <2>1, <2>2 DEF Answer, queueVars
<1>13. CASE Deactivate \/ Delete \/ WindowSlides \/ RestartServer \/ UNCHANGED allVars
  BY <1>13 DEF Deactivate, Delete, WindowSlides, RestartServer, allVars, vars, sendVars, queueVars
<1> QED BY <1>10, <1>11, <1>12, <1>13 DEF ServerNextState

THEOREM EndpointInvariant == ServerSpec => []EndpointInv
<1>1. ServerInit => EndpointInv
  BY DEF ServerInit, Init, EndpointInv, NothingAcknowledged, StoredFromHead, IsHead, NoReply, Ok
<1>2. ASSUME TypeOK, EndpointInv, [ServerNextState]_allVars PROVE EndpointInv'
  <2>1. NothingAcknowledged'
    BY <1>2, NothingAcknowledgedKept DEF EndpointInv
  <2>2. [Next]_vars
    BY <1>2, ServerStepRefines
  <2>3. CASE copies' = copies
    BY <1>2, <2>1, <2>2, <2>3, StoredStays DEF EndpointInv
  <2>4. ASSUME NEW r \in wire, StoreEvents(r) PROVE EndpointInv'
    BY <1>2, <2>1, <2>4, StoredBatch DEF EndpointInv
  <2>5. copies' = copies \/ \E r \in wire : StoreEvents(r)
    BY <1>2 DEF ServerNextState, AgentStep, WorldStep, Ingest, DenyUnknown, DenyInactive, LimitRate,
                RejectTypes, RejectBatch, RefuseUnavailable, Refuse, Deactivate, Delete,
                WindowSlides, RestartServer, allVars, serverVars
  <2> QED BY <2>3, <2>4, <2>5
<1>3. ServerSpec => []TypeOK
  BY EndpointIsAServer, TypeCorrect, PTL DEF RefinesAgentDelivery
<1> QED BY <1>1, <1>2, <1>3, PTL DEF ServerSpec

\* However often requests are lost, retried and answered, only rows of the first
\* batch are ever stored, for every batch size and queue.
THEOREM OnlyFirstBatchEverStored == ServerSpec => []OnlyFirstBatchStored
<1>1. EndpointInv => OnlyFirstBatchStored
  BY DEF EndpointInv, StoredFromHead, OnlyFirstBatchStored
<1> QED BY <1>1, EndpointInvariant, PTL

LEMMA RowIsLine ==
    ASSUME NEW S, NEW q \in Seq(S), NEW i \in 1..Len(q)
    PROVE  q[i] \in S
OBVIOUS

\* An incomplete or ill-typed event is never stored and keeps what is queued behind it from
\* being stored, in every batch size, queue and order of answers.
THEOREM PoisonAlwaysBlocks == ServerSpec => []BlockedByPoison
<1>1. ASSUME TypeOK, EndpointInv PROVE BlockedByPoison
  <2>1. rows \in Seq(1..MaxLines) /\ DOMAIN rows = 1..Len(rows) /\ Len(rows) \in Nat
    BY <1>1 DEF TypeOK
  <2>2. \A q \in 1..Len(rows) : rows[q] \in 1..MaxLines
    BY <2>1, RowIsLine
  <2>3. copies \in [1..MaxLines -> Nat]
    BY <1>1 DEF EndpointInv, StoredFromHead
  <2>4. ASSUME NEW i \in DOMAIN rows, rows[i] \in Poison,
               NEW j \in DOMAIN rows, copies[rows[j]] > 0
        PROVE  \E k \in 1..(i - 1) : rows[k] = rows[j]
    <3>1. rows[j] \in 1..MaxLines
      BY <2>1, <2>4, <2>2
    <3>2. PICK k \in 1..BatchSize : /\ k \in DOMAIN rows /\ rows[k] = rows[j]
                                    /\ \A q \in 1..k : rows[q] \notin Poison
      BY <1>1, <2>4, <3>1 DEF EndpointInv, StoredFromHead
    <3>3. i \notin 1..k
      BY <2>4, <3>2
    <3>4. k \in 1..(i - 1)
      BY <2>1, <3>2, <3>3
    <3> QED BY <3>2, <3>4
  <2>5. ASSUME NEW i \in DOMAIN rows, rows[i] \in Poison PROVE copies[rows[i]] = 0
    <3>1. rows[i] \in 1..MaxLines
      BY <2>1, <2>5, <2>2
    <3>2. ASSUME copies[rows[i]] > 0 PROVE FALSE
      <4>1. PICK k \in 1..BatchSize : /\ k \in DOMAIN rows /\ rows[k] = rows[i]
                                      /\ \A q \in 1..k : rows[q] \notin Poison
        BY <1>1, <3>1, <3>2 DEF EndpointInv, StoredFromHead
      <4>2. k \in 1..k
        BY <4>1
      <4> QED BY <2>5, <4>1, <4>2
    <3> QED BY <2>3, <3>1, <3>2
  <2> QED BY <2>4, <2>5 DEF BlockedByPoison
<1>2. ServerSpec => []TypeOK
  BY EndpointIsAServer, TypeCorrect, PTL DEF RefinesAgentDelivery
<1> QED BY <1>1, <1>2, EndpointInvariant, PTL
=============================================================================
