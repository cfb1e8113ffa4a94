------------------------- MODULE FileWatcherProofs -------------------------
(***************************************************************************)
(* Proofs about FileWatcher for files of any size and any number of        *)
(* changes, failures and restarts.                                         *)
(*                                                                         *)
(* NothingSkipped needs an argument over the positions of a text: the line *)
(* a position belongs to ends at the first newline behind it, and begins   *)
(* behind the last one before it.  LeastNatural gives both.                *)
(***************************************************************************)
EXTENDS FileWatcher, WellFoundedInduction, TLAPS

\* The lines of the current pass end where the next read begins: at the offset,
\* or at base while a poll is between its stat and its read.
Frontier == IF poll.reading THEN poll.base ELSE offset

PassInv ==
    /\ \A l \in lines : l.pass <= pass
    /\ \A l \in lines : l.pass = pass => l.last <= Frontier

WatcherInv == TypeOK /\ PassInv /\ NoRepeatInPass

-----------------------------------------------------------------------------
\* What a poll between its stat and its read knows.
LEMMA PollTyped ==
    ASSUME TypeOK, poll.reading
    PROVE  /\ poll.base \in 0..MaxSize /\ poll.size \in 0..MaxSize
           /\ poll.base < poll.size
<1>1. poll # NoPoll
  BY DEF NoPoll
<1>2. poll \in { q \in [reading : {TRUE}, base : 0..MaxSize, size : 0..MaxSize] : q.base < q.size }
  BY <1>1 DEF TypeOK, Polls
<1> QED BY <1>2

\* The read ends inside the file and no later than the size of the stat.
LEMMA UptoBounds ==
    ASSUME TypeOK, poll.reading
    PROVE  Upto \in 0..MaxSize /\ Upto <= poll.size /\ Upto <= Len(text)
<1>1. poll.size \in 0..MaxSize
  BY PollTyped
<1>2. Len(text) \in Nat /\ Len(text) <= MaxSize
  BY DEF TypeOK
<1> QED BY <1>1, <1>2, WatcherAssumption, SMT DEF Upto

\* The lines of one read are disjoint intervals of the range that was read: the
\* split cuts behind every newline and nowhere else.
LEMMA LinesDisjoint ==
    ASSUME NEW a \in Nat, NEW b \in Nat,
           NEW k \in LinesOf(a, b), NEW l \in LinesOf(a, b),
           NEW p \in Nat, Holds(k, p), Holds(l, p)
    PROVE  k = l
<1>1. /\ k \in [pass : {pass}, first : a..b, last : a..b]
      /\ l \in [pass : {pass}, first : a..b, last : a..b]
      /\ k.first \in a..b /\ k.last \in a..b /\ l.first \in a..b /\ l.last \in a..b
  BY DEF LinesOf
<1>2. ~ (k.first < l.first)
  <2> SUFFICES ASSUME k.first < l.first PROVE FALSE
    OBVIOUS
  <2>1. l.first - 1 \in k.first..(k.last - 1) /\ l.first # a
    BY <1>1, SMT DEF Holds
  <2>2. Newline(l.first - 1)
    BY <2>1 DEF LinesOf
  <2> QED BY <2>1, <2>2 DEF LinesOf
<1>3. ~ (l.first < k.first)
  <2> SUFFICES ASSUME l.first < k.first PROVE FALSE
    OBVIOUS
  <2>1. k.first - 1 \in l.first..(l.last - 1) /\ k.first # a
    BY <1>1, SMT DEF Holds
  <2>2. Newline(k.first - 1)
    BY <2>1 DEF LinesOf
  <2> QED BY <2>1, <2>2 DEF LinesOf
<1>4. ~ (k.last < l.last)
  <2> SUFFICES ASSUME k.last < l.last PROVE FALSE
    OBVIOUS
  <2>1. k.last \in l.first..(l.last - 1) /\ k.last # b
    BY <1>1, SMT DEF Holds
  <2>2. Newline(k.last)
    BY <2>1 DEF LinesOf
  <2> QED BY <2>1, <2>2 DEF LinesOf
<1>5. ~ (l.last < k.last)
  <2> SUFFICES ASSUME l.last < k.last PROVE FALSE
    OBVIOUS
  <2>1. l.last \in k.first..(k.last - 1) /\ l.last # b
    BY <1>1, SMT DEF Holds
  <2>2. Newline(l.last)
    BY <2>1 DEF LinesOf
  <2> QED BY <2>1, <2>2 DEF LinesOf
<1>6. k.first = l.first /\ k.last = l.last /\ k.pass = l.pass
  BY <1>1, <1>2, <1>3, <1>4, <1>5, SMT
<1> QED BY <1>1, <1>6

\* What a read adds keeps the invariant.
LEMMA ReadStep == WatcherInv /\ Read => WatcherInv'
<1> SUFFICES ASSUME WatcherInv, Read PROVE WatcherInv'
  OBVIOUS
<1> DEFINE new == LinesOf(poll.base + 1, Upto)
<1>1. /\ Upto \in 0..MaxSize /\ Upto <= poll.size
      /\ poll.base \in 0..MaxSize /\ poll.size \in 0..MaxSize /\ poll.base < poll.size
  BY UptoBounds, PollTyped DEF Read, WatcherInv
<1>2. \A l \in new : /\ l \in Line /\ l.pass = pass
                     /\ poll.base < l.first /\ l.first <= l.last /\ l.last <= poll.size
  <2> SUFFICES ASSUME NEW l \in new
               PROVE  /\ l \in Line /\ l.pass = pass
                      /\ poll.base < l.first /\ l.first <= l.last /\ l.last <= poll.size
    OBVIOUS
  <2>1. /\ l \in [pass : {pass}, first : (poll.base + 1)..Upto, last : (poll.base + 1)..Upto]
        /\ l.first <= l.last
    BY DEF LinesOf
  <2>2. l.first \in (poll.base + 1)..Upto /\ l.last \in (poll.base + 1)..Upto /\ l.pass = pass
    BY <2>1
  <2>3. l.first \in 1..MaxSize /\ l.last \in 1..MaxSize /\ pass \in Nat
    BY <1>1, <2>2, WatcherAssumption, SMT DEF WatcherInv, TypeOK
  <2>4. l \in Line
    BY <2>1, <2>2, <2>3 DEF Line
  <2> QED BY <1>1, <2>1, <2>2, <2>4, WatcherAssumption, SMT
<1>3. /\ lines' = lines \cup new /\ offset' = poll.size /\ poll' = NoPoll
      /\ UNCHANGED <<fileVars, pass, failures, restarts>>
  BY DEF Read
<1>4. TypeOK'
  <2>1. lines' \subseteq Line
    BY <1>2, <1>3 DEF WatcherInv, TypeOK
  <2>2. poll' \in Polls
    BY <1>3 DEF Polls
  <2> QED BY <1>1, <1>3, <2>1, <2>2 DEF WatcherInv, TypeOK, fileVars
<1>5. \A l \in lines : l.pass \in Nat /\ l.first \in 1..MaxSize /\ l.last \in 1..MaxSize
  BY DEF WatcherInv, TypeOK, Line
<1>6. \A l \in lines : l.pass <= pass /\ (l.pass = pass => l.last <= poll.base)
  BY DEF WatcherInv, PassInv, Frontier, Read
<1>7. Frontier' = poll.size /\ pass' = pass
  BY <1>3 DEF Frontier, NoPoll
<1>8. poll.base <= poll.size
  BY <1>1, WatcherAssumption, SMT
<1>9. PassInv'
  <2> SUFFICES ASSUME NEW l \in lines'
               PROVE  l.pass <= pass /\ (l.pass = pass => l.last <= poll.size)
    BY <1>7 DEF PassInv
  <2>1. CASE l \in new
    BY <2>1, <1>2 DEF WatcherInv, TypeOK
  <2>2. CASE l \in lines
    BY <2>2, <1>1, <1>5, <1>6, <1>8, WatcherAssumption, SMT
  <2> QED BY <1>3, <2>1, <2>2
<1>10. NoRepeatInPass'
  <2> SUFFICES ASSUME NEW k \in lines', NEW l \in lines', k.pass = l.pass, k # l,
                      NEW p \in 1..MaxSize, Holds(k, p), Holds(l, p)
               PROVE  FALSE
    BY DEF NoRepeatInPass, Holds
  <2>1. CASE k \in lines /\ l \in lines
    BY <2>1 DEF WatcherInv, NoRepeatInPass
  <2>2. CASE k \in new /\ l \in new
    <3>1. p \in Nat /\ poll.base + 1 \in Nat /\ Upto \in Nat
      BY <1>1, WatcherAssumption, SMT
    <3> QED BY <2>2, <3>1, LinesDisjoint
  <2>3. ASSUME NEW x \in lines, NEW y \in new, x.pass = y.pass, Holds(x, p), Holds(y, p)
        PROVE  FALSE
    <3>1. x.last \in 1..MaxSize /\ x.last <= poll.base
      BY <2>3, <1>2, <1>5, <1>6
    <3>2. y.first \in 1..MaxSize /\ poll.base < y.first
      BY <1>2 DEF Line
    <3>3. p <= x.last /\ y.first <= p
      BY <2>3 DEF Holds
    <3> QED BY <1>1, <3>1, <3>2, <3>3, WatcherAssumption, SMT
  <2> QED BY <1>3, <2>1, <2>2, <2>3
<1> QED BY <1>4, <1>9, <1>10 DEF WatcherInv

\* A step that hands out nothing keeps the pass invariant when the frontier of
\* the pass does not move back, or when a new pass starts.
LEMMA NothingReadStep ==
    ASSUME WatcherInv, lines' = lines, pass \in Nat, Frontier \in Nat, Frontier' \in Nat,
           \/ pass' = pass /\ Frontier <= Frontier'
           \/ pass' = pass + 1
    PROVE  PassInv' /\ NoRepeatInPass'
<1>1. NoRepeatInPass'
  BY DEF WatcherInv, NoRepeatInPass, Holds
<1>2. PassInv'
  <2> SUFFICES ASSUME NEW l \in lines
               PROVE  l.pass <= pass' /\ (l.pass = pass' => l.last <= Frontier')
    BY DEF PassInv
  <2>1. l.pass \in Nat /\ l.last \in 1..MaxSize
    BY DEF WatcherInv, TypeOK, Line
  <2>2. l.pass <= pass /\ (l.pass = pass => l.last <= Frontier)
    BY DEF WatcherInv, PassInv
  <2> QED BY <2>1, <2>2, WatcherAssumption, SMT
<1> QED BY <1>1, <1>2

\* The frontier is a position, whatever the watcher is doing.
LEMMA FrontierTyped == TypeOK => Frontier \in Nat /\ Len(text) \in 0..MaxSize
<1> SUFFICES ASSUME TypeOK PROVE Frontier \in Nat /\ Len(text) \in 0..MaxSize
  OBVIOUS
<1>1. CASE poll.reading
  BY <1>1, PollTyped, WatcherAssumption, SMT DEF Frontier, TypeOK
<1>2. CASE ~ poll.reading
  BY <1>2, WatcherAssumption, SMT DEF Frontier, TypeOK
<1> QED BY <1>1, <1>2

LEMMA InitInv == Init => WatcherInv
<1> SUFFICES ASSUME Init PROVE WatcherInv
  OBVIOUS
<1>1. TypeOK
  BY WatcherAssumption, SMT DEF Init, TypeOK, Polls
<1>2. PassInv /\ NoRepeatInPass
  BY DEF Init, PassInv, NoRepeatInPass
<1> QED BY <1>1, <1>2 DEF WatcherInv

LEMMA StepInv == WatcherInv /\ [Next]_vars => WatcherInv'
<1> SUFFICES ASSUME WatcherInv, [Next]_vars PROVE WatcherInv'
  OBVIOUS
<1> USE DEF WatcherInv
<1>1. pass \in Nat /\ Frontier \in Nat /\ Len(text) \in 0..MaxSize
  BY FrontierTyped DEF TypeOK
<1>2. ASSUME NEW s \in Symbols, WriteSymbol(s) PROVE WatcherInv'
  <2>1. TypeOK'
    BY <1>2, <1>1, WatcherAssumption, SMT DEF WriteSymbol, TypeOK
  <2>2. lines' = lines /\ pass' = pass /\ Frontier' = Frontier
    BY <1>2 DEF WriteSymbol, Frontier
  <2> QED BY <1>1, <2>1, <2>2, NothingReadStep
<1>3. ASSUME NEW exists \in BOOLEAN, ChangeFile(exists) PROVE WatcherInv'
  <2>1. TypeOK'
    BY <1>3, <1>1, WatcherAssumption, SMT DEF ChangeFile, TypeOK
  <2>2. lines' = lines /\ pass' = pass /\ Frontier' = Frontier
    BY <1>3 DEF ChangeFile, Frontier
  <2> QED BY <1>1, <2>1, <2>2, NothingReadStep
<1>4. CASE StatTruncated
  <2>1. poll' \in Polls
    <3>1. CASE Len(text) = 0
      BY <3>1, <1>4 DEF StatTruncated, TypeOK
    <3>2. CASE Len(text) # 0
      <4> DEFINE q == [reading |-> TRUE, base |-> 0, size |-> Len(text)]
      <4>1. q \in [reading : {TRUE}, base : 0..MaxSize, size : 0..MaxSize]
        BY <1>1, WatcherAssumption, SMT
      <4>2. q.base < q.size
        BY <1>1, <3>2, WatcherAssumption, SMT
      <4>3. poll' = q
        BY <1>4, <3>2 DEF StatTruncated
      <4> QED BY <4>1, <4>2, <4>3 DEF Polls
    <3> QED BY <3>1, <3>2
  <2>2. pass' = pass + 1 /\ lines' = lines
    BY <1>4 DEF StatTruncated
  <2>3. /\ UNCHANGED <<present, text, changes, failures, restarts>>
        /\ offset' \in {0, offset}
    BY <1>4 DEF StatTruncated, fileVars
  <2>4. TypeOK'
    BY <2>1, <2>2, <2>3, <1>1, WatcherAssumption, SMT DEF TypeOK
  <2>5. Frontier' \in Nat
    <3>1. poll'.reading \/ ~ poll'.reading
      OBVIOUS
    <3>2. CASE Len(text) = 0
      BY <3>2, <1>4, <2>4, WatcherAssumption, SMT DEF StatTruncated, Frontier, TypeOK
    <3>3. CASE Len(text) # 0
      BY <3>3, <1>4 DEF StatTruncated, Frontier
    <3> QED BY <3>2, <3>3
  <2> QED BY <1>1, <2>2, <2>4, <2>5, NothingReadStep
<1>5. CASE StatGrown
  <2> DEFINE q == [reading |-> TRUE, base |-> offset, size |-> Len(text)]
  <2>1. poll' = q /\ lines' = lines /\ pass' = pass
    BY <1>5 DEF StatGrown
  <2>2. q \in [reading : {TRUE}, base : 0..MaxSize, size : 0..MaxSize] /\ q.base < q.size
    BY <1>5, <1>1, WatcherAssumption, SMT DEF StatGrown, TypeOK
  <2>3. TypeOK'
    <3>1. q \in Polls
      BY <2>2 DEF Polls
    <3> HIDE DEF q
    <3> QED BY <1>5, <2>1, <3>1 DEF StatGrown, TypeOK, fileVars
  <2>4. Frontier' = Frontier
    BY <1>5, <2>1 DEF StatGrown, Frontier
  <2> QED BY <1>1, <2>1, <2>3, <2>4, NothingReadStep
<1>6. CASE Read
  BY <1>6, ReadStep
<1>7. CASE ReadFails
  <2>1. /\ offset' = poll.base /\ poll' = NoPoll /\ pass' = pass /\ lines' = lines
        /\ UNCHANGED <<present, text, changes, restarts>>
    BY <1>7 DEF ReadFails, fileVars
  <2>2. failures' \in 0..MaxFailures
    BY <1>7, WatcherAssumption, SMT DEF ReadFails, TypeOK
  <2>3. poll.base \in 0..MaxSize
    BY <1>7, PollTyped DEF ReadFails
  <2>4. TypeOK'
    BY <2>1, <2>2, <2>3 DEF TypeOK, Polls
  <2>5. Frontier' = Frontier
    BY <1>7, <2>1 DEF ReadFails, Frontier, NoPoll
  <2> QED BY <1>1, <2>1, <2>4, <2>5, NothingReadStep
<1>8. CASE Restart
  <2>1. /\ offset' = 0 /\ poll' = NoPoll /\ pass' = pass + 1 /\ lines' = lines
        /\ UNCHANGED <<present, text, changes, failures>>
    BY <1>8 DEF Restart, fileVars
  <2>2. restarts' \in 0..MaxRestarts
    BY <1>8, WatcherAssumption, SMT DEF Restart, TypeOK
  <2>3. TypeOK'
    <3>1. 0 \in 0..MaxSize /\ pass + 1 \in Nat
      BY <1>1, WatcherAssumption, SMT
    <3> QED BY <2>1, <2>2, <3>1 DEF TypeOK, Polls
  <2>4. Frontier' = 0
    BY <2>1 DEF Frontier, NoPoll
  <2> QED BY <1>1, <2>1, <2>3, <2>4, NothingReadStep
<1>9. CASE UNCHANGED vars
  <2>1. TypeOK' /\ lines' = lines /\ pass' = pass /\ Frontier' = Frontier
    BY <1>9 DEF vars, fileVars, TypeOK, Frontier
  <2> QED BY <1>1, <2>1, NothingReadStep
<1> QED
  BY <1>2, <1>3, <1>4, <1>5, <1>6, <1>7, <1>8, <1>9 DEF Next, Poll

\* The inductive invariant holds in every behaviour of the watcher: the lines of
\* a pass end before the next read begins, and no two of them overlap.
THEOREM InvariantHolds == Spec => []WatcherInv
<1>1. Init => WatcherInv
  BY InitInv
<1>2. WatcherInv /\ [Next]_vars => WatcherInv'
  BY StepInv
<1> QED BY <1>1, <1>2, PTL DEF Spec

\* Every variable keeps its type: offsets stay inside the bound of the file and
\* a poll never asks for a read of nothing (or of less than nothing).
THEOREM TypeCorrect == Spec => []TypeOK
<1>1. WatcherInv => TypeOK
  BY DEF WatcherInv
<1> QED BY <1>1, InvariantHolds, PTL

\* For files of any size and any number of truncations, replacements, failures
\* and restarts, no position is handed out twice in one pass.
THEOREM NoLineTwice == Spec => []NoRepeatInPass
<1>1. WatcherInv => NoRepeatInPass
  BY DEF WatcherInv
<1> QED BY <1>1, InvariantHolds, PTL

-----------------------------------------------------------------------------
(* Nothing is skipped while the file only grows. *)

Below == { ss \in Nat \X Nat : ss[1] < ss[2] }

\* A set of natural numbers that is not empty has a least one.
LEMMA LeastNatural ==
    ASSUME NEW T, T \subseteq Nat, T # {}
    PROVE  \E x \in T : \A y \in T : x <= y
<1>1. IsWellFoundedOn(Below, Nat)
  BY NatLessThanWellFounded DEF OpToRel, Below
<1>2. PICK x \in T : \A y \in T : ~ (<<y, x>> \in Below)
  BY <1>1, WFMin, Zenon
<1>3. \A y \in T : ~ (y < x)
  BY <1>2 DEF Below
<1> QED BY <1>3

\* The lines of a read cover the range that was read: every position of it is in
\* the line that starts behind the last newline before it and ends with the
\* first one from it on.
LEMMA LinesCover ==
    ASSUME NEW a \in Nat, NEW b \in Nat, NEW p \in a..b
    PROVE  \E l \in LinesOf(a, b) : Holds(l, p)
<1>1. p \in Nat /\ a <= p /\ p <= b
  OBVIOUS
<1> DEFINE ends == { q \in p..b : q = b \/ Newline(q) }
           back == { k \in 0..(p - a) : p - k = a \/ Newline(p - k - 1) }
<1>2. PICK last \in ends : \A q \in ends : last <= q
  <2>1. ends \subseteq Nat /\ b \in ends
    BY <1>1
  <2> HIDE DEF ends
  <2> QED BY <2>1, LeastNatural
<1>3. PICK k \in back : \A j \in back : k <= j
  <2>1. back \subseteq Nat /\ p - a \in back
    BY <1>1
  <2> HIDE DEF back
  <2> QED BY <2>1, LeastNatural
<1>4. PICK first \in a..p : first = p - k
  BY <1>1, <1>3
<1>5. first = a \/ Newline(first - 1)
  BY <1>3, <1>4
<1>6. last \in p..b /\ (last = b \/ Newline(last))
  BY <1>2
<1>7. ASSUME NEW q \in first..(last - 1), Newline(q) PROVE FALSE
  <2>1. q \in Nat /\ first <= q /\ q < last
    BY <1>1, <1>4, <1>6
  <2>2. CASE q < p
    <3>1. PICK j \in 0..(p - a) : p - j - 1 = q /\ j < k
      BY <2>1, <2>2, <1>1, <1>3, <1>4
    <3>2. j \in back
      BY <3>1, <1>7
    <3> QED BY <3>1, <3>2, <1>3
  <2>3. CASE ~ (q < p)
    <3>1. q \in ends
      BY <2>1, <2>3, <1>1, <1>6, <1>7
    <3> QED BY <3>1, <2>1, <1>2, <1>6
  <2> QED BY <2>2, <2>3
<1>8. PICK l \in [pass : {pass}, first : a..b, last : a..b] : l.first = first /\ l.last = last
  <2>1. [pass |-> pass, first |-> first, last |-> last]
            \in [pass : {pass}, first : a..b, last : a..b]
    BY <1>1, <1>4, <1>6
  <2> QED BY <2>1
<1>9. l \in LinesOf(a, b)
  BY <1>1, <1>4, <1>5, <1>6, <1>7, <1>8 DEF LinesOf
<1> QED BY <1>1, <1>4, <1>6, <1>8, <1>9 DEF Holds

\* As long as the file only grew, it is there, no poll sees less than its offset,
\* what was handed out in this pass reaches the place the next read begins at,
\* and every line that was handed out is still where it was read from.
GrownInv ==
    changes = 0 =>
        /\ present
        /\ offset <= Len(text)
        /\ poll.reading => poll.base = offset /\ poll.size <= Len(text)
        /\ \A p \in 1..offset : \E l \in lines : l.pass = pass /\ Holds(l, p)
        /\ \A l \in lines : /\ l.last <= Len(text)
                            /\ \A p \in l.first..(l.last - 1) : ~ Newline(p)

LEMMA GrownInit == Init => GrownInv
  BY DEF Init, GrownInv, NoPoll

\* A line that was handed out is not changed by a symbol that is appended.
LEMMA WriteKeeps ==
    ASSUME TypeOK, GrownInv, NEW s \in Symbols, WriteSymbol(s)
    PROVE  GrownInv'
<1> SUFFICES ASSUME changes = 0 PROVE GrownInv'
  BY DEF WriteSymbol, GrownInv
<1>1. /\ text' = Append(text, s) /\ text \in Seq(Symbols)
      /\ UNCHANGED <<present, changes, offset, poll, pass, lines>>
  BY DEF WriteSymbol, TypeOK
<1>2. Len(text') = Len(text) + 1 /\ Len(text) \in Nat
  BY <1>1
<1>3. \A p \in 1..Len(text) : text'[p] = text[p]
  BY <1>1
<1>4. ASSUME NEW l \in lines
      PROVE  l.last <= Len(text') /\ \A p \in l.first..(l.last - 1) : ~ (text'[p] = "newline")
  <2>1. l.first \in 1..MaxSize /\ l.last \in 1..MaxSize
    BY DEF TypeOK, Line
  <2>2. l.last <= Len(text) /\ \A p \in l.first..(l.last - 1) : ~ (text[p] = "newline")
    BY DEF GrownInv, Newline
  <2>3. \A p \in l.first..(l.last - 1) : p \in 1..Len(text)
    BY <2>1, <2>2, <1>2, WatcherAssumption
  <2> QED BY <2>1, <2>2, <2>3, <1>2, <1>3, WatcherAssumption
<1>5. offset <= Len(text') /\ (poll.reading => poll.size <= Len(text'))
  <2>1. poll.reading => poll.size \in Nat
    BY PollTyped
  <2> QED BY <2>1, <1>2, WatcherAssumption DEF GrownInv, TypeOK
<1>6. \A p \in 1..offset : \E l \in lines : l.pass = pass /\ Holds(l, p)
  BY DEF GrownInv
<1> QED BY <1>1, <1>4, <1>5, <1>6 DEF GrownInv, Newline, Holds

\* A read hands out lines that cover all it read, and all it wanted is there.
LEMMA ReadKeeps ==
    ASSUME WatcherInv, GrownInv, Read
    PROVE  GrownInv'
<1> DEFINE new == LinesOf(poll.base + 1, Upto)
<1>1. /\ lines' = lines \cup new /\ offset' = poll.size /\ poll' = NoPoll
      /\ UNCHANGED <<present, text, changes, pass>> /\ poll.reading
  BY DEF Read, fileVars
<1> SUFFICES ASSUME changes = 0 PROVE GrownInv'
  BY <1>1 DEF GrownInv
<1>2. /\ poll.base \in 0..MaxSize /\ poll.size \in 0..MaxSize /\ poll.base < poll.size
      /\ poll.base = offset /\ poll.size <= Len(text) /\ Len(text) \in Nat
  BY <1>1, PollTyped DEF WatcherInv, TypeOK, GrownInv
<1>3. Upto = poll.size
  BY <1>2 DEF Upto
<1>4. ASSUME NEW p \in 1..poll.size PROVE \E l \in lines' : l.pass = pass /\ Holds(l, p)
  <2>1. CASE p \in 1..offset
    BY <2>1, <1>1 DEF GrownInv
  <2>2. CASE p \notin 1..offset
    <3>1. p \in (poll.base + 1)..Upto /\ poll.base + 1 \in Nat /\ Upto \in Nat
      BY <2>2, <1>2, <1>3, WatcherAssumption
    <3>2. PICK l \in new : Holds(l, p)
      BY <3>1, LinesCover
    <3>3. l.pass = pass
      BY DEF LinesOf
    <3> QED BY <3>2, <3>3, <1>1
  <2> QED BY <2>1, <2>2
<1>5. ASSUME NEW l \in lines'
      PROVE  l.last <= Len(text) /\ \A p \in l.first..(l.last - 1) : ~ Newline(p)
  <2>1. CASE l \in new
    <3>1. /\ l \in [pass : {pass}, first : (poll.base + 1)..Upto, last : (poll.base + 1)..Upto]
          /\ \A p \in l.first..(l.last - 1) : ~ Newline(p)
      BY <2>1 DEF LinesOf
    <3>2. l.last \in (poll.base + 1)..Upto
      BY <3>1
    <3> QED BY <3>1, <3>2, <1>2, <1>3, WatcherAssumption
  <2>2. CASE l \in lines
    BY <2>2 DEF GrownInv
  <2> QED BY <1>1, <2>1, <2>2
<1>6. ~ poll'.reading
  BY <1>1 DEF NoPoll
<1>7. present
  BY DEF GrownInv
<1> QED BY <1>1, <1>2, <1>4, <1>5, <1>6, <1>7 DEF GrownInv, Newline, Holds

LEMMA GrownStep == WatcherInv /\ GrownInv /\ [Next]_vars => GrownInv'
<1> SUFFICES ASSUME WatcherInv, GrownInv, [Next]_vars PROVE GrownInv'
  OBVIOUS
<1>0. TypeOK
  BY DEF WatcherInv
<1>1. ASSUME NEW s \in Symbols, WriteSymbol(s) PROVE GrownInv'
  BY <1>0, <1>1, WriteKeeps
<1>2. ASSUME NEW exists \in BOOLEAN, ChangeFile(exists) PROVE GrownInv'
  BY <1>0, <1>2, WatcherAssumption DEF ChangeFile, GrownInv, TypeOK
<1>3. CASE StatTruncated
  <2>1. changes # 0
    BY <1>0, <1>3, WatcherAssumption DEF StatTruncated, GrownInv, TypeOK
  <2> QED BY <2>1, <1>3 DEF StatTruncated, GrownInv, fileVars
<1>4. CASE StatGrown
  <2>1. /\ UNCHANGED <<present, text, changes, offset, pass, lines>>
        /\ poll' = [reading |-> TRUE, base |-> offset, size |-> Len(text)]
    BY <1>4 DEF StatGrown, fileVars
  <2>2. poll'.base = offset /\ poll'.size = Len(text) /\ Len(text) \in Nat
    BY <2>1, <1>0 DEF TypeOK
  <2> QED BY <2>1, <2>2 DEF GrownInv, Newline, Holds
<1>5. CASE Read
  BY <1>5, ReadKeeps
<1>6. CASE ReadFails
  <2>1. /\ UNCHANGED <<present, text, changes, pass, lines>>
        /\ offset' = poll.base /\ poll' = NoPoll /\ poll.reading
    BY <1>6 DEF ReadFails, fileVars
  <2>2. ~ poll'.reading /\ (changes = 0 => offset' = offset)
    BY <2>1 DEF NoPoll, GrownInv
  <2> QED BY <2>1, <2>2 DEF GrownInv, Newline, Holds
<1>7. CASE Restart
  <2>1. /\ UNCHANGED <<present, text, changes, lines>>
        /\ offset' = 0 /\ poll' = NoPoll
    BY <1>7 DEF Restart, fileVars
  <2>2. ~ poll'.reading /\ Len(text) \in Nat /\ 1..0 = {}
    BY <2>1, <1>0 DEF NoPoll, TypeOK
  <2> QED BY <2>1, <2>2 DEF GrownInv, Newline, Holds
<1>8. CASE UNCHANGED vars
  BY <1>8 DEF vars, fileVars, GrownInv, Newline, Holds
<1> QED
  BY <1>1, <1>2, <1>3, <1>4, <1>5, <1>6, <1>7, <1>8 DEF Next, Poll

\* As long as the file only grows, however its writers and the polls interleave
\* and whatever reads fail or restarts happen, everything up to the offset has
\* been handed out in this pass, and a line handed out holds no two lines.
THEOREM NothingIsSkipped == Spec => []NothingSkipped
<1>1. Init => GrownInv
  BY GrownInit
<1>2. WatcherInv /\ GrownInv /\ [Next]_vars => GrownInv'
  BY GrownStep
<1>3. GrownInv => NothingSkipped
  BY DEF GrownInv, NothingSkipped
<1> QED BY <1>1, <1>2, <1>3, InvariantHolds, PTL DEF Spec
=============================================================================
