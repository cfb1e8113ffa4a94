---------------------------- MODULE FileWatcher ----------------------------
(***************************************************************************)
(* How the agent follows a log file (agent/watcher.py): every poll asks    *)
(* for the size of the file, reads from its offset up to that size and     *)
(* splits what it read into lines.  Other programs append to the file,     *)
(* truncate, remove and recreate it at any moment, also between the stat   *)
(* and the read.                                                           *)
(*                                                                         *)
(* Both watchers read every watched file in every poll (the events of      *)
(* watchdog only add paths that are read anyway) and keep one offset per   *)
(* file, so one file stands for all.  A text is a sequence of symbols, and *)
(* a line handed out is the interval of positions it was read from.        *)
(***************************************************************************)
EXTENDS Integers, Sequences, FiniteSets

CONSTANTS
    MaxSize,      \* bound: symbols in the file
    MaxChanges,   \* bound: truncations, removals and creations
    MaxFailures,  \* bound: reads of an existing file that fail
    MaxRestarts   \* bound: restarts of the agent

ASSUME WatcherAssumption ==
    /\ MaxSize \in Nat /\ MaxChanges \in Nat
    /\ MaxFailures \in Nat /\ MaxRestarts \in Nat

VARIABLES
    present,   \* the path names a file
    text,      \* its symbols
    offset,    \* _watched[path]
    poll,      \* the call of _read_new_lines in progress
    pass,      \* history: times reading (re)started at the beginning
    lines,     \* history: the lines handed out
    changes, failures, restarts   \* histories, for the bounds

fileVars == <<present, text, changes>>
vars == <<fileVars, offset, poll, pass, lines, failures, restarts>>

Symbols == {"char", "newline"}

\* A poll between its stat and its read: it reads from base up to size, which
\* is at least one symbol (a read of a negative length would read to the end).
NoPoll == [reading |-> FALSE, base |-> 0, size |-> 0]
Polls  ==
    { q \in [reading : {TRUE}, base : 0..MaxSize, size : 0..MaxSize] : q.base < q.size }
    \cup {NoPoll}

\* A line: the pass it was read in, the positions it holds.
Line == [pass : Nat, first : 1..MaxSize, last : 1..MaxSize]

TypeOK ==
    /\ present \in BOOLEAN
    /\ text \in Seq(Symbols) /\ Len(text) <= MaxSize
    /\ offset \in 0..MaxSize
    /\ poll \in Polls
    /\ pass \in Nat
    /\ lines \subseteq Line
    /\ changes \in 0..MaxChanges
    /\ failures \in 0..MaxFailures
    /\ restarts \in 0..MaxRestarts

Init ==
    /\ present = TRUE /\ text = <<>>
    /\ offset = 0 /\ poll = NoPoll
    /\ pass = 0 /\ lines = {}
    /\ changes = 0 /\ failures = 0 /\ restarts = 0

-----------------------------------------------------------------------------
(* The programs that write the file. *)

WriteSymbol(s) ==
    /\ present /\ Len(text) < MaxSize
    /\ text' = Append(text, s)
    /\ UNCHANGED <<present, changes, offset, poll, pass, lines, failures, restarts>>

\* The file is emptied (copytruncate), removed (moved away) or created again.
ChangeFile(exists) ==
    /\ changes < MaxChanges
    /\ present \/ exists
    /\ changes' = changes + 1
    /\ present' = exists /\ text' = <<>>
    /\ UNCHANGED <<offset, poll, pass, lines, failures, restarts>>

-----------------------------------------------------------------------------
(* _read_new_lines *)

\* A poll that misses that the file got smaller.
StatTruncated_Ignored ==
    /\ ~poll.reading /\ present
    /\ Len(text) < offset
    /\ UNCHANGED vars

\* A poll that notices that the file got smaller and keeps its offset.
StatTruncated_KeepsOffset ==
    /\ ~poll.reading /\ present
    /\ Len(text) < offset
    /\ pass' = pass + 1
    /\ poll' = [reading |-> TRUE, base |-> offset, size |-> Len(text)]
    /\ UNCHANGED <<fileVars, offset, lines, failures, restarts>>

\* The file got smaller: start again at its beginning, if it holds anything.
StatTruncated ==
    /\ ~poll.reading /\ present
    /\ Len(text) < offset
    /\ pass' = pass + 1
    /\ IF Len(text) = 0
         THEN offset' = 0 /\ UNCHANGED poll
         ELSE poll' = [reading |-> TRUE, base |-> 0, size |-> Len(text)] /\ UNCHANGED offset
    /\ UNCHANGED <<fileVars, lines, failures, restarts>>

StatGrown ==
    /\ ~poll.reading /\ present
    /\ Len(text) > offset
    /\ poll' = [reading |-> TRUE, base |-> offset, size |-> Len(text)]
    /\ UNCHANGED <<fileVars, offset, pass, lines, failures, restarts>>

\* What is left of the range the poll wanted, when the read happens.
Upto == IF poll.size <= Len(text) THEN poll.size ELSE Len(text)

Newline(p) == text[p] = "newline"

\* A split that forgets the text behind the last newline.
LinesOf_Whole(a, b) ==
    { l \in [pass : {pass}, first : a..b, last : a..b] :
        /\ l.first <= l.last
        /\ l.first = a \/ Newline(l.first - 1)
        /\ Newline(l.last)
        /\ \A p \in l.first..(l.last - 1) : ~ Newline(p) }

\* The lines of the text at positions a..b: each ends with a newline, but the
\* last one may be a line of which only the beginning has been written.
LinesOf(a, b) ==
    { l \in [pass : {pass}, first : a..b, last : a..b] :
        /\ l.first <= l.last
        /\ l.first = a \/ Newline(l.first - 1)
        /\ l.last = b \/ Newline(l.last)
        /\ \A p \in l.first..(l.last - 1) : ~ Newline(p) }

\* A read up to the end of the file, which may have grown since the stat.
Read_ToEnd ==
    /\ poll.reading /\ present
    /\ lines' = lines \cup LinesOf(poll.base + 1, Len(text))
    /\ offset' = poll.size
    /\ poll' = NoPoll
    /\ UNCHANGED <<fileVars, pass, failures, restarts>>

\* f.read(current_size - last_offset); the new offset is the size the stat saw.
Read ==
    /\ poll.reading /\ present
    /\ lines' = lines \cup LinesOf(poll.base + 1, Upto)
    /\ offset' = poll.size
    /\ poll' = NoPoll
    /\ UNCHANGED <<fileVars, pass, failures, restarts>>

\* The file is gone, or cannot be read: nothing new, and base is the offset.
ReadFails ==
    /\ poll.reading
    /\ IF present THEN failures < MaxFailures /\ failures' = failures + 1
                  ELSE UNCHANGED failures
    /\ offset' = poll.base
    /\ poll' = NoPoll
    /\ UNCHANGED <<fileVars, pass, lines, restarts>>

\* The agent starts again: watch() sets the offset to 0.
Restart ==
    /\ restarts < MaxRestarts
    /\ restarts' = restarts + 1
    /\ offset' = 0 /\ poll' = NoPoll /\ pass' = pass + 1
    /\ UNCHANGED <<fileVars, lines, failures>>

-----------------------------------------------------------------------------
Poll == StatTruncated \/ StatGrown \/ Read \/ ReadFails

Next ==
    \/ \E s \in Symbols : WriteSymbol(s)
    \/ \E exists \in BOOLEAN : ChangeFile(exists)
    \/ Poll \/ Restart

Spec == Init /\ [][Next]_vars

\* _poll_loop keeps polling.
FairSpec == Spec /\ WF_vars(Poll)

-----------------------------------------------------------------------------
(* Properties. *)

Holds(l, p) == l.first <= p /\ p <= l.last

\* Between two starts at the beginning no position of the file is handed out
\* twice, however the file grows, shrinks, disappears or is replaced around the
\* polls (_read_new_lines reads no further than the size its stat returned and
\* takes that size for the new offset).
NoRepeatInPass ==
    \A k, l \in lines : (k.pass = l.pass /\ k # l) =>
        \A p \in 1..MaxSize : ~ (Holds(k, p) /\ Holds(l, p))

\* As long as the file only grew, everything up to the offset has been handed
\* out, and no line handed out holds two lines of the file.
NothingSkipped ==
    changes = 0 =>
        /\ \A p \in 1..offset : \E l \in lines : l.pass = pass /\ Holds(l, p)
        /\ \A l \in lines : \A p \in l.first..(l.last - 1) : ~ Newline(p)

\* Once the file stops changing, the watcher ends up at its end and stays there,
\* whatever truncations and replacements it raced with.
CatchesUp == <>[](present => offset = Len(text))
=============================================================================
