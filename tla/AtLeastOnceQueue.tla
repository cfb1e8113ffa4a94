------------------------- MODULE AtLeastOnceQueue --------------------------
(***************************************************************************)
(* What the agent's persistent queue promises its user: every item put in  *)
(* gets a number; items are acknowledged strictly in that order, and only  *)
(* items that have been delivered, possibly more than once, are            *)
(* acknowledged.  No item ever leaves the queue another way.               *)
(***************************************************************************)
EXTENDS Integers

VARIABLES
    queued,     \* number of items ever put in: items 1..queued
    delivered,  \* items delivered at least once
    acked       \* items 1..acked are acknowledged

vars == <<queued, delivered, acked>>

Init == queued = 0 /\ delivered = {} /\ acked = 0

Put ==
    /\ queued' = queued + 1
    /\ UNCHANGED <<delivered, acked>>

Deliver ==
    /\ \E S \in SUBSET (1..queued) : delivered' = delivered \cup S
    /\ UNCHANGED <<queued, acked>>

Acknowledge ==
    /\ \E k \in (acked + 1)..queued :
           /\ acked + 1 .. k \subseteq delivered
           /\ acked' = k
    /\ UNCHANGED <<queued, delivered>>

Next == Put \/ Deliver \/ Acknowledge

Spec == Init /\ [][Next]_vars
=============================================================================
