---------------------------- MODULE MCRiskStore ----------------------------
(* A whole-number decay that satisfies DecayAssumption: a score is halved   *)
(* in every clock unit, fractions of a point are dropped.                   *)
EXTENDS RiskStore, TLC

Halved(s, d) == s \div 2^d

\* Nothing in RiskStore names a task or an entity.
Symmetry == Permutations(Tasks) \cup Permutations(Entities)
=============================================================================
