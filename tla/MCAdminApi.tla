----------------------------- MODULE MCAdminApi -----------------------------
(***************************************************************************)
(* AdminApi with one user besides root, whose name is spelled in two ways, *)
(* and two agents, the demo agent one of them.                             *)
(***************************************************************************)
EXTENDS AdminApi, TLC

CONSTANTS r1, r2, r3, k1, k2

Users == [ root |-> "root", ana |-> "ana", Ana |-> "ana" ]
Agents == [s \in {"demo-agent", "web", " web"} |-> IF s = "demo-agent" THEN s ELSE "web"]

Symmetry == Permutations(Requests) \cup Permutations(EnvKeys)

\* Users; the life of agents; new agents and sweeps; agents that are silent, swept and
\* taken out of service or not; starts with renames and deactivations.
Kinds == {
    {"create_user", "deactivate_user", "login"},
    {"create_agent", "rename_agent", "delete_agent"},
    {"create_agent", "heartbeat", "sweep"},
    {"heartbeat", "delete_agent", "sweep", "deactivate_agent"},
    {"rename_agent", "deactivate_agent", "sweep"} }
=============================================================================
