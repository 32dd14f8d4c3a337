----------------------------- MODULE MCAgentRuns -----------------------------
(***************************************************************************)
(* Small instances of AgentRuns.                                           *)
(***************************************************************************)
EXTENDS AgentRuns, TLC

\* Two agents exchange messages, or three wait for each other's slots.
Bound == Cardinality(Spawned) < Cardinality(Agent) \/ Texts = 0

\* Nothing tells the agents apart.
Symmetry == Permutations(Agent)
=============================================================================
