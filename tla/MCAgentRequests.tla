-------------------------- MODULE MCAgentRequests --------------------------
(* Symmetry for checking AgentRequests with TLC.                            *)
EXTENDS AgentRequests, TLC

Symmetry == Permutations(Request) \cup Permutations(Run)
=============================================================================
