----------------------------- MODULE MCAgentRun -----------------------------
(* Two runs in two conversations or in one, with a reload of the interface *)
(* and overlapping restores.                                               *)
EXTENDS AgentRun
CONSTANTS a, b, k1, k2
=============================================================================
