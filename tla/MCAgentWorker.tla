--------------------------- MODULE MCAgentWorker ---------------------------
(* Two runs: one is planned and proposes changes, with a tool that needs   *)
(* consent; the other is submitted complete.                               *)
EXTENDS AgentWorker
CONSTANTS p, d
=============================================================================
