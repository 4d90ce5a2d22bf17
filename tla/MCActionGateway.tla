-------------------------- MODULE MCActionGateway --------------------------
(* Model values for checking ActionGateway with TLC.                       *)
EXTENDS ActionGateway, TLC

CONSTANTS a1, a2, r1

\* Every wait of the instance is the approval of an action.
MCAction == {a1, a2}
MCRun == {r1}
=============================================================================
