--------------------------- MODULE MCDurableWaits ---------------------------
(* The waits of one workflow: timer t1, event e1, standalone timer s1.      *)
EXTENDS DurableWaits

CONSTANTS w1, t1, e1, s1

AllHome == [c \in Wait |-> w1]
AllKind == [c \in Wait |-> IF c = e1 THEN "event" ELSE "timer"]
=============================================================================
