--------------------------- MODULE FencedDispatch ---------------------------
(***************************************************************************)
(* What a durable work queue with leases promises its callers, whatever its *)
(* tables look like: an item is handed out under an ever growing token, at  *)
(* most one hand-out is in force at a time, and the result an item keeps is *)
(* the one produced under the token in force when it completed.             *)
(* docs/event-driven-workflows.md: settlement must match the action, the    *)
(* lease owner and the fencing token, and late results are ignored.         *)
(***************************************************************************)
EXTENDS Naturals

CONSTANT Item

VARIABLES
    phase,       \* where an item is in its life
    token,       \* number of times it was handed out
    completedBy  \* the tokens under which a result was accepted

dispatchVars == <<phase, token, completedBy>>

Phase == {"pending", "offered", "held", "done", "dropped"}

DispatchInit ==
    /\ phase = [i \in Item |-> "pending"]
    /\ token = [i \in Item |-> 0]
    /\ completedBy = [i \in Item |-> {}]

Move(i, from, to) ==
    /\ phase[i] = from
    /\ phase' = [phase EXCEPT ![i] = to]

Offer(i) == Move(i, "pending", "offered") /\ UNCHANGED <<token, completedBy>>

Refuse(i) == Move(i, "pending", "dropped") /\ UNCHANGED <<token, completedBy>>

HandOut(i) ==
    /\ Move(i, "offered", "held")
    /\ token' = [token EXCEPT ![i] = @ + 1]
    /\ UNCHANGED completedBy

TakeBack(i) == Move(i, "held", "offered") /\ UNCHANGED <<token, completedBy>>

GiveUp(i) == Move(i, "held", "dropped") /\ UNCHANGED <<token, completedBy>>

Complete(i) ==
    /\ Move(i, "held", "done")
    /\ completedBy' = [completedBy EXCEPT ![i] = {token[i]}]
    /\ UNCHANGED token

DispatchNext ==
    \E i \in Item : Offer(i) \/ Refuse(i) \/ HandOut(i) \/ TakeBack(i)
                        \/ GiveUp(i) \/ Complete(i)

DispatchSpec == DispatchInit /\ [][DispatchNext]_dispatchVars
=============================================================================
