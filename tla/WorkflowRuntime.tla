-------------------------- MODULE WorkflowRuntime --------------------------
(***************************************************************************)
(* The workflow tables of the Headless Core and the transaction fragments   *)
(* of workflow_runtime.rs that move them.  Every other background component *)
(* (action gateway, durable timers, automation, signals) runs inside a      *)
(* SQLite transaction of its own and calls these fragments from it, so a    *)
(* fragment is an operator that constrains the primed workflow variables    *)
(* and the caller conjoins it with what the same transaction does to its    *)
(* own tables.                                                              *)
(*                                                                          *)
(* A fragment whose UPDATE must touch exactly one row returns Err otherwise *)
(* and the caller's transaction rolls back: its guard is a conjunct here.   *)
(***************************************************************************)
EXTENDS Naturals

CONSTANTS
    Workflow,   \* ids of workflow_instances (each has exactly one work item)
    Run,        \* run_id values; start_run is always given a fresh one
    Wait,       \* ids of workflow_wait_conditions
    None        \* SQL NULL

ASSUME NoneIsNoId == None \notin Workflow \cup Run \cup Wait

VARIABLES
    wfState,      \* workflow_instances.state, "ABSENT" before the INSERT
    currentRun,   \* workflow_instances.current_run_id
    currentWait,  \* workflow_instances.current_wait_condition_id
    item,         \* workflow_work_items.status
    attempt,      \* workflow_run_attempts, keyed by run_id
    wait          \* workflow_wait_conditions, keyed by id

instanceVars == <<wfState, currentRun, currentWait, item>>
workflowVars == <<wfState, currentRun, currentWait, item, attempt, wait>>

WaitKind == {"event", "timer", "human", "approval"}

WaitingFor ==
    [event |-> "WAITING_EVENT", timer |-> "WAITING_TIMER",
     human |-> "WAITING_HUMAN", approval |-> "WAITING_APPROVAL"]

WaitingStates ==
    {"WAITING_EVENT", "WAITING_TIMER", "WAITING_HUMAN", "WAITING_APPROVAL"}

TerminalStates == {"COMPLETED", "FAILED", "CANCELLED"}

StartableStates == {"READY", "RETRY_SCHEDULED"}

WorkflowState ==
    {"ABSENT", "RUNNING"} \cup StartableStates \cup WaitingStates
        \cup TerminalStates

ItemStatus ==
    {"absent", "queued", "active", "waiting", "completed", "failed",
     "cancelled"}

Attempt ==
    [workflow : Workflow, number : Nat,
     status : {"running", "completed", "failed", "interrupted"}]

WaitCondition ==
    [workflow : Workflow, kind : WaitKind,
     status : {"pending", "satisfied", "cancelled", "failed"}]

\* NULL is no row of a table.
ASSUME NoneIsNoRow == None \notin Attempt \cup WaitCondition

WorkflowTypeOK ==
    /\ wfState \in [Workflow -> WorkflowState]
    /\ currentRun \in [Workflow -> Run \cup {None}]
    /\ currentWait \in [Workflow -> Wait \cup {None}]
    /\ item \in [Workflow -> ItemStatus]
    /\ attempt \in [Run -> Attempt \cup {None}]
    /\ wait \in [Wait -> WaitCondition \cup {None}]

WorkflowInit ==
    /\ wfState = [w \in Workflow |-> "ABSENT"]
    /\ currentRun = [w \in Workflow |-> None]
    /\ currentWait = [w \in Workflow |-> None]
    /\ item = [w \in Workflow |-> "absent"]
    /\ attempt = [r \in Run |-> None]
    /\ wait = [c \in Wait |-> None]

-----------------------------------------------------------------------------
(* Rows *)

\* The INSERT of a wait condition; both UNIQUE keys of the table are its id.
InsertWait(c, w, kind) ==
    wait' = [wait EXCEPT ![c] =
                [workflow |-> w, kind |-> kind, status |-> "pending"]]

WaitIs(c, status) == wait[c] # None /\ wait[c].status = status

\* UPDATE ... SET status = s WHERE id = c AND status = 'pending'
SettleWait(c, status) ==
    wait' = IF WaitIs(c, "pending")
            THEN [wait EXCEPT ![c].status = status]
            ELSE wait

AttemptRuns(w, r) ==
    r \in Run /\ attempt[r] # None
        /\ attempt[r].workflow = w /\ attempt[r].status = "running"

\* Faulty variant: the attempt row is left open.
FinishNothing(w, r, status) == UNCHANGED attempt

\* Ends the attempt of run r if it is still running; r may be NULL.
FinishAttempt(w, r, status) ==
    attempt' = IF AttemptRuns(w, r)
               THEN [attempt EXCEPT ![r].status = status]
               ELSE attempt

-----------------------------------------------------------------------------
(* Transaction fragments *)

\* Constrains instanceVars; INSERT OR IGNORE of both rows.
CreateWorkflow(w) ==
    /\ IF wfState[w] = "ABSENT"
       THEN /\ wfState' = [wfState EXCEPT ![w] = "READY"]
            /\ item' = [item EXCEPT ![w] = "queued"]
       ELSE UNCHANGED <<wfState, item>>
    /\ UNCHANGED <<currentRun, currentWait>>

\* run_id is UNIQUE and so is (workflow_id, attempt_number).
FreshAttempt(w, r, n) ==
    /\ attempt[r] = None
    /\ \A q \in Run : attempt[q] # None =>
          ~(attempt[q].workflow = w /\ attempt[q].number = n)

CanStartRun(w, r, n) ==
    FreshAttempt(w, r, n) /\ wfState[w] \in StartableStates

\* Constrains workflowVars except wait.
StartRun(w, r, n) ==
    /\ CanStartRun(w, r, n)
    /\ attempt' = [attempt EXCEPT ![r] =
                      [workflow |-> w, number |-> n, status |-> "running"]]
    /\ wfState' = [wfState EXCEPT ![w] = "RUNNING"]
    /\ currentRun' = [currentRun EXCEPT ![w] = r]
    /\ currentWait' = [currentWait EXCEPT ![w] = None]
    /\ item' = [item EXCEPT ![w] = "active"]

\* Constrains workflowVars except wait.
MarkRetryScheduled(w, r) ==
    /\ wfState[w] = "RUNNING"
    /\ FinishAttempt(w, r, "failed")
    /\ wfState' = [wfState EXCEPT ![w] = "RETRY_SCHEDULED"]
    /\ currentRun' = [currentRun EXCEPT ![w] = None]
    /\ item' = [item EXCEPT ![w] = "queued"]
    /\ UNCHANGED currentWait

\* Constrains workflowVars except wait.
MarkCompleted(w, r) ==
    /\ wfState[w] = "RUNNING"
    /\ FinishAttempt(w, r, "completed")
    /\ wfState' = [wfState EXCEPT ![w] = "COMPLETED"]
    /\ currentRun' = [currentRun EXCEPT ![w] = None]
    /\ item' = [item EXCEPT ![w] = "completed"]
    /\ UNCHANGED currentWait

\* Constrains workflowVars except wait.
MarkFailed(w, r) ==
    /\ wfState[w] \notin {"ABSENT", "COMPLETED", "CANCELLED"}
    /\ FinishAttempt(w, r, "failed")
    /\ wfState' = [wfState EXCEPT ![w] = "FAILED"]
    /\ currentRun' = [currentRun EXCEPT ![w] = None]
    /\ item' = [item EXCEPT ![w] = "failed"]
    /\ UNCHANGED currentWait

\* The part suspend_run and mark_waiting_approval share; constrains
\* workflowVars except wait.
EndRunWaiting(w, r, c, kind) ==
    /\ wfState[w] = "RUNNING"
    /\ FinishAttempt(w, r, "completed")
    /\ wfState' = [wfState EXCEPT ![w] = WaitingFor[kind]]
    /\ currentRun' = [currentRun EXCEPT ![w] = None]
    /\ currentWait' = [currentWait EXCEPT ![w] = c]
    /\ item' = [item EXCEPT ![w] = "waiting"]

\* The wait of a mutation approval is new or the transaction rolls back.
MarkWaitingApproval(w, r, c) ==
    /\ wait[c] = None
    /\ InsertWait(c, w, "approval")
    /\ EndRunWaiting(w, r, c, "approval")

\* INSERT OR IGNORE: a wait already stored under the same key is reused.
SuspendRun(w, r, c, kind) ==
    /\ IF wait[c] = None THEN InsertWait(c, w, kind) ELSE UNCHANGED wait
    /\ EndRunWaiting(w, r, c, kind)

CanResume(w, c) == currentWait[w] = c /\ wfState[w] \in WaitingStates

\* Constrains workflowVars except wait; affects no row when ~CanResume(w, c).
ResumeWorkflow(w, c) ==
    /\ IF CanResume(w, c)
       THEN /\ wfState' = [wfState EXCEPT ![w] = "READY"]
            /\ currentWait' = [currentWait EXCEPT ![w] = None]
            /\ item' = [item EXCEPT ![w] = "queued"]
       ELSE UNCHANGED <<wfState, currentWait, item>>
    /\ UNCHANGED <<currentRun, attempt>>

\* UPDATE workflow_instances SET state = s, WITHOUT a condition on the state
\* it had: how the action gateway ends, fails and recovers a workflow.
ForceState(w, state, status) ==
    /\ wfState' = [wfState EXCEPT ![w] = state]
    /\ item' = [item EXCEPT ![w] = status]
=============================================================================
