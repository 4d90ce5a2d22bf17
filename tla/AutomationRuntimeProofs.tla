---------------------- MODULE AutomationRuntimeProofs ----------------------
(***************************************************************************)
(* Theorems about AutomationRuntime, for every set of automation runs,      *)
(* tasks and agent runs, every retry limit, and any number of stops and of  *)
(* replacements of the scheduler.                                           *)
(*                                                                          *)
(* That a row and its workflow agree is inductive only with what the two    *)
(* tasks of the Core remember: a claim that is being prepared is still      *)
(* without a run or was given up (Prepared), a row recovery has read is     *)
(* still bound to the run it read, if it still runs (RowsAreFresh), and a   *)
(* context of the supervisor carries the feed position of the run it        *)
(* settles (ContextsAreTrue).                                               *)
(***************************************************************************)
EXTENDS AutomationRuntime, FiniteSetTheorems, TLAPS

USE NoneIsNoId, JobsHaveWorkflows, RunsHaveWaits, BoundsAreNatural,
    NoneIsNoTask, TablesAreFinite

-----------------------------------------------------------------------------
(* What the fragments of WorkflowRuntime that are called here keep.        *)

\* A workflow runs exactly when it names a run, and that run is its only open
\* attempt.
RunsAgree(w) ==
    /\ (wfState[w] = "RUNNING") <=> (currentRun[w] # None)
    /\ \A r \in Run : AttemptRuns(w, r) <=> (currentRun[w] = r)

\* The states and statuses these fragments write are those of the schema.
LEMMA WrittenStates ==
    /\ {"READY", "RUNNING", "COMPLETED", "FAILED", "CANCELLED",
        "RETRY_SCHEDULED", "WAITING_APPROVAL"} \subseteq WorkflowState
    /\ {"queued", "active", "waiting", "completed", "failed", "cancelled"}
          \subseteq ItemStatus
BY DEF WorkflowState, StartableStates, WaitingStates, TerminalStates, ItemStatus

\* Ending the attempt of a run, or of no run, keeps the table typed.
LEMMA FinishAttemptType ==
    ASSUME WorkflowTypeOK, NEW w \in Workflow, NEW r \in Run \cup {None},
           NEW s \in {"completed", "failed", "interrupted"},
           FinishAttempt(w, r, s)
    PROVE  attempt' \in [Run -> Attempt \cup {None}]
<1>1. CASE AttemptRuns(w, r)
  <2>1. r \in Run /\ attempt[r] \in Attempt
    BY <1>1 DEF AttemptRuns, WorkflowTypeOK
  <2>2. [attempt[r] EXCEPT !.status = s] \in Attempt
    BY <2>1 DEF Attempt
  <2>3. attempt' = [attempt EXCEPT ![r] = [attempt[r] EXCEPT !.status = s]]
    BY <1>1 DEF FinishAttempt
  <2>. QED BY <2>1, <2>2, <2>3 DEF WorkflowTypeOK
<1>2. CASE ~AttemptRuns(w, r)
  BY <1>2 DEF FinishAttempt, WorkflowTypeOK
<1>. QED BY <1>1, <1>2

\* A new pending wait is a typed row.
LEMMA InsertWaitType ==
    ASSUME WorkflowTypeOK, NEW c \in Wait, NEW w \in Workflow,
           NEW k \in WaitKind, InsertWait(c, w, k)
    PROVE  wait' \in [Wait -> WaitCondition \cup {None}]
BY DEF InsertWait, WorkflowTypeOK, WaitCondition

\* A started run has a typed attempt row.
LEMMA StartRunType ==
    ASSUME WorkflowTypeOK, NEW w \in Workflow, NEW r \in Run, NEW n \in Nat,
           StartRun(w, r, n)
    PROVE  /\ wfState' \in [Workflow -> WorkflowState]
           /\ currentRun' \in [Workflow -> Run \cup {None}]
           /\ currentWait' \in [Workflow -> Wait \cup {None}]
           /\ item' \in [Workflow -> ItemStatus]
           /\ attempt' \in [Run -> Attempt \cup {None}]
<1>1. [workflow |-> w, number |-> n, status |-> "running"] \in Attempt
  BY DEF Attempt
<1>. QED BY <1>1, WrittenStates DEF StartRun, WorkflowTypeOK

\* Starting a run opens its attempt, and no other is open.
LEMMA StartKeepsRuns ==
    ASSUME WorkflowTypeOK, \A v \in Workflow : RunsAgree(v),
           NEW w \in Workflow, NEW r \in Run, NEW n \in Nat, StartRun(w, r, n)
    PROVE  /\ \A v \in Workflow : RunsAgree(v)'
           /\ attempt'[r] # None
           /\ \A q \in Run : attempt[q] # None => attempt'[q] = attempt[q]
<1>. DEFINE row == [workflow |-> w, number |-> n, status |-> "running"]
<1>1. /\ attempt[r] = None /\ wfState[w] \in StartableStates
      /\ attempt' = [attempt EXCEPT ![r] = row]
      /\ wfState' = [wfState EXCEPT ![w] = "RUNNING"]
      /\ currentRun' = [currentRun EXCEPT ![w] = r]
  BY DEF StartRun, CanStartRun, FreshAttempt
<1>2. row.workflow = w /\ row.status = "running" /\ row # None
  <2>1. row \in Attempt
    BY DEF Attempt
  <2>. QED BY <2>1, NoneIsNoRow
<1>. HIDE DEF row
<1>3. currentRun[w] = None
  BY <1>1 DEF RunsAgree, StartableStates
<1>. QED BY <1>1, <1>2, <1>3 DEF RunsAgree, AttemptRuns, WorkflowTypeOK

\* Ending the run of a workflow closes its attempt, whatever the workflow
\* becomes.
LEMMA EndKeepsRuns ==
    ASSUME WorkflowTypeOK, \A v \in Workflow : RunsAgree(v),
           NEW w \in Workflow, NEW r \in Run \cup {None},
           NEW s \in {"completed", "failed", "interrupted"},
           FinishAttempt(w, r, s),
           currentRun[w] \in {r, None},
           currentRun' = [currentRun EXCEPT ![w] = None],
           NEW x, x # "RUNNING",
           wfState' = [wfState EXCEPT ![w] = x]
    PROVE  /\ \A v \in Workflow : RunsAgree(v)'
           /\ \A q \in Run : attempt[q] # None => attempt'[q] # None
<1>1. \A v \in Workflow, q \in Run : AttemptRuns(v, q) <=> (currentRun[v] = q)
  BY DEF RunsAgree
<1>2. /\ \A q \in Run : (q # r \/ ~AttemptRuns(w, r)) => attempt'[q] = attempt[q]
      /\ AttemptRuns(w, r) => attempt'[r].status = s /\ attempt'[r] # None
  <2>1. CASE AttemptRuns(w, r)
    <3>1. attempt[r] \in Attempt
      BY <2>1 DEF WorkflowTypeOK, AttemptRuns
    <3>2. attempt' = [attempt EXCEPT ![r] = [attempt[r] EXCEPT !.status = s]]
      BY <2>1 DEF FinishAttempt
    <3>3. [attempt[r] EXCEPT !.status = s] \in Attempt
      BY <3>1 DEF Attempt
    <3>. QED BY <2>1, <3>1, <3>2, <3>3, NoneIsNoRow
             DEF WorkflowTypeOK, Attempt, AttemptRuns
  <2>2. CASE ~AttemptRuns(w, r)
    BY <2>2 DEF FinishAttempt
  <2>. QED BY <2>1, <2>2
<1>3. ASSUME NEW v \in Workflow, NEW q \in Run
      PROVE  AttemptRuns(v, q)' <=> (currentRun'[v] = q)
  <2>1. CASE v = w
    <3>1. currentRun'[v] # q
      BY <2>1 DEF WorkflowTypeOK
    <3>2. CASE AttemptRuns(w, r) /\ q = r
      BY <1>2, <3>1, <3>2 DEF AttemptRuns
    <3>3. CASE ~(AttemptRuns(w, r) /\ q = r)
      <4>1. ~AttemptRuns(w, q)
        BY <1>1, <3>3
      <4>2. attempt'[q] = attempt[q]
        BY <1>2, <3>3
      <4>. QED BY <2>1, <3>1, <4>1, <4>2 DEF AttemptRuns
    <3>. QED BY <3>2, <3>3
  <2>2. CASE v # w
    <3>1. currentRun'[v] = currentRun[v]
      BY <2>2 DEF WorkflowTypeOK
    <3>2. CASE AttemptRuns(w, r) /\ q = r
      BY <1>1, <1>2, <2>2, <3>1, <3>2 DEF AttemptRuns
    <3>3. CASE ~(AttemptRuns(w, r) /\ q = r)
      <4>1. attempt'[q] = attempt[q]
        BY <1>2, <3>3
      <4>. QED BY <1>1, <3>1, <4>1 DEF AttemptRuns
    <3>. QED BY <3>2, <3>3
  <2>. QED BY <2>1, <2>2
<1>4. \A v \in Workflow : (wfState'[v] = "RUNNING") <=> (currentRun'[v] # None)
  BY DEF RunsAgree, WorkflowTypeOK
<1>5. \A q \in Run : attempt[q] # None => attempt'[q] # None
  BY <1>2
<1>. QED BY <1>3, <1>4, <1>5 DEF RunsAgree

-----------------------------------------------------------------------------
\* The conjuncts of TypeOK about the database.
TablesOK ==
    /\ WorkflowTypeOK
    /\ jobStatus \in [Job -> JobStatus]
    /\ jobTask \in [Job -> Task \cup {None}]
    /\ jobRun \in [Job -> Run \cup {None}]
    /\ jobAttempts \in [Job -> 0..MaxAttempts]
    /\ jobBackoff \in [Job -> BOOLEAN]
    /\ jobOrder \in [Job -> Nat]

FeedOK ==
    /\ live \in SUBSET Task
    /\ cursor \in [Task -> 0..MaxSync]
    /\ jobCursor \in [Job -> 0..MaxSync]
    /\ synced \in 0..MaxSync

\* And about the memory of the Core.
MemoryOK ==
    /\ pc \in {"off", "tick", "orphans", "rows", "dispatch", "claimed",
               "started", "submitted"}
    /\ recovered \in BOOLEAN
    /\ seen \in SUBSET Run
    /\ rows \in SUBSET Row
    /\ dispatch \in Dispatch \cup {None}
    /\ commands \in SUBSET Context
    /\ reply \in {"none", "ok", "err"}
    /\ context \in [Run -> Context \cup {None}]
    /\ failing \in [run : Run, retryable : BOOLEAN] \cup {None}
    /\ exiting \in BOOLEAN
    /\ exitRuns \in SUBSET Run
    /\ stops \in 0..MaxStops /\ aborts \in 0..MaxAborts

\* JobAgreesWithWorkflow, of one row, with what a row that waits for its turn
\* holds: no run, and attempts to spare.
JobAgrees(j) ==
    /\ wfState[j] \in WorkflowStatesOf[jobStatus[j]]
    /\ wfState[j] = "RUNNING" => currentRun[j] = jobRun[j]
    /\ jobStatus[j] = "running" =>
          (jobRun[j] # None <=> wfState[j] = "RUNNING")
    /\ jobStatus[j] \in {"absent", "queued"} => jobRun[j] = None
    /\ jobStatus[j] = "queued" => jobAttempts[j] < MaxAttempts
    /\ jobStatus[j] = "absent" => jobAttempts[j] = 0

TablesAgree ==
    /\ \A w \in Workflow : RunsAgree(w)
    /\ \A j \in Job : JobAgrees(j)

\* A claimed row without a run is left to the scheduler, or given up by a
\* late error.
Prepared ==
    /\ pc = "claimed" =>
          /\ dispatch \in Dispatch
          /\ \/ jobStatus[dispatch.job] = "failed"
             \/ jobStatus[dispatch.job] = "running" /\ jobRun[dispatch.job] = None
    /\ pc \in {"started", "submitted"} =>
          /\ dispatch \in Dispatch /\ dispatch.run \in Run
          /\ attempt[dispatch.run] # None

\* What recovery read of a row that still runs is still so.
RowsAreFresh ==
    /\ pc # "rows" => rows = {}
    /\ \A row \in rows : jobStatus[row.job] = "running" =>
          jobRun[row.job] = row.run /\ jobAttempts[row.job] = row.attempts

\* The supervisor takes a command from its channel.
CommandAccepted == \E c \in commands : AcceptCommand(c)

\* A context was made for a run that has its attempt, and while that run is
\* the current one, of the position it has read.
ContextIsTrue(x) ==
    /\ attempt[x.run] # None
    /\ IsCurrentRun(x.job, x.run) => jobCursor[x.job] = x.cursor

ContextsAreTrue ==
    /\ \A c \in commands : ContextIsTrue(c)
    /\ \A r \in Active : context[r].run = r /\ ContextIsTrue(context[r])

\* The runs to settle after the worker's death, and the one whose settlement
\* has begun, still have their context.
ExitsHaveContexts ==
    /\ failing # None => failing.run \in Active
    /\ exitRuns \subseteq Active
    /\ ~exiting => exitRuns = {}

IInv ==
    /\ TablesOK /\ FeedOK /\ MemoryOK
    /\ TablesAgree
    /\ Prepared
    /\ RowsAreFresh
    /\ ContextsAreTrue
    /\ ExitsHaveContexts

-----------------------------------------------------------------------------
(* Transactions on one row *)

LEMMA StatesOf ==
    /\ WorkflowStatesOf["absent"] = {"ABSENT"}
    /\ WorkflowStatesOf["queued"] = {"ABSENT", "RETRY_SCHEDULED"}
    /\ WorkflowStatesOf["running"] = {"READY", "RETRY_SCHEDULED", "RUNNING"}
    /\ WorkflowStatesOf["waiting_approval"] = {"WAITING_APPROVAL"}
    /\ WorkflowStatesOf["completed"] = {"COMPLETED"}
    /\ WorkflowStatesOf["failed"] = {"FAILED"}
BY DEF WorkflowStatesOf

\* Only a row that runs has a RUNNING workflow.
LEMMA RunningWorkflow ==
    ASSUME IInv, NEW j \in Job, wfState[j] = "RUNNING"
    PROVE  /\ jobStatus[j] = "running" /\ currentRun[j] = jobRun[j]
           /\ jobRun[j] \in Run
BY StatesOf DEF IInv, TablesOK, JobStatus, TablesAgree, JobAgrees

\* A workflow that does not run names no run.
LEMMA CurrentRun ==
    ASSUME IInv, NEW j \in Job
    PROVE  currentRun[j] \in {jobRun[j], None}
<1>1. CASE wfState[j] = "RUNNING"
  BY <1>1, RunningWorkflow
<1>2. CASE wfState[j] # "RUNNING"
  BY <1>2 DEF IInv, TablesAgree, RunsAgree
<1>. QED BY <1>1, <1>2

\* What the transactions other than a claim and a start have in common: no
\* row begins to run, or gets a run or an attempt; a row that failed stays
\* so, and one without a run can only fail.
NothingStarts ==
    /\ \A j \in Job :
          /\ jobAttempts'[j] = jobAttempts[j] /\ jobCursor'[j] = jobCursor[j]
          /\ jobStatus'[j] = "running" =>
                jobStatus[j] = "running" /\ jobRun'[j] = jobRun[j]
          /\ jobStatus[j] = "failed" => jobStatus'[j] = "failed"
          /\ jobStatus[j] = "running" /\ jobRun[j] = None =>
                jobStatus'[j] \in {"running", "failed"}
    /\ \A r \in Run : attempt[r] # None => attempt'[r] # None

LEMMA DeadLetterKeeps ==
    ASSUME IInv, NEW j \in Job, DeadLetter(j, jobRun[j]), UNCHANGED jobCursor
    PROVE  TablesOK' /\ TablesAgree' /\ NothingStarts
<1>. DEFINE r == jobRun[j]
<1>1. /\ r \in Run \cup {None} /\ j \in Workflow
      /\ jobStatus' = [jobStatus EXCEPT ![j] = "failed"]
      /\ jobBackoff' = [jobBackoff EXCEPT ![j] = FALSE]
      /\ UNCHANGED <<wait, jobTask, jobRun, jobAttempts, jobOrder>>
      /\ FinishAttempt(j, r, "failed")
      /\ wfState' = [wfState EXCEPT ![j] = "FAILED"]
      /\ currentRun' = [currentRun EXCEPT ![j] = None]
      /\ item' = [item EXCEPT ![j] = "failed"]
      /\ UNCHANGED currentWait
  BY DEF IInv, TablesOK, DeadLetter, MarkFailed
<1>2. WorkflowTypeOK /\ \A w \in Workflow : RunsAgree(w)
  BY DEF IInv, TablesOK, TablesAgree
<1>3. currentRun[j] \in {r, None}
  BY CurrentRun
<1>. HIDE DEF r
<1>4. attempt' \in [Run -> Attempt \cup {None}]
  BY <1>1, <1>2, FinishAttemptType
<1>5. /\ \A w \in Workflow : RunsAgree(w)'
      /\ \A q \in Run : attempt[q] # None => attempt'[q] # None
  BY <1>1, <1>2, <1>3, EndKeepsRuns
<1>6. TablesOK'
  BY <1>1, <1>4, WrittenStates DEF IInv, TablesOK, WorkflowTypeOK, JobStatus
<1>7. \A i \in Job : JobAgrees(i)'
  BY <1>1, StatesOf DEF IInv, TablesOK, WorkflowTypeOK, TablesAgree, JobAgrees
<1>8. NothingStarts
  BY <1>1, <1>5 DEF IInv, TablesOK, NothingStarts
<1>. QED BY <1>5, <1>6, <1>7, <1>8 DEF TablesAgree

LEMMA RequeueKeeps ==
    ASSUME IInv, NEW j \in Job, NEW b \in BOOLEAN,
           Requeue(j, jobRun[j], b), jobAttempts[j] < MaxAttempts,
           UNCHANGED jobCursor
    PROVE  TablesOK' /\ TablesAgree' /\ NothingStarts
<1>. DEFINE r == jobRun[j]
<1>1. /\ r \in Run \cup {None} /\ j \in Workflow
      /\ jobStatus' = [jobStatus EXCEPT ![j] = "queued"]
      /\ jobRun' = [jobRun EXCEPT ![j] = None]
      /\ jobBackoff' = [jobBackoff EXCEPT ![j] = b]
      /\ UNCHANGED <<wait, jobTask, jobAttempts, jobOrder>>
      /\ wfState[j] = "RUNNING"
      /\ FinishAttempt(j, r, "failed")
      /\ wfState' = [wfState EXCEPT ![j] = "RETRY_SCHEDULED"]
      /\ currentRun' = [currentRun EXCEPT ![j] = None]
      /\ item' = [item EXCEPT ![j] = "queued"]
      /\ UNCHANGED currentWait
  BY DEF IInv, TablesOK, Requeue, RequeueWorkflow, MarkRetryScheduled
<1>2. WorkflowTypeOK /\ \A w \in Workflow : RunsAgree(w)
  BY DEF IInv, TablesOK, TablesAgree
<1>3. currentRun[j] \in {r, None} /\ jobStatus[j] = "running" /\ jobRun[j] # None
  BY <1>1, RunningWorkflow
<1>. HIDE DEF r
<1>4. attempt' \in [Run -> Attempt \cup {None}]
  BY <1>1, <1>2, FinishAttemptType
<1>5. /\ \A w \in Workflow : RunsAgree(w)'
      /\ \A q \in Run : attempt[q] # None => attempt'[q] # None
  BY <1>1, <1>2, <1>3, EndKeepsRuns
<1>6. TablesOK'
  BY <1>1, <1>4, WrittenStates DEF IInv, TablesOK, WorkflowTypeOK, JobStatus
<1>7. \A i \in Job : JobAgrees(i)'
  BY <1>1, StatesOf DEF IInv, TablesOK, WorkflowTypeOK, TablesAgree, JobAgrees
<1>8. NothingStarts
  BY <1>1, <1>3, <1>5 DEF IInv, TablesOK, NothingStarts
<1>. QED BY <1>5, <1>6, <1>7, <1>8 DEF TablesAgree

\* A step that leaves the tables alone.
LEMMA TablesAlone ==
    ASSUME IInv, UNCHANGED <<workflowVars, jobVars, jobCursor>>
    PROVE  TablesOK' /\ TablesAgree' /\ NothingStarts
BY DEF IInv, TablesOK, WorkflowTypeOK, TablesAgree, RunsAgree, AttemptRuns,
       JobAgrees, NothingStarts, workflowVars, jobVars

\* schedule_failure, whatever run or status the row has by now.
LEMMA ScheduleFailureKeeps ==
    ASSUME IInv, NEW j \in Job, NEW t \in BOOLEAN, ScheduleFailure(j, t),
           UNCHANGED jobCursor
    PROVE  TablesOK' /\ TablesAgree' /\ NothingStarts
<1>1. CASE ~t \/ Exhausted(jobAttempts[j])
  BY <1>1, DeadLetterKeeps DEF ScheduleFailure
<1>2. CASE ~(~t \/ Exhausted(jobAttempts[j]))
  <2>1. jobAttempts[j] < MaxAttempts
    BY <1>2 DEF IInv, TablesOK, Exhausted
  <2>. QED BY <1>2, <2>1, RequeueKeeps DEF ScheduleFailure
<1>. QED BY <1>1, <1>2

LEMMA TryScheduleFailureKeeps ==
    ASSUME IInv, NEW j \in Job, NEW t \in BOOLEAN, TryScheduleFailure(j, t),
           UNCHANGED jobCursor
    PROVE  TablesOK' /\ TablesAgree' /\ NothingStarts
BY ScheduleFailureKeeps, TablesAlone DEF TryScheduleFailure

\* The settlement of a result that is current ends the run of its row.
LEMMA SettleResultKeeps ==
    ASSUME IInv, NEW r \in Run, NEW outcome \in {"completed", "waiting_approval"},
           SettleResult(r, outcome)
    PROVE  TablesOK' /\ TablesAgree' /\ NothingStarts
<1>. DEFINE j == context[r].job
            s == IF outcome = "completed" THEN "COMPLETED" ELSE "WAITING_APPROVAL"
<1>1. j \in Job /\ j \in Workflow
  BY DEF IInv, MemoryOK, SettleResult, Active, Context
<1>2. /\ jobStatus[j] = "running" /\ jobRun[j] = r
      /\ jobStatus' = [jobStatus EXCEPT ![j] = outcome]
      /\ UNCHANGED <<jobTask, jobRun, jobAttempts, jobBackoff, jobOrder, jobCursor>>
  BY DEF SettleResult, ResultIsCurrent, IsCurrentRun
<1>3. /\ wfState[j] = "RUNNING"
      /\ FinishAttempt(j, r, "completed")
      /\ wfState' = [wfState EXCEPT ![j] = s]
      /\ currentRun' = [currentRun EXCEPT ![j] = None]
  BY DEF SettleResult, SettleWorkflow, MarkCompleted, MarkWaitingApproval,
         EndRunWaiting, WaitingFor
<1>4. WorkflowTypeOK /\ \A w \in Workflow : RunsAgree(w)
  BY DEF IInv, TablesOK, TablesAgree
<1>5. wait' \in [Wait -> WaitCondition \cup {None}]
  <2>1. CASE UNCHANGED wait
    BY <1>4, <2>1 DEF WorkflowTypeOK
  <2>2. CASE InsertWait(r, j, "approval")
    BY <1>1, <1>4, <2>2, InsertWaitType DEF WaitKind
  <2>. QED BY <2>1, <2>2 DEF SettleResult, SettleWorkflow, MarkWaitingApproval
<1>6. /\ currentWait' \in [Workflow -> Wait \cup {None}]
      /\ item' \in [Workflow -> ItemStatus]
  BY <1>1, <1>4, WrittenStates DEF SettleResult, SettleWorkflow, MarkCompleted,
     MarkWaitingApproval, EndRunWaiting, WorkflowTypeOK
<1>7. currentRun[j] = r /\ r # None
  BY <1>1, <1>2, <1>3, RunningWorkflow
<1>8. s \in {"COMPLETED", "WAITING_APPROVAL"} /\ (s = "COMPLETED" <=> outcome = "completed")
  OBVIOUS
<1>. HIDE DEF j, s
<1>9. attempt' \in [Run -> Attempt \cup {None}]
  BY <1>1, <1>3, <1>4, FinishAttemptType
<1>10. /\ \A w \in Workflow : RunsAgree(w)'
       /\ \A q \in Run : attempt[q] # None => attempt'[q] # None
  BY <1>1, <1>3, <1>4, <1>7, <1>8, EndKeepsRuns
<1>11. TablesOK'
  BY <1>1, <1>2, <1>3, <1>5, <1>6, <1>8, <1>9, WrittenStates
     DEF IInv, TablesOK, WorkflowTypeOK, JobStatus
<1>12. \A i \in Job : JobAgrees(i)'
  BY <1>1, <1>2, <1>3, <1>8, StatesOf
     DEF IInv, TablesOK, WorkflowTypeOK, TablesAgree, JobAgrees
<1>13. NothingStarts
  BY <1>1, <1>2, <1>7, <1>10 DEF IInv, TablesOK, NothingStarts
<1>. QED BY <1>10, <1>11, <1>12, <1>13 DEF TablesAgree

\* A queued row has no run and no attempt yet.
LEMMA InsertKeeps ==
    ASSUME IInv, NEW j \in Job, NEW t \in Task, InsertJob(j, t)
    PROVE  TablesOK' /\ TablesAgree' /\ NothingStarts
<1>1. Cardinality(Stored) \in Nat
  BY FS_Subset, FS_CardinalityType DEF Stored
<1>2. /\ jobStatus[j] = "absent"
      /\ jobStatus' = [jobStatus EXCEPT ![j] = "queued"]
      /\ UNCHANGED <<workflowVars, jobRun, jobAttempts, jobBackoff, jobCursor>>
  BY DEF InsertJob, feedVars
<1>3. TablesOK'
  BY <1>1, <1>2 DEF InsertJob, IInv, TablesOK, WorkflowTypeOK, workflowVars, JobStatus
<1>4. \A i \in Job : JobAgrees(i)'
  BY <1>2, StatesOf DEF IInv, TablesOK, TablesAgree, JobAgrees, workflowVars
<1>5. \A w \in Workflow : RunsAgree(w)'
  BY <1>2 DEF IInv, TablesAgree, RunsAgree, AttemptRuns, workflowVars
<1>6. NothingStarts
  BY <1>2 DEF IInv, TablesOK, NothingStarts, workflowVars
<1>. QED BY <1>3, <1>4, <1>5, <1>6 DEF TablesAgree

\* A claim is offered to a row that has attempts left; it makes the row run
\* before it has a run.
LEMMA ClaimKeeps ==
    ASSUME IInv, NEW j \in Job, ClaimNextRun(j)
    PROVE  TablesOK' /\ TablesAgree'
<1>1. /\ jobStatus[j] = "queued" /\ jobRun[j] = None
      /\ jobAttempts[j] \in Nat /\ jobAttempts[j] < MaxAttempts
      /\ wfState[j] \in {"ABSENT", "RETRY_SCHEDULED"}
  BY StatesOf DEF ClaimNextRun, Claimable, IInv, TablesOK, TablesAgree, JobAgrees
<1>2. /\ jobStatus' = [jobStatus EXCEPT ![j] = "running"]
      /\ jobAttempts' = [jobAttempts EXCEPT ![j] = jobAttempts[j] + 1]
      /\ wfState' = [wfState EXCEPT ![j] =
                        IF wfState[j] = "ABSENT" THEN "READY" ELSE wfState[j]]
      /\ item' \in [Workflow -> ItemStatus]
      /\ UNCHANGED <<currentRun, currentWait, attempt, wait, jobTask, jobRun,
                     jobBackoff, jobOrder>>
  BY WrittenStates
     DEF ClaimNextRun, CreateWorkflow, IInv, TablesOK, WorkflowTypeOK
<1>3. TablesOK'
  BY <1>1, <1>2, WrittenStates DEF IInv, TablesOK, WorkflowTypeOK, JobStatus
<1>4. \A i \in Job : JobAgrees(i)'
  BY <1>1, <1>2, StatesOf DEF IInv, TablesOK, WorkflowTypeOK, TablesAgree, JobAgrees
<1>5. \A w \in Workflow : RunsAgree(w)'
  BY <1>1, <1>2 DEF IInv, TablesOK, WorkflowTypeOK, TablesAgree, RunsAgree, AttemptRuns
<1>. QED BY <1>3, <1>4, <1>5 DEF TablesAgree

\* The claimed row runs when its run starts: given up, its workflow would not
\* be startable.
LEMMA StartedRow ==
    ASSUME IInv, NEW r \in Run, NEW c \in 0..MaxSync, StartJobRun(r, c)
    PROVE  LET j == dispatch.job IN
           /\ dispatch \in Dispatch
           /\ jobStatus[j] = "running" /\ jobRun[j] = None
           /\ StartRun(j, r, dispatch.number)
           /\ jobRun' = [jobRun EXCEPT ![j] = r]
           /\ jobCursor' = [jobCursor EXCEPT ![j] = c]
<1>. DEFINE j == dispatch.job
<1>1. dispatch \in Dispatch /\ j \in Job
  BY DEF StartJobRun, IInv, Prepared, Dispatch
<1>2. wfState[j] \in StartableStates
  BY DEF StartJobRun, StartRun, CanStartRun
<1>3. jobStatus[j] # "failed"
  BY <1>1, <1>2, StatesOf DEF IInv, TablesAgree, JobAgrees, StartableStates
<1>. QED BY <1>1, <1>3 DEF StartJobRun, IInv, Prepared

LEMMA StartKeeps ==
    ASSUME IInv, NEW r \in Run, NEW c \in 0..MaxSync, StartJobRun(r, c)
    PROVE  /\ TablesOK' /\ TablesAgree'
           /\ attempt'[r] # None
           /\ \A q \in Run : attempt[q] # None => attempt'[q] = attempt[q]
<1>. DEFINE j == dispatch.job
            n == dispatch.number
<1>1. /\ j \in Job /\ j \in Workflow /\ n \in Nat
      /\ jobStatus[j] = "running" /\ StartRun(j, r, n)
      /\ jobRun' = [jobRun EXCEPT ![j] = r]
      /\ UNCHANGED <<wait, jobStatus, jobTask, jobAttempts, jobBackoff, jobOrder>>
  BY StartedRow DEF Dispatch, StartJobRun
<1>. HIDE DEF j, n
<1>2. WorkflowTypeOK /\ \A w \in Workflow : RunsAgree(w)
  BY DEF IInv, TablesOK, TablesAgree
<1>3. /\ \A w \in Workflow : RunsAgree(w)'
      /\ attempt'[r] # None
      /\ \A q \in Run : attempt[q] # None => attempt'[q] = attempt[q]
  BY <1>1, <1>2, StartKeepsRuns
<1>4. TablesOK'
  BY <1>1, <1>2, StartRunType DEF IInv, TablesOK, WorkflowTypeOK
<1>5. \A i \in Job : JobAgrees(i)'
  <2>1. /\ wfState' = [wfState EXCEPT ![j] = "RUNNING"]
        /\ currentRun' = [currentRun EXCEPT ![j] = r]
    BY <1>1 DEF StartRun
  <2>. QED BY <1>1, <2>1, StatesOf
           DEF IInv, TablesOK, WorkflowTypeOK, TablesAgree, JobAgrees
<1>. QED BY <1>3, <1>4, <1>5 DEF TablesAgree

\* A row of recovery is given up, requeued under the run it was read with, or
\* left alone.
LEMMA RecoverKeeps ==
    ASSUME IInv, NEW row \in rows, RecoverOrphan(row)
    PROVE  TablesOK' /\ TablesAgree' /\ NothingStarts
<1>1. row \in Row /\ row.job \in Job /\ row.attempts \in Nat
  BY DEF IInv, MemoryOK, Row
<1>2. UNCHANGED jobCursor
  BY DEF RecoverOrphan, feedVars
<1>3. CASE DeadLetter(row.job, jobRun[row.job])
  BY <1>1, <1>2, <1>3, DeadLetterKeeps
<1>4. CASE UNCHANGED <<workflowVars, jobVars>>
  BY <1>2, <1>4, TablesAlone
<1>5. CASE /\ ~Exhausted(row.attempts) /\ jobStatus[row.job] = "running"
           /\ Requeue(row.job, row.run, FALSE)
  <2>1. jobRun[row.job] = row.run /\ jobAttempts[row.job] = row.attempts
    BY <1>5 DEF IInv, RowsAreFresh
  <2>2. jobAttempts[row.job] < MaxAttempts
    BY <1>1, <1>5, <2>1 DEF Exhausted
  <2>. QED BY <1>1, <1>2, <1>5, <2>1, <2>2, RequeueKeeps
<1>. QED BY <1>3, <1>4, <1>5 DEF RecoverOrphan

-----------------------------------------------------------------------------
(* The tables in every step *)

\* Every step but a claim and a start begins nothing, and every step keeps
\* the tables in agreement.
LEMMA TablesStep ==
    ASSUME IInv, [Next]_vars
    PROVE  /\ TablesOK' /\ TablesAgree'
           /\ \/ NothingStarts
              \/ \E j \in Job : ClaimNextRun(j)
              \/ \E r \in Run, c \in 0..MaxSync : StartJobRun(r, c)
<1>. DEFINE G == /\ TablesOK' /\ TablesAgree'
                 /\ \/ NothingStarts
                    \/ \E j \in Job : ClaimNextRun(j)
                    \/ \E r \in Run, c \in 0..MaxSync : StartJobRun(r, c)
<1>0. ASSUME UNCHANGED <<workflowVars, jobVars, jobCursor>> PROVE G
  BY <1>0, TablesAlone
<1>1. ASSUME NEW j \in Job, NEW t \in Task, EnqueueManual(j, t) \/ EnqueueDue(j, t)
      PROVE  G
  BY <1>1, InsertKeeps DEF EnqueueManual, EnqueueDue
<1>2. ASSUME NEW t \in Task, DeleteTask(t) PROVE G
  <2>1. jobTask' \in [Job -> Task \cup {None}]
    BY <1>2 DEF DeleteTask, IInv, TablesOK
  <2>. QED BY <1>2, <2>1
           DEF DeleteTask, IInv, TablesOK, WorkflowTypeOK, TablesAgree, RunsAgree,
               AttemptRuns, JobAgrees, NothingStarts, workflowVars
<1>3. ASSUME NEW j \in Job, BackoffElapses(j) PROVE G
  <2>1. jobBackoff' \in [Job -> BOOLEAN]
    BY <1>3 DEF BackoffElapses, IInv, TablesOK
  <2>. QED BY <1>3, <2>1
           DEF BackoffElapses, IInv, TablesOK, WorkflowTypeOK, TablesAgree,
               RunsAgree, AttemptRuns, JobAgrees, NothingStarts, workflowVars,
               feedVars
<1>4. CASE FeedSync \/ StartScheduler \/ BeginTick \/ ReadOrphans \/ RecoveryDone
             \/ NothingToDispatch \/ Submit \/ SubmissionAccepted
             \/ CommandAccepted \/ RestartWorker \/ WorkerDies \/ AbortScheduler
             \/ Stop \/ UNCHANGED vars
  BY <1>0, <1>4 DEF FeedSync, StartScheduler, BeginTick, ReadOrphans,
       RecoveryDone, NothingToDispatch, Submit, SubmissionAccepted, EndDispatch,
       CommandAccepted, AcceptCommand, RestartWorker, WorkerDies, LoseWorker, AbortScheduler, Stop,
       vars, feedVars
<1>5. ASSUME NEW row \in rows, RecoverOrphan(row) PROVE G
  BY <1>5, RecoverKeeps
<1>6. ASSUME NEW row \in rows, RecoveryFails(row) PROVE G
  BY <1>0, <1>6 DEF RecoveryFails, feedVars
<1>7. ASSUME NEW j \in Job, ClaimNextRun(j) PROVE G
  BY <1>7, ClaimKeeps
<1>8. ASSUME NEW r \in Run, NEW c \in 0..MaxSync, StartJobRun(r, c) PROVE G
  BY <1>8, StartKeeps
<1>9. CASE PreparationFails
  <2>1. dispatch.job \in Job
    BY <1>9 DEF PreparationFails, IInv, Prepared, Dispatch
  <2>. QED BY <1>9, <2>1, TryScheduleFailureKeeps
           DEF PreparationFails, EndDispatch, feedVars
<1>10. CASE SubmissionFails
  <2>1. dispatch.job \in Job
    BY <1>10 DEF SubmissionFails, IInv, Prepared, Dispatch
  <2>. QED BY <1>10, <2>1, TryScheduleFailureKeeps
           DEF SubmissionFails, EndDispatch, feedVars
<1>11. CASE SettleError
  <2>1. context[failing.run].job \in Job /\ failing.retryable \in BOOLEAN
    BY <1>11 DEF SettleError, IInv, ExitsHaveContexts, MemoryOK, Active, Context
  <2>. QED BY <1>11, <2>1, ScheduleFailureKeeps DEF SettleError, feedVars
<1>12. CASE SettleErrorFails
  BY <1>0, <1>12 DEF SettleErrorFails, LoseWorker, feedVars
<1>13. ASSUME NEW r \in Run, RunEnds(r) PROVE G
  <2>1. CASE \E outcome \in {"completed", "waiting_approval"} :
                SettleResult(r, outcome)
    BY <2>1, SettleResultKeeps
  <2>2. CASE ~\E outcome \in {"completed", "waiting_approval"} :
                SettleResult(r, outcome)
    BY <1>0, <1>13, <2>2
       DEF RunEnds, RefuseBinding, LoseWorker, DropStaleTerminal, CheckError,
           SkipExitedRun, feedVars
  <2>. QED BY <2>1, <2>2
<1>. QED
  BY <1>1, <1>2, <1>3, <1>4, <1>5, <1>6, <1>7, <1>8, <1>9, <1>10, <1>11, <1>12,
     <1>13 DEF Next, SchedulerStep, SupervisorStep, CommandAccepted

-----------------------------------------------------------------------------
(* The feeds and the memory of the Core *)

LEMMA FeedStep ==
    ASSUME IInv, [Next]_vars
    PROVE  FeedOK'
<1>. USE DEF IInv, FeedOK
<1>0. ASSUME UNCHANGED feedVars PROVE FeedOK'
  BY <1>0 DEF feedVars
<1>1. ASSUME NEW j \in Job, NEW t \in Task, EnqueueManual(j, t) \/ EnqueueDue(j, t)
      PROVE  FeedOK'
  BY <1>0, <1>1 DEF EnqueueManual, EnqueueDue, InsertJob
<1>2. ASSUME NEW t \in Task, DeleteTask(t) PROVE FeedOK'
  BY <1>2 DEF DeleteTask
<1>3. CASE FeedSync
  BY <1>3 DEF FeedSync
<1>4. ASSUME NEW r \in Run, NEW c \in 0..MaxSync, StartJobRun(r, c) PROVE FeedOK'
  BY <1>4, StartedRow DEF StartJobRun, Dispatch
<1>5. ASSUME NEW r \in Run, NEW outcome \in {"completed", "waiting_approval"},
             SettleResult(r, outcome)
      PROVE  FeedOK'
  <2>1. context[r] \in Context /\ context[r].cursor \in 0..MaxSync
    BY <1>5 DEF SettleResult, Active, MemoryOK, Context
  <2>2. cursor' \in [Task -> 0..MaxSync]
    BY <1>5, <2>1 DEF SettleResult
  <2>. QED BY <1>5, <2>2 DEF SettleResult
<1>6. ASSUME NEW r \in Run, RunEnds(r) PROVE FeedOK'
  BY <1>0, <1>5, <1>6 DEF RunEnds, RefuseBinding, LoseWorker, DropStaleTerminal,
       CheckError, SkipExitedRun
<1>7. ASSUME NEW row \in rows, RecoverOrphan(row) \/ RecoveryFails(row)
      PROVE  FeedOK'
  BY <1>0, <1>7 DEF RecoverOrphan, RecoveryFails
<1>8. ASSUME NEW j \in Job, ClaimNextRun(j) \/ BackoffElapses(j) PROVE FeedOK'
  BY <1>0, <1>8 DEF ClaimNextRun, BackoffElapses
<1>9. CASE StartScheduler \/ BeginTick \/ ReadOrphans \/ RecoveryDone
             \/ NothingToDispatch \/ Submit \/ PreparationFails
             \/ SubmissionFails \/ SubmissionAccepted \/ CommandAccepted
             \/ SettleError \/ SettleErrorFails \/ RestartWorker \/ WorkerDies
             \/ AbortScheduler \/ Stop \/ UNCHANGED vars
  BY <1>0, <1>9 DEF StartScheduler, BeginTick, ReadOrphans, RecoveryDone,
       NothingToDispatch, Submit, PreparationFails, SubmissionFails,
       SubmissionAccepted, EndDispatch, CommandAccepted, AcceptCommand, SettleError,
       SettleErrorFails, RestartWorker, WorkerDies, LoseWorker, AbortScheduler,
       Stop, vars
<1>. QED BY <1>1, <1>2, <1>3, <1>4, <1>6, <1>7, <1>8, <1>9
         DEF Next, SchedulerStep, SupervisorStep, CommandAccepted

\* The memory of the Core stays typed: what is dispatched was claimed, and
\* what is submitted has a run.
LEMMA MemoryStep ==
    ASSUME IInv, [Next]_vars
    PROVE  MemoryOK'
<1>. USE DEF IInv, MemoryOK
<1>0. ASSUME UNCHANGED <<schedulerVars, channelVars, supervisorVars, stopVars>>
      PROVE  MemoryOK'
  BY <1>0 DEF schedulerVars, channelVars, supervisorVars, stopVars
<1>1. ASSUME NEW j \in Job, NEW t \in Task, EnqueueManual(j, t) \/ EnqueueDue(j, t)
      PROVE  MemoryOK'
  BY <1>0, <1>1 DEF EnqueueManual, EnqueueDue, InsertJob
<1>2. ASSUME NEW t \in Task, DeleteTask(t) PROVE MemoryOK'
  BY <1>0, <1>2 DEF DeleteTask
<1>3. ASSUME NEW j \in Job, BackoffElapses(j) PROVE MemoryOK'
  BY <1>0, <1>3 DEF BackoffElapses
<1>4. CASE FeedSync \/ UNCHANGED vars
  BY <1>0, <1>4 DEF FeedSync, vars
<1>5. CASE StartScheduler \/ BeginTick \/ RecoveryDone \/ NothingToDispatch
  BY <1>5 DEF StartScheduler, BeginTick, RecoveryDone, NothingToDispatch, Active,
       channelVars, supervisorVars, stopVars
<1>6. CASE ReadOrphans
  <2>1. rows' \in SUBSET Row
    BY <1>6 DEF ReadOrphans, Row, TablesOK
  <2>. QED BY <1>6, <2>1 DEF ReadOrphans, channelVars, supervisorVars, stopVars
<1>7. ASSUME NEW row \in rows, RecoverOrphan(row) \/ RecoveryFails(row)
      PROVE  MemoryOK'
  BY <1>7 DEF RecoverOrphan, RecoveryFails, channelVars, supervisorVars, stopVars
<1>8. ASSUME NEW j \in Job, ClaimNextRun(j) PROVE MemoryOK'
  <2>1. jobAttempts[j] + 1 \in 1..MaxAttempts
    BY <1>8 DEF ClaimNextRun, Claimable, TablesOK, TablesAgree, JobAgrees
  <2>2. dispatch' \in Dispatch
    BY <1>8, <2>1 DEF ClaimNextRun, Dispatch
  <2>. QED BY <1>8, <2>2 DEF ClaimNextRun, channelVars, supervisorVars, stopVars
<1>9. ASSUME NEW r \in Run, NEW c \in 0..MaxSync, StartJobRun(r, c)
      PROVE  MemoryOK'
  <2>1. dispatch' \in Dispatch
    BY <1>9, StartedRow DEF StartJobRun, Dispatch
  <2>. QED BY <1>9, <2>1 DEF StartJobRun, channelVars, supervisorVars, stopVars
<1>10. CASE Submit
  <2>1. [job |-> dispatch.job, run |-> dispatch.run,
         cursor |-> jobCursor[dispatch.job]] \in Context
    BY <1>10 DEF Submit, Prepared, Dispatch, Context, FeedOK
  <2>. QED BY <1>10, <2>1 DEF Submit, supervisorVars, stopVars
<1>11. CASE PreparationFails \/ SubmissionFails \/ SubmissionAccepted
  BY <1>11 DEF PreparationFails, SubmissionFails, SubmissionAccepted, EndDispatch,
       supervisorVars, stopVars
<1>12. ASSUME NEW c \in commands, AcceptCommand(c) PROVE MemoryOK'
  <2>1. c \in Context /\ c.run \in Run
    BY <1>12 DEF Context
  <2>2. context' \in [Run -> Context \cup {None}]
    BY <1>12, <2>1 DEF AcceptCommand
  <2>3. reply' \in {"none", "ok", "err"}
    BY <1>12 DEF AcceptCommand, Answer
  <2>. QED BY <1>12, <2>2, <2>3 DEF AcceptCommand, schedulerVars, stopVars
<1>13. CASE SettleError
  BY <1>13 DEF SettleError, Forget, schedulerVars, channelVars, stopVars
<1>14. CASE SettleErrorFails
  BY <1>14 DEF SettleErrorFails, LoseWorker, Active, schedulerVars, channelVars,
       stopVars
<1>15. CASE RestartWorker \/ WorkerDies
  BY <1>15 DEF RestartWorker, WorkerDies, LoseWorker, Active, schedulerVars,
       channelVars, stopVars
<1>16. ASSUME NEW r \in Run, RunEnds(r) PROVE MemoryOK'
  <2>1. CASE RefuseBinding(r)
    BY <2>1 DEF RefuseBinding, LoseWorker, Active, schedulerVars, channelVars,
         stopVars
  <2>2. CASE DropStaleTerminal(r) \/ SkipExitedRun(r)
    BY <2>2 DEF DropStaleTerminal, SkipExitedRun, Forget, schedulerVars,
         channelVars, stopVars
  <2>3. ASSUME NEW outcome \in {"completed", "waiting_approval"},
               SettleResult(r, outcome)
        PROVE  MemoryOK'
    BY <2>3 DEF SettleResult, Forget, schedulerVars, channelVars, stopVars
  <2>4. ASSUME NEW t \in BOOLEAN, CheckError(r, t) PROVE MemoryOK'
    <3>1. failing' \in [run : Run, retryable : BOOLEAN]
      BY <2>4 DEF CheckError
    <3>. QED BY <2>4, <3>1 DEF CheckError, schedulerVars, channelVars, stopVars
  <2>. QED BY <1>16, <2>1, <2>2, <2>3, <2>4 DEF RunEnds
<1>17. CASE AbortScheduler
  <2>1. aborts' \in 0..MaxAborts /\ stops' = stops
    BY <1>17 DEF AbortScheduler
  <2>. QED BY <1>17, <2>1 DEF AbortScheduler, ResetScheduler, supervisorVars
<1>18. CASE Stop
  <2>1. stops' \in 0..MaxStops /\ aborts' = aborts
    BY <1>18 DEF Stop
  <2>. QED BY <1>18, <2>1 DEF Stop, ResetScheduler
<1>. QED BY <1>1, <1>2, <1>3, <1>4, <1>5, <1>6, <1>7, <1>8, <1>9, <1>10, <1>11,
            <1>12, <1>13, <1>14, <1>15, <1>16, <1>17, <1>18
         DEF Next, SchedulerStep, SupervisorStep, CommandAccepted

-----------------------------------------------------------------------------
(* Who writes what *)

\* Only the scheduler changes what it remembers, until it is aborted or the
\* Core stops.
LEMMA SchedulerAlone ==
    ASSUME [Next]_vars
    PROVE  \/ UNCHANGED schedulerVars
           \/ SchedulerStep \/ AbortScheduler \/ Stop
<1>. USE DEF schedulerVars
<1>1. CASE SupervisorStep
  BY <1>1 DEF SupervisorStep, CommandAccepted, AcceptCommand, SettleError, SettleErrorFails,
       RestartWorker, LoseWorker
<1>2. ASSUME NEW r \in Run, RunEnds(r) PROVE UNCHANGED schedulerVars
  BY <1>2 DEF RunEnds, RefuseBinding, DropStaleTerminal, SettleResult,
       CheckError, SkipExitedRun, LoseWorker
<1>3. CASE \/ \E j \in Job, t \in Task : EnqueueManual(j, t) \/ EnqueueDue(j, t)
           \/ \E t \in Task : DeleteTask(t)
           \/ FeedSync \/ WorkerDies
           \/ \E j \in Job : BackoffElapses(j)
  BY <1>3 DEF EnqueueManual, EnqueueDue, InsertJob, DeleteTask, FeedSync,
       WorkerDies, LoseWorker, BackoffElapses
<1>4. UNCHANGED vars => UNCHANGED schedulerVars
  BY DEF vars
<1>. QED BY <1>1, <1>2, <1>3, <1>4 DEF Next

\* Only the supervisor changes what it remembers, until the Core stops.
LEMMA SupervisorAlone ==
    ASSUME [Next]_vars
    PROVE  \/ UNCHANGED supervisorVars
           \/ SupervisorStep \/ (\E r \in Run : RunEnds(r))
           \/ WorkerDies \/ Stop
<1>. USE DEF supervisorVars
<1>1. CASE SchedulerStep
  BY <1>1 DEF SchedulerStep, StartScheduler, BeginTick, ReadOrphans,
       RecoverOrphan, RecoveryFails, RecoveryDone, ClaimNextRun,
       NothingToDispatch, StartJobRun, Submit, PreparationFails,
       SubmissionFails, SubmissionAccepted, EndDispatch
<1>2. CASE \/ \E j \in Job, t \in Task : EnqueueManual(j, t) \/ EnqueueDue(j, t)
           \/ \E t \in Task : DeleteTask(t)
           \/ FeedSync \/ AbortScheduler
           \/ \E j \in Job : BackoffElapses(j)
  BY <1>2 DEF EnqueueManual, EnqueueDue, InsertJob, DeleteTask, FeedSync,
       AbortScheduler, BackoffElapses
<1>3. UNCHANGED vars => UNCHANGED supervisorVars
  BY DEF vars
<1>. QED BY <1>1, <1>2, <1>3 DEF Next

\* A run has the context it had, or the one of the command accepted for it.
LEMMA ContextsAreGiven ==
    ASSUME IInv, [Next]_vars, NEW r \in Run, context'[r] # None
    PROVE  \/ context'[r] = context[r]
           \/ \E c \in commands :
                 AcceptCommand(c) /\ r = c.run /\ context'[r] = c
<1>1. context \in [Run -> Context \cup {None}]
  BY DEF IInv, MemoryOK
<1>2. CASE UNCHANGED context
  BY <1>2
<1>3. ASSUME NEW c \in commands, AcceptCommand(c)
      PROVE  context'[r] = context[r] \/ (r = c.run /\ context'[r] = c)
  <2>1. CASE context' = [context EXCEPT ![c.run] = c]
    BY <1>1, <2>1
  <2>. QED BY <1>2, <1>3, <2>1 DEF AcceptCommand
<1>4. ASSUME NEW q \in Run, Forget(q) PROVE context'[r] = context[r]
  BY <1>1, <1>4 DEF Forget
<1>5. CASE SettleError
  <2>1. failing.run \in Run
    BY <1>5 DEF SettleError, IInv, MemoryOK
  <2>. QED BY <1>2, <1>4, <1>5, <2>1 DEF SettleError
<1>6. CASE SettleErrorFails \/ WorkerDies
  BY <1>2, <1>6 DEF SettleErrorFails, WorkerDies, LoseWorker
<1>7. CASE RestartWorker \/ Stop
  BY <1>7 DEF RestartWorker, Stop
<1>8. ASSUME NEW q \in Run, RunEnds(q) PROVE context'[r] = context[r]
  BY <1>4, <1>8 DEF RunEnds, RefuseBinding, LoseWorker, DropStaleTerminal,
       SettleResult, CheckError, SkipExitedRun
<1>. QED BY <1>2, <1>3, <1>5, <1>6, <1>7, <1>8, SupervisorAlone
         DEF SupervisorStep, CommandAccepted, supervisorVars

\* The channel is between the two.
LEMMA ChannelAlone ==
    ASSUME [Next]_vars
    PROVE  \/ UNCHANGED channelVars
           \/ SchedulerStep \/ CommandAccepted \/ AbortScheduler \/ Stop
<1>. USE DEF channelVars
<1>1. CASE SettleError \/ SettleErrorFails \/ RestartWorker \/ WorkerDies
  BY <1>1 DEF SettleError, SettleErrorFails, RestartWorker, WorkerDies,
       LoseWorker
<1>2. ASSUME NEW r \in Run, RunEnds(r) PROVE UNCHANGED channelVars
  BY <1>2 DEF RunEnds, RefuseBinding, DropStaleTerminal, SettleResult,
       CheckError, SkipExitedRun, LoseWorker
<1>3. CASE \/ \E j \in Job, t \in Task : EnqueueManual(j, t) \/ EnqueueDue(j, t)
           \/ \E t \in Task : DeleteTask(t)
           \/ FeedSync
           \/ \E j \in Job : BackoffElapses(j)
  BY <1>3 DEF EnqueueManual, EnqueueDue, InsertJob, DeleteTask, FeedSync,
       BackoffElapses
<1>4. UNCHANGED vars => UNCHANGED channelVars
  BY DEF vars
<1>. QED BY <1>1, <1>2, <1>3, <1>4 DEF Next, SupervisorStep, CommandAccepted

-----------------------------------------------------------------------------
(* What the Core remembers stays true *)

LEMMA PreparedStep ==
    ASSUME IInv, [Next]_vars
    PROVE  Prepared'
<1>1. CASE NothingStarts /\ UNCHANGED <<pc, dispatch>>
  BY <1>1 DEF IInv, Prepared, NothingStarts, Dispatch
<1>2. CASE pc' \notin {"claimed", "started", "submitted"}
  BY <1>2 DEF Prepared
<1>3. ASSUME NEW j \in Job, ClaimNextRun(j) PROVE Prepared'
  <2>1. jobRun[j] = None /\ jobAttempts[j] + 1 \in 1..MaxAttempts
    BY <1>3 DEF ClaimNextRun, Claimable, IInv, TablesOK, TablesAgree, JobAgrees
  <2>2. dispatch' \in Dispatch /\ dispatch'.job = j
    BY <1>3, <2>1 DEF ClaimNextRun, Dispatch
  <2>. QED BY <1>3, <2>1, <2>2 DEF ClaimNextRun, IInv, TablesOK, Prepared
<1>4. ASSUME NEW r \in Run, NEW c \in 0..MaxSync, StartJobRun(r, c)
      PROVE  Prepared'
  <2>1. dispatch' \in Dispatch /\ dispatch'.run = r
    BY <1>4, StartedRow DEF StartJobRun, Dispatch
  <2>2. attempt'[r] # None
    BY <1>4, StartKeeps
  <2>. QED BY <1>4, <2>1, <2>2 DEF StartJobRun, Prepared
<1>5. CASE Submit
  BY <1>5 DEF Submit, IInv, Prepared, workflowVars
<1>6. \/ UNCHANGED <<pc, dispatch>>
      \/ pc' \notin {"claimed", "started", "submitted"}
      \/ \E j \in Job : ClaimNextRun(j)
      \/ \E r \in Run, c \in 0..MaxSync : StartJobRun(r, c)
      \/ Submit
  BY SchedulerAlone
     DEF SchedulerStep, StartScheduler, BeginTick, ReadOrphans,
         RecoverOrphan, RecoveryFails, RecoveryDone, NothingToDispatch,
         PreparationFails, SubmissionFails, SubmissionAccepted, EndDispatch,
         AbortScheduler, Stop, ResetScheduler, schedulerVars
<1>7. \/ NothingStarts
      \/ \E j \in Job : ClaimNextRun(j)
      \/ \E r \in Run, c \in 0..MaxSync : StartJobRun(r, c)
  BY TablesStep
<1>. QED BY <1>1, <1>2, <1>3, <1>4, <1>5, <1>6, <1>7

LEMMA RowsStep ==
    ASSUME IInv, [Next]_vars
    PROVE  RowsAreFresh'
<1>1. CASE NothingStarts /\ rows' \subseteq rows /\ (pc' # "rows" => rows' = {})
  BY <1>1 DEF IInv, RowsAreFresh, NothingStarts, MemoryOK, Row
<1>2. CASE ReadOrphans
  BY <1>2 DEF ReadOrphans, RowsAreFresh, jobVars
<1>3. ASSUME NEW j \in Job, ClaimNextRun(j) PROVE RowsAreFresh'
  BY <1>3 DEF ClaimNextRun, IInv, RowsAreFresh
<1>4. ASSUME NEW r \in Run, NEW c \in 0..MaxSync, StartJobRun(r, c)
      PROVE  RowsAreFresh'
  BY <1>4 DEF StartJobRun, IInv, RowsAreFresh
<1>5. \/ rows' \subseteq rows /\ (pc' # "rows" => rows' = {})
      \/ ReadOrphans
      \/ \E j \in Job : ClaimNextRun(j)
      \/ \E r \in Run, c \in 0..MaxSync : StartJobRun(r, c)
  BY SchedulerAlone
     DEF SchedulerStep, StartScheduler, BeginTick, RecoverOrphan,
         RecoveryFails, RecoveryDone, NothingToDispatch, Submit,
         PreparationFails, SubmissionFails, SubmissionAccepted, EndDispatch,
         AbortScheduler, Stop, ResetScheduler, schedulerVars, IInv,
         RowsAreFresh
<1>6. \/ NothingStarts
      \/ \E j \in Job : ClaimNextRun(j)
      \/ \E r \in Run, c \in 0..MaxSync : StartJobRun(r, c)
  BY TablesStep
<1>. QED BY <1>1, <1>2, <1>3, <1>4, <1>5, <1>6

\* A context stays true, although rows are requeued, claimed and started
\* again under it.
StillTrue(x) ==
    /\ attempt'[x.run] # None
    /\ jobStatus'[x.job] = "running" /\ jobRun'[x.job] = x.run =>
          jobCursor'[x.job] = x.cursor

LEMMA ContextStays ==
    ASSUME IInv, [Next]_vars, NEW x \in Context, ContextIsTrue(x)
    PROVE  StillTrue(x)
<1>1. CASE NothingStarts
  BY <1>1 DEF StillTrue, ContextIsTrue, IsCurrentRun, NothingStarts, Context
<1>2. ASSUME NEW j \in Job, ClaimNextRun(j) PROVE StillTrue(x)
  <2>1. jobRun[j] = None
    BY <1>2 DEF ClaimNextRun, Claimable, IInv, TablesAgree, JobAgrees
  <2>. QED BY <1>2, <2>1 DEF ClaimNextRun, StillTrue, ContextIsTrue, IsCurrentRun, Context,
                IInv, TablesOK, feedVars
<1>3. ASSUME NEW r \in Run, NEW c \in 0..MaxSync, StartJobRun(r, c)
      PROVE  StillTrue(x)
  <2>1. x.run # r /\ attempt'[x.run] # None /\ x.job \in Job
    BY <1>3, StartKeeps
       DEF StartJobRun, StartRun, CanStartRun, FreshAttempt, ContextIsTrue,
           Context
  <2>2. /\ dispatch.job \in Job
        /\ jobRun' = [jobRun EXCEPT ![dispatch.job] = r]
        /\ jobCursor' = [jobCursor EXCEPT ![dispatch.job] = c]
        /\ UNCHANGED jobStatus
    BY <1>3, StartedRow DEF Dispatch, StartJobRun
  <2>. QED BY <2>1, <2>2 DEF StillTrue, ContextIsTrue, IsCurrentRun, IInv, TablesOK, FeedOK
<1>. QED BY <1>1, <1>2, <1>3, TablesStep

LEMMA ContextsStep ==
    ASSUME IInv, [Next]_vars
    PROVE  ContextsAreTrue'
<1>. DEFINE Known(x) == \/ x \in commands
                        \/ \E q \in Active : x = context[q]
<1>1. ASSUME NEW x, Known(x), x # None
      PROVE  x \in Context /\ StillTrue(x)
  <2>1. x \in Context
    BY <1>1 DEF IInv, MemoryOK, Active
  <2>2. ContextIsTrue(x)
    BY <1>1 DEF IInv, ContextsAreTrue
  <2>. QED BY <2>1, <2>2, ContextStays
<1>2. \A r \in Run : context'[r] # None =>
         \/ context'[r] = context[r]
         \/ \E c \in commands : r = c.run /\ context'[r] = c
  BY ContextsAreGiven
<1>3. ASSUME NEW r \in Run, context'[r] # None
      PROVE  context'[r].run = r /\ StillTrue(context'[r])
  <2>1. CASE context'[r] = context[r]
    <3>1. r \in Active
      BY <1>3, <2>1 DEF Active
    <3>. QED BY <1>1, <1>3, <2>1, <3>1 DEF IInv, ContextsAreTrue
  <2>2. ASSUME NEW c \in commands, r = c.run, context'[r] = c
        PROVE  context'[r].run = r /\ StillTrue(context'[r])
    BY <1>1, <1>3, <2>2
  <2>. QED BY <1>2, <1>3, <2>1, <2>2
<1>4. ASSUME \A c \in commands' : StillTrue(c)
      PROVE  ContextsAreTrue'
  BY <1>3, <1>4
     DEF ContextsAreTrue, ContextIsTrue, StillTrue, IsCurrentRun, Active
<1>5. ASSUME NEW c \in commands PROVE StillTrue(c)
  <2>1. c \in Context /\ ContextIsTrue(c)
    BY DEF IInv, MemoryOK, ContextsAreTrue
  <2>. QED BY <2>1, ContextStays
<1>6. CASE Submit
  <2>. DEFINE new == [job |-> dispatch.job, run |-> dispatch.run,
                      cursor |-> jobCursor[dispatch.job]]
  <2>1. commands' = commands \cup {new} /\ attempt[dispatch.run] # None
    BY <1>6 DEF Submit, IInv, Prepared
  <2>2. StillTrue(new)
    BY <1>6, <2>1 DEF Submit, StillTrue, workflowVars, feedVars
  <2>. QED BY <1>4, <1>5, <2>1, <2>2
<1>7. commands' \subseteq commands \/ Submit
  BY ChannelAlone
     DEF SchedulerStep, StartScheduler, BeginTick, ReadOrphans,
         RecoverOrphan, RecoveryFails, RecoveryDone, ClaimNextRun,
         NothingToDispatch, StartJobRun, PreparationFails, SubmissionFails,
         SubmissionAccepted, EndDispatch, CommandAccepted, AcceptCommand,
         AbortScheduler, Stop, channelVars
<1>8. CASE commands' \subseteq commands
  BY <1>4, <1>5, <1>8
<1>. QED BY <1>6, <1>7, <1>8

\* Contexts are given up one by one while the worker lives, and after its
\* death only when the last run of it is settled.
LEMMA ExitsStep ==
    ASSUME IInv, [Next]_vars
    PROVE  ExitsHaveContexts'
<1>. USE DEF IInv, MemoryOK, ExitsHaveContexts, Active
<1>1. CASE UNCHANGED supervisorVars
  BY <1>1 DEF supervisorVars
<1>2. CASE LoseWorker
  BY <1>2 DEF LoseWorker
<1>3. ASSUME NEW c \in commands, AcceptCommand(c) PROVE ExitsHaveContexts'
  BY <1>3 DEF AcceptCommand, Serving, Context
<1>4. CASE SettleError
  BY <1>4 DEF SettleError, Forget
<1>5. CASE SettleErrorFails
  BY <1>2, <1>5 DEF SettleErrorFails
<1>6. CASE RestartWorker \/ Stop
  BY <1>6 DEF RestartWorker, Stop
<1>7. ASSUME NEW r \in Run, RunEnds(r) PROVE ExitsHaveContexts'
  <2>1. CASE RefuseBinding(r)
    BY <1>2, <2>1 DEF RefuseBinding
  <2>2. CASE DropStaleTerminal(r)
    BY <2>2 DEF DropStaleTerminal, Serving, Forget
  <2>3. CASE SkipExitedRun(r)
    BY <2>3 DEF SkipExitedRun
  <2>4. ASSUME NEW outcome \in {"completed", "waiting_approval"},
               SettleResult(r, outcome)
        PROVE  ExitsHaveContexts'
    BY <2>4 DEF SettleResult, Serving, Forget
  <2>5. ASSUME NEW t \in BOOLEAN, CheckError(r, t) PROVE ExitsHaveContexts'
    BY <2>5 DEF CheckError
  <2>. QED BY <1>7, <2>1, <2>2, <2>3, <2>4, <2>5 DEF RunEnds
<1>8. \/ UNCHANGED supervisorVars
      \/ LoseWorker \/ CommandAccepted \/ SettleError \/ SettleErrorFails
      \/ RestartWorker \/ Stop
      \/ \E r \in Run : RunEnds(r)
  BY SupervisorAlone DEF SupervisorStep, CommandAccepted, WorkerDies
<1>. QED BY <1>1, <1>2, <1>3, <1>4, <1>5, <1>6, <1>7, <1>8 DEF CommandAccepted

-----------------------------------------------------------------------------
(* Invariants *)

LEMMA InitInv == Init => IInv
<1>. SUFFICES ASSUME Init PROVE IInv
  OBVIOUS
<1>. USE DEF Init, WorkflowInit
<1>1. TablesOK
  BY DEF TablesOK, WorkflowTypeOK, JobStatus, WorkflowState, ItemStatus
<1>2. FeedOK
  BY DEF FeedOK
<1>3. MemoryOK
  <2>1. /\ context \in [Run -> Context \cup {None}]
        /\ stops \in 0..MaxStops /\ aborts \in 0..MaxAborts
    BY DEF SupervisorIdle
  <2>. QED BY <2>1 DEF MemoryOK, SchedulerOff, SupervisorIdle
<1>4. TablesAgree
  BY StatesOf DEF TablesAgree, RunsAgree, AttemptRuns, JobAgrees
<1>5. Prepared /\ RowsAreFresh /\ ContextsAreTrue /\ ExitsHaveContexts
  BY DEF Prepared, RowsAreFresh, ContextsAreTrue, ExitsHaveContexts, Active,
         SchedulerOff, SupervisorIdle
<1>. QED BY <1>1, <1>2, <1>3, <1>4, <1>5 DEF IInv

LEMMA InvStep == IInv /\ [Next]_vars => IInv'
BY TablesStep, FeedStep, MemoryStep, PreparedStep, RowsStep, ContextsStep,
   ExitsStep DEF IInv

\* The parts of the invariant hold together, for ever.
THEOREM InductiveInvariant == Spec => []IInv
BY InitInv, InvStep, PTL DEF Spec

\* The rows of the database and what the scheduler and the supervisor remember
\* stay typed (automation_runtime.rs): no row is claimed more often than the
\* retry policy allows.
THEOREM TypeCorrect == Spec => []TypeOK
<1>1. IInv => TypeOK
  BY DEF IInv, TablesOK, FeedOK, MemoryOK, TypeOK
<1>. QED BY <1>1, InductiveInvariant, PTL

\* Only dispatch_next_run makes a row running, and only when none is.
THEOREM RunsAreAlone == Spec => []OneRunning
<1>1. Init => OneRunning
  BY DEF Init, OneRunning
<1>2. IInv /\ OneRunning /\ [Next]_vars => OneRunning'
  <2>. SUFFICES ASSUME IInv, OneRunning, [Next]_vars PROVE OneRunning'
    OBVIOUS
  <2>1. CASE NothingStarts
    BY <2>1 DEF NothingStarts, OneRunning
  <2>2. ASSUME NEW j \in Job, ClaimNextRun(j) PROVE OneRunning'
    BY <2>2 DEF ClaimNextRun, NothingRuns, OneRunning, IInv, TablesOK
  <2>3. ASSUME NEW r \in Run, NEW c \in 0..MaxSync, StartJobRun(r, c)
        PROVE  OneRunning'
    BY <2>3 DEF StartJobRun, OneRunning
  <2>. QED BY <2>1, <2>2, <2>3, TablesStep
<1>. QED BY <1>1, <1>2, InductiveInvariant, PTL DEF Spec

\* A row, its workflow and its attempts tell the same story, although a dead
\* letter, a requeue and a settlement come from three places that do not see
\* each other: nothing leaves an open attempt behind.
THEOREM RowsOfRunsAgree == Spec => []RunRowsAgree
<1>1. IInv => JobAgreesWithWorkflow
  BY DEF IInv, TablesAgree, JobAgrees, JobAgreesWithWorkflow
<1>2. IInv => OpenAttemptIsCurrentRun
  BY DEF IInv, TablesAgree, TablesOK, WorkflowTypeOK, Attempt, RunsAgree,
         AttemptRuns, OpenAttemptIsCurrentRun
<1>. QED BY <1>1, <1>2, InductiveInvariant, PTL DEF RunRowsAgree

-----------------------------------------------------------------------------
(* Feed positions *)

\* What every step but a settlement leaves alone: the completed rows of a task,
\* the position they read, and the position of the task.
CompletedStay ==
    /\ cursor' = cursor /\ live' \subseteq live
    /\ \A j \in Job :
          /\ jobStatus'[j] = "completed" <=> jobStatus[j] = "completed"
          /\ jobStatus[j] = "completed" =>
                /\ jobCursor'[j] = jobCursor[j]
                /\ \A t \in live' : jobTask'[j] = t <=> jobTask[j] = t

\* A completed row is neither given up nor requeued: its workflow is over.
LEMMA OneRowStays ==
    ASSUME IInv, NEW j \in Job, NEW r, NEW b,
           DeadLetter(j, r) \/ Requeue(j, r, b),
           cursor' = cursor, live' \subseteq live, jobCursor' = jobCursor
    PROVE  CompletedStay
<1>1. jobStatus[j] # "completed"
  <2>1. j \in Workflow /\ wfState[j] # "COMPLETED"
    BY DEF DeadLetter, MarkFailed, Requeue, RequeueWorkflow, MarkRetryScheduled
  <2>. QED BY <2>1, StatesOf DEF IInv, TablesAgree, JobAgrees
<1>2. /\ UNCHANGED jobTask
      /\ \/ jobStatus' = [jobStatus EXCEPT ![j] = "failed"]
         \/ jobStatus' = [jobStatus EXCEPT ![j] = "queued"]
  BY DEF DeadLetter, Requeue
<1>3. \A i \in Job : jobStatus'[i] = "completed" <=> jobStatus[i] = "completed"
  BY <1>1, <1>2 DEF IInv, TablesOK
<1>. QED BY <1>2, <1>3 DEF CompletedStay

LEMMA FailureStays ==
    ASSUME IInv, NEW j \in Job, NEW b,
           ScheduleFailure(j, b) \/ TryScheduleFailure(j, b),
           cursor' = cursor, live' \subseteq live, jobCursor' = jobCursor
    PROVE  CompletedStay
<1>1. CASE UNCHANGED <<workflowVars, jobVars>>
  BY <1>1 DEF CompletedStay, jobVars
<1>2. CASE ScheduleFailure(j, b)
  BY <1>2, OneRowStays DEF ScheduleFailure
<1>. QED BY <1>1, <1>2 DEF TryScheduleFailure

LEMMA CompletedStep ==
    ASSUME IInv, [Next]_vars
    PROVE  \/ CompletedStay
           \/ \E r \in Run, outcome \in {"completed", "waiting_approval"} :
                 SettleResult(r, outcome)
<1>. DEFINE G == \/ CompletedStay
                 \/ \E r \in Run, outcome \in {"completed", "waiting_approval"} :
                       SettleResult(r, outcome)
<1>0. ASSUME UNCHANGED <<jobStatus, jobTask, jobCursor, cursor, live>> PROVE G
  BY <1>0 DEF CompletedStay
<1>1. ASSUME NEW j \in Job, NEW t \in Task, EnqueueManual(j, t) \/ EnqueueDue(j, t)
      PROVE  G
  BY <1>1 DEF EnqueueManual, EnqueueDue, InsertJob, CompletedStay, IInv, TablesOK,
              feedVars
<1>2. ASSUME NEW t \in Task, DeleteTask(t) PROVE G
  BY <1>2 DEF DeleteTask, CompletedStay, IInv, FeedOK
<1>3. ASSUME NEW row \in rows, RecoverOrphan(row) PROVE G
  <2>1. row.job \in Job
    BY DEF IInv, MemoryOK, Row
  <2>. QED BY <1>0, <1>3, <2>1, OneRowStays
           DEF RecoverOrphan, feedVars, jobVars
<1>4. ASSUME NEW j \in Job, ClaimNextRun(j) PROVE G
  BY <1>4 DEF ClaimNextRun, Claimable, CompletedStay, IInv, TablesOK, feedVars
<1>5. ASSUME NEW r \in Run, NEW c \in 0..MaxSync, StartJobRun(r, c) PROVE G
  BY <1>5, StartedRow DEF StartJobRun, CompletedStay, IInv, TablesOK, FeedOK, Dispatch
<1>6. CASE PreparationFails \/ SubmissionFails
  <2>1. dispatch.job \in Job
    BY <1>6 DEF PreparationFails, SubmissionFails, IInv, Prepared, Dispatch
  <2>. QED BY <1>6, <2>1, FailureStays
           DEF PreparationFails, SubmissionFails, EndDispatch, feedVars
<1>7. CASE SettleError
  <2>1. context[failing.run].job \in Job
    BY <1>7 DEF SettleError, IInv, ExitsHaveContexts, MemoryOK, Active, Context
  <2>. QED BY <1>7, <2>1, FailureStays DEF SettleError, feedVars
<1>8. ASSUME NEW r \in Run, RunEnds(r) PROVE G
  BY <1>0, <1>8 DEF RunEnds, RefuseBinding, LoseWorker, DropStaleTerminal,
       CheckError, SkipExitedRun, feedVars, jobVars
<1>9. ASSUME NEW row \in rows, RecoveryFails(row) PROVE G
  BY <1>0, <1>9 DEF RecoveryFails, feedVars, jobVars
<1>10. ASSUME NEW j \in Job, BackoffElapses(j) PROVE G
  BY <1>0, <1>10 DEF BackoffElapses, feedVars
<1>11. CASE FeedSync \/ StartScheduler \/ BeginTick \/ ReadOrphans \/ RecoveryDone
             \/ NothingToDispatch \/ Submit \/ SubmissionAccepted
             \/ CommandAccepted \/ SettleErrorFails \/ RestartWorker \/ WorkerDies
             \/ AbortScheduler \/ Stop \/ UNCHANGED vars
  BY <1>0, <1>11 DEF FeedSync, StartScheduler, BeginTick, ReadOrphans,
       RecoveryDone, NothingToDispatch, Submit, SubmissionAccepted, EndDispatch,
       CommandAccepted, AcceptCommand, SettleErrorFails, RestartWorker, WorkerDies, LoseWorker,
       AbortScheduler, Stop, vars, feedVars, jobVars
<1>. QED BY <1>1, <1>2, <1>3, <1>4, <1>5, <1>6, <1>7, <1>8, <1>9, <1>10, <1>11
         DEF Next, SchedulerStep, SupervisorStep, CommandAccepted

\* CursorFollowsCompleted, of one task.
Read(t) == {jobCursor[j] : j \in JobsOf(t, {"completed"})}

Follows(t) == cursor[t] \in Read(t) \cup {0} /\ \A c \in Read(t) : c <= cursor[t]

\* A completed run is one more of its task, with the position it has read;
\* the position of the task is the later of the two.
LEMMA SettleFollows ==
    ASSUME IInv, NEW r \in Run, NEW outcome \in {"completed", "waiting_approval"},
           SettleResult(r, outcome),
           NEW t \in Task, Follows(t)
    PROVE  Follows(t)'
<1>. DEFINE j == context[r].job
            c == context[r].cursor
<1>1. /\ j \in Job /\ c \in 0..MaxSync
      /\ jobStatus[j] = "running" /\ jobCursor[j] = c
      /\ jobStatus' = [jobStatus EXCEPT ![j] = outcome]
      /\ UNCHANGED <<jobTask, jobCursor>>
  <2>1. r \in Active /\ context[r] \in Context /\ context[r].run = r
    BY DEF SettleResult, IInv, MemoryOK, Active, ContextsAreTrue
  <2>. QED BY <2>1 DEF SettleResult, ResultIsCurrent, IInv, ContextsAreTrue,
                       ContextIsTrue, IsCurrentRun, Context
<1>2. cursor' = IF outcome = "completed" /\ jobTask[j] # None
                      /\ cursor[jobTask[j]] < c
                THEN [cursor EXCEPT ![jobTask[j]] = c] ELSE cursor
  BY DEF SettleResult, CursorMoves
<1>3. cursor[t] \in Nat /\ cursor \in [Task -> Nat] /\ t # None
  BY DEF IInv, FeedOK
<1>. HIDE DEF j, c
<1>4. CASE outcome = "completed" /\ jobTask[j] = t
  <2>1. JobsOf(t, {"completed"})' = JobsOf(t, {"completed"}) \cup {j}
    BY <1>1, <1>4 DEF JobsOf, IInv, TablesOK
  <2>2. Read(t)' = Read(t) \cup {c}
    BY <1>1, <2>1 DEF Read
  <2>3. cursor'[t] = IF cursor[t] < c THEN c ELSE cursor[t]
    BY <1>2, <1>3, <1>4
  <2>4. \A x \in Read(t) : x \in Nat
    BY DEF Read, JobsOf, IInv, FeedOK
  <2>. QED BY <1>1, <1>3, <2>2, <2>3, <2>4 DEF Follows
<1>5. CASE ~(outcome = "completed" /\ jobTask[j] = t)
  <2>1. JobsOf(t, {"completed"})' = JobsOf(t, {"completed"})
    BY <1>1, <1>5 DEF JobsOf, IInv, TablesOK
  <2>2. Read(t)' = Read(t) /\ cursor'[t] = cursor[t]
    BY <1>1, <1>2, <1>3, <1>5, <2>1 DEF Read
  <2>. QED BY <2>2 DEF Follows
<1>. QED BY <1>4, <1>5

\* The position of a task is that of its completed runs, however often a run
\* is requeued and read again, and whatever of it is still unapproved.
THEOREM PositionsFollowResults == Spec => []CursorFollowsCompleted
<1>1. CursorFollowsCompleted <=> \A t \in live : Follows(t)
  BY DEF CursorFollowsCompleted, Follows, Read
<1>2. Init => CursorFollowsCompleted
  BY DEF Init, CursorFollowsCompleted, JobsOf
<1>3. IInv /\ CursorFollowsCompleted /\ [Next]_vars => CursorFollowsCompleted'
  <2>. SUFFICES ASSUME IInv, CursorFollowsCompleted, [Next]_vars
                PROVE  \A t \in live' : Follows(t)'
    BY DEF CursorFollowsCompleted, Follows, Read
  <2>1. CASE CompletedStay
    <3>. TAKE t \in live'
    <3>1. t \in live /\ Follows(t)
      BY <1>1, <2>1 DEF CompletedStay
    <3>2. JobsOf(t, {"completed"})' = JobsOf(t, {"completed"})
      BY <2>1 DEF CompletedStay, JobsOf
    <3>3. \A j \in JobsOf(t, {"completed"}) : jobCursor'[j] = jobCursor[j]
      BY <2>1 DEF CompletedStay, JobsOf
    <3>4. Read(t)' = Read(t)
      BY <3>2, <3>3 DEF Read
    <3>. QED BY <2>1, <3>1, <3>4 DEF CompletedStay, Follows
  <2>2. ASSUME NEW r \in Run, NEW outcome \in {"completed", "waiting_approval"},
               SettleResult(r, outcome)
        PROVE  \A t \in live' : Follows(t)'
    <3>. TAKE t \in live'
    <3>1. t \in live /\ t \in Task
      BY <2>2 DEF SettleResult, IInv, FeedOK
    <3>. QED BY <1>1, <2>2, <3>1, SettleFollows
  <2>. QED BY <2>1, <2>2, CompletedStep
<1>. QED BY <1>2, <1>3, InductiveInvariant, PTL DEF Spec
-----------------------------------------------------------------------------
(***************************************************************************)
(* The current run of a row is never nobody's, also when the scheduler is   *)
(* replaced (no bound on MaxAborts).  A run leaves the hands that hold it   *)
(* in four places: a submission that ends, a context that is given up, the *)
(* supervisor's cleanup after its worker, and recovery.  The parts of      *)
(* HeldInv say why the run is no longer current there, or has passed on.    *)
(***************************************************************************)

\* Whoever names the run r names the one row it can be current of.
BoundTo(j, r) == \A i \in Job : IsCurrentRun(i, r) => i = j

NamesAreTrue ==
    /\ pc \in {"started", "submitted"} => BoundTo(dispatch.job, dispatch.run)
    /\ \A c \in commands : BoundTo(c.job, c.run)
    /\ \A r \in Active : BoundTo(context[r].job, r)

\* A command is sent once: what was answered is not in the channel as well.
SentOnce ==
    /\ pc # "submitted" => reply = "none"
    /\ pc = "started" \/ reply # "none" => \A c \in commands : c.run # dispatch.run
    /\ \A c, d \in commands : c.run = d.run => c = d

\* A recovery that has begun, or must begin, has not gone through.
RecoveryIsDue == pc \in {"off", "orphans", "rows"} => ~recovered

\* Of a dead worker's runs, those that are still current are still to settle.
ExitsAreSettled ==
    exiting => \A r \in Active : r \in exitRuns \/ ~IsCurrentRun(context[r].job, r)

HeldInv ==
    /\ NamesAreTrue
    /\ SentOnce
    /\ RecoveryIsDue
    /\ ExitsAreSettled
    /\ CurrentRunIsHeld

\* A run becomes current only when it is started.
LEMMA CurrentStays ==
    ASSUME IInv, [Next]_vars, NEW j \in Job, NEW r \in Run, IsCurrentRun(j, r)'
    PROVE  \/ IsCurrentRun(j, r)
           \/ \E c \in 0..MaxSync : StartJobRun(r, c) /\ dispatch.job = j
<1>1. CASE NothingStarts
  BY <1>1 DEF NothingStarts, IsCurrentRun
<1>2. ASSUME NEW i \in Job, ClaimNextRun(i) PROVE IsCurrentRun(j, r)
  <2>1. jobRun[i] = None /\ None \notin Run
    BY <1>2, NoneIsNoId
       DEF ClaimNextRun, Claimable, IInv, TablesAgree, JobAgrees
  <2>2. jobRun' = jobRun /\ jobStatus' = [jobStatus EXCEPT ![i] = "running"]
    BY <1>2 DEF ClaimNextRun
  <2>. QED BY <2>1, <2>2 DEF IsCurrentRun, IInv, TablesOK
<1>3. ASSUME NEW q \in Run, NEW c \in 0..MaxSync, StartJobRun(q, c)
      PROVE  IsCurrentRun(j, r) \/ (q = r /\ dispatch.job = j)
  <2>1. /\ jobRun' = [jobRun EXCEPT ![dispatch.job] = q]
        /\ jobStatus' = jobStatus
    BY <1>3, StartedRow DEF StartJobRun
  <2>. QED BY <2>1 DEF IsCurrentRun, IInv, TablesOK
<1>. QED BY <1>1, <1>2, <1>3, TablesStep

\* A run without an attempt is current of no row.
LEMMA FreshIsNotCurrent ==
    ASSUME IInv, NEW j \in Job, NEW r \in Run, IsCurrentRun(j, r)
    PROVE  attempt[r] # None /\ wfState[j] = "RUNNING"
<1>1. jobStatus[j] = "running" /\ jobRun[j] = r /\ r # None
  BY NoneIsNoId DEF IsCurrentRun
<1>2. wfState[j] = "RUNNING" /\ currentRun[j] = r
  BY <1>1 DEF IInv, TablesAgree, JobAgrees
<1>3. j \in Workflow /\ AttemptRuns(j, r)
  BY <1>2, JobsHaveWorkflows DEF IInv, TablesAgree, RunsAgree
<1>. QED BY <1>2, <1>3 DEF AttemptRuns

LEMMA StartedIsFresh ==
    ASSUME NEW r \in Run, NEW c, StartJobRun(r, c)
    PROVE  attempt[r] = None
BY DEF StartJobRun, StartRun, CanStartRun, FreshAttempt

\* A run that was started is not given to another row.
LEMMA BoundStays ==
    ASSUME IInv, [Next]_vars, NEW j, NEW r \in Run, attempt[r] # None,
           BoundTo(j, r)
    PROVE  BoundTo(j, r)'
<1>1. ASSUME NEW i \in Job, IsCurrentRun(i, r)' PROVE i = j
  <2>1. IsCurrentRun(i, r)
    BY <1>1, CurrentStays, StartedIsFresh
  <2>. QED BY <2>1 DEF BoundTo
<1>. QED BY <1>1 DEF BoundTo

\* What a command is, and what is in the channel after a step.
LEMMA CommandsOf ==
    ASSUME IInv, [Next]_vars, NEW c \in commands'
    PROVE  \/ c \in commands
           \/ Submit /\ c = [job |-> dispatch.job, run |-> dispatch.run,
                             cursor |-> jobCursor[dispatch.job]]
<1>1. CASE Submit
  BY <1>1 DEF Submit
<1>2. commands' \subseteq commands \/ Submit
  BY ChannelAlone
     DEF SchedulerStep, StartScheduler, BeginTick, ReadOrphans,
         RecoverOrphan, RecoveryFails, RecoveryDone, ClaimNextRun,
         NothingToDispatch, StartJobRun, PreparationFails, SubmissionFails,
         SubmissionAccepted, EndDispatch, CommandAccepted, AcceptCommand,
         AbortScheduler, Stop, channelVars
<1>. QED BY <1>1, <1>2

LEMMA NamesStep ==
    ASSUME IInv, NamesAreTrue, [Next]_vars
    PROVE  NamesAreTrue'
<1>1. ASSUME NEW r \in Run, NEW c \in 0..MaxSync, StartJobRun(r, c)
      PROVE  BoundTo(dispatch.job, dispatch.run)'
  <2>1. dispatch'.run = r /\ dispatch'.job = dispatch.job
    BY <1>1, StartedRow DEF StartJobRun, Dispatch
  <2>2. ASSUME NEW i \in Job, IsCurrentRun(i, r)' PROVE i = dispatch.job
    BY <1>1, <2>2, CurrentStays, FreshIsNotCurrent, StartedIsFresh
  <2>. QED BY <2>1, <2>2 DEF BoundTo, IsCurrentRun
<1>2. ASSUME pc \in {"started", "submitted"}, dispatch' = dispatch
      PROVE  BoundTo(dispatch.job, dispatch.run)'
  <2>1. PICK j \in Job, r \in Run : j = dispatch.job /\ r = dispatch.run
    BY <1>2 DEF IInv, Prepared, Dispatch
  <2>2. attempt[r] # None /\ BoundTo(j, r)
    BY <1>2, <2>1 DEF IInv, Prepared, NamesAreTrue
  <2>3. BoundTo(j, r)'
    BY <2>2, BoundStays
  <2>. QED BY <1>2, <2>1, <2>3 DEF BoundTo
<1>3. ASSUME pc' \in {"started", "submitted"}
      PROVE  BoundTo(dispatch.job, dispatch.run)'
  <2>1. \/ \E r \in Run, c \in 0..MaxSync : StartJobRun(r, c)
        \/ pc \in {"started", "submitted"} /\ dispatch' = dispatch
    BY <1>3, SchedulerAlone
       DEF SchedulerStep, StartScheduler, BeginTick, ReadOrphans,
           RecoverOrphan, RecoveryFails, RecoveryDone, ClaimNextRun,
           NothingToDispatch, Submit, PreparationFails, SubmissionFails,
           SubmissionAccepted, EndDispatch, AbortScheduler, Stop,
           ResetScheduler, schedulerVars
  <2>. QED BY <1>1, <1>2, <2>1
<1>4. ASSUME NEW c \in commands' PROVE BoundTo(c.job, c.run)'
  <2>1. CASE c \in commands
    <3>1. c.run \in Run /\ attempt[c.run] # None /\ BoundTo(c.job, c.run)
      BY <2>1 DEF IInv, MemoryOK, Context, ContextsAreTrue, ContextIsTrue,
         NamesAreTrue
    <3>. QED BY <3>1, BoundStays
  <2>2. CASE Submit /\ c = [job |-> dispatch.job, run |-> dispatch.run,
                            cursor |-> jobCursor[dispatch.job]]
    <3>1. pc \in {"started", "submitted"} /\ dispatch' = dispatch
      BY <2>2 DEF Submit
    <3>2. BoundTo(dispatch.job, dispatch.run)'
      BY <1>2, <3>1
    <3>3. c.job = dispatch'.job /\ c.run = dispatch'.run
      BY <2>2, <3>1
    <3>. QED BY <3>2, <3>3 DEF BoundTo
  <2>. QED BY <2>1, <2>2, CommandsOf
<1>5. ASSUME NEW r \in Run, context'[r] # None
      PROVE  BoundTo(context[r].job, r)'
  <2>1. /\ context'[r] = context[r] =>
              attempt[r] # None /\ BoundTo(context[r].job, r)
        /\ \A c \in commands : r = c.run /\ context'[r] = c =>
              attempt[r] # None /\ BoundTo(c.job, r)
    BY <1>5 DEF IInv, ContextsAreTrue, ContextIsTrue, NamesAreTrue, Active
  <2>2. attempt[r] # None /\ BoundTo(context'[r].job, r)
    BY <1>5, <2>1, ContextsAreGiven
  <2>3. \A j : BoundTo(j, r) => BoundTo(j, r)'
    BY <2>2, BoundStays
  <2>4. PICK j : j = context'[r].job
    OBVIOUS
  <2>5. BoundTo(j, r)'
    BY <2>2, <2>3, <2>4
  <2>. QED BY <2>4, <2>5 DEF BoundTo
<1>. QED BY <1>3, <1>4, <1>5 DEF NamesAreTrue, Active

LEMMA SentStep ==
    ASSUME IInv, SentOnce, [Next]_vars
    PROVE  SentOnce'
<1>1. ASSUME NEW r \in Run, NEW c \in 0..MaxSync, StartJobRun(r, c)
      PROVE  SentOnce'
  <2>1. dispatch'.run = r /\ pc' = "started" /\ UNCHANGED <<commands, reply>>
    BY <1>1, StartedRow DEF StartJobRun, Dispatch, channelVars
  <2>2. \A d \in commands : d.run # r
    BY <1>1, StartedIsFresh DEF IInv, ContextsAreTrue, ContextIsTrue
  <2>3. reply = "none"
    BY <1>1 DEF StartJobRun, SentOnce
  <2>. QED BY <2>1, <2>2, <2>3 DEF SentOnce
<1>2. CASE Submit
  <2>1. \A c \in commands : c.run # dispatch.run
    BY <1>2 DEF Submit, SentOnce
  <2>2. commands' = commands \cup {[job |-> dispatch.job, run |-> dispatch.run,
                                    cursor |-> jobCursor[dispatch.job]]}
    BY <1>2 DEF Submit
  <2>3. \A c, d \in commands' : c.run = d.run => c = d
    BY <2>1, <2>2 DEF SentOnce
  <2>. QED BY <1>2, <2>3 DEF Submit, SentOnce
<1>3. CASE pc' \notin {"started", "submitted"} /\ reply' = "none"
           /\ commands' \subseteq commands
  BY <1>3 DEF SentOnce
<1>4. ASSUME NEW c \in commands, AcceptCommand(c) PROVE SentOnce'
  <2>1. commands' = commands \ {c} /\ pc' = pc /\ dispatch' = dispatch
    BY <1>4 DEF AcceptCommand, schedulerVars
  <2>2. \/ reply' = reply
        \/ pc = "submitted" /\ dispatch.run = c.run
    BY <1>4 DEF AcceptCommand, Answer
  <2>. QED BY <2>1, <2>2 DEF SentOnce
<1>5. CASE UNCHANGED <<pc, dispatch, commands, reply>>
  BY <1>5 DEF SentOnce
<1>6. \/ \E r \in Run, c \in 0..MaxSync : StartJobRun(r, c)
      \/ Submit
      \/ pc' \notin {"started", "submitted"} /\ reply' = "none"
            /\ commands' \subseteq commands
      \/ \E c \in commands : AcceptCommand(c)
      \/ UNCHANGED <<pc, dispatch, commands, reply>>
  <2>1. CASE PreparationFails \/ SubmissionFails \/ SubmissionAccepted
    BY <2>1 DEF PreparationFails, SubmissionFails, SubmissionAccepted,
       EndDispatch
  <2>2. CASE AbortScheduler \/ Stop
    BY <2>2 DEF AbortScheduler, Stop, ResetScheduler
  <2>3. CASE UNCHANGED channelVars /\ UNCHANGED schedulerVars
    BY <2>3 DEF channelVars, schedulerVars
  <2>4. CASE \/ StartScheduler \/ BeginTick \/ ReadOrphans \/ RecoveryDone
             \/ NothingToDispatch
             \/ \E row \in rows : RecoverOrphan(row) \/ RecoveryFails(row)
             \/ \E j \in Job : ClaimNextRun(j)
    BY <2>4
       DEF StartScheduler, BeginTick, ReadOrphans, RecoverOrphan,
           RecoveryFails, RecoveryDone, ClaimNextRun, NothingToDispatch,
           channelVars, SentOnce
  <2>. QED BY <2>1, <2>2, <2>3, <2>4, ChannelAlone, SchedulerAlone
           DEF SchedulerStep, CommandAccepted
<1>. QED BY <1>1, <1>2, <1>3, <1>4, <1>5, <1>6

LEMMA DueStep ==
    ASSUME RecoveryIsDue, [Next]_vars
    PROVE  RecoveryIsDue'
BY SchedulerAlone
   DEF RecoveryIsDue, SchedulerStep, StartScheduler, BeginTick, ReadOrphans,
       RecoverOrphan, RecoveryFails, RecoveryDone, ClaimNextRun,
       NothingToDispatch, StartJobRun, Submit, PreparationFails,
       SubmissionFails, SubmissionAccepted, EndDispatch, AbortScheduler, Stop,
       ResetScheduler, schedulerVars

\* A settled failure takes the row from its run; that of a current run can
\* always be settled.
LEMMA FailureFrees ==
    ASSUME IInv, NEW j \in Job, NEW b, ScheduleFailure(j, b)
    PROVE  jobStatus'[j] # "running"
BY DEF ScheduleFailure, DeadLetter, Requeue, IInv, TablesOK

LEMMA CurrentCanFail ==
    ASSUME IInv, NEW j \in Job, NEW r \in Run, NEW b, IsCurrentRun(j, r)
    PROVE  CanScheduleFailure(j, b)
BY FreshIsNotCurrent DEF CanScheduleFailure

LEMMA TriedFailureFrees ==
    ASSUME IInv, NEW j \in Job, NEW r \in Run, NEW b, IsCurrentRun(j, r),
           TryScheduleFailure(j, b)
    PROVE  jobStatus'[j] # "running"
BY CurrentCanFail, FailureFrees DEF TryScheduleFailure

\* Of the runs of a dead worker, only one that is no longer current is dropped.
LEMMA ExitsSettledStep ==
    ASSUME IInv, ExitsAreSettled, [Next]_vars
    PROVE  ExitsAreSettled'
<1>. SUFFICES ASSUME exiting', NEW r \in Run, context'[r] # None,
                     NEW j \in Job, j = context'[r].job, IsCurrentRun(j, r)'
              PROVE  r \in exitRuns'
  <2>1. context' \in [Run -> Context \cup {None}]
    BY InvStep DEF IInv, MemoryOK
  <2>. QED BY <2>1 DEF ExitsAreSettled, Active, Context, IsCurrentRun
<1>1. CASE LoseWorker
  BY <1>1 DEF LoseWorker, Active
<1>2. CASE exiting
  <2>1. context'[r] = context[r]
    BY <1>2, ContextsAreGiven DEF AcceptCommand, Serving
  <2>2. IsCurrentRun(j, r)
    BY <2>1, CurrentStays, StartedIsFresh
       DEF IInv, ContextsAreTrue, ContextIsTrue, Active
  <2>3. r \in exitRuns /\ context[r].job = j
    BY <1>2, <2>1, <2>2 DEF ExitsAreSettled, Active
  <2>4. CASE SettleError
    <3>1. failing.run # r
      BY <2>3, <2>4, FailureFrees DEF SettleError, IsCurrentRun
    <3>. QED BY <1>2, <2>3, <2>4, <3>1 DEF SettleError
  <2>5. CASE SettleErrorFails
    <3>1. failing.run # r
      BY <2>2, <2>3, <2>5, CurrentCanFail DEF SettleErrorFails
    <3>. QED BY <1>2, <2>3, <2>5, <3>1 DEF SettleErrorFails
  <2>6. ASSUME NEW q \in Run, RunEnds(q) PROVE r \in exitRuns'
    BY <1>2, <2>2, <2>3, <2>6
       DEF RunEnds, RefuseBinding, DropStaleTerminal, SettleResult, Serving,
           CheckError, SkipExitedRun
  <2>7. CASE WorkerDies \/ RestartWorker \/ Stop \/ CommandAccepted
    BY <1>2, <2>7
       DEF WorkerDies, RestartWorker, Stop, CommandAccepted, AcceptCommand,
           Serving
  <2>. QED BY <2>3, <2>4, <2>5, <2>6, <2>7, SupervisorAlone
           DEF SupervisorStep, CommandAccepted, supervisorVars
<1>3. exiting \/ LoseWorker
  BY SupervisorAlone
     DEF SupervisorStep, AcceptCommand, SettleError, SettleErrorFails,
         RestartWorker, RunEnds, RefuseBinding, DropStaleTerminal,
         SettleResult, CheckError, SkipExitedRun, WorkerDies, Stop,
         supervisorVars
<1>. QED BY <1>1, <1>2, <1>3

\* While its run is current, a context is given up only when the Core stops.
LEMMA ContextPasses ==
    ASSUME IInv, NamesAreTrue, ExitsAreSettled, [Next]_vars,
           NEW j \in Job, NEW r \in Run, IsCurrentRun(j, r),
           IsCurrentRun(j, r)', context[r] # None
    PROVE  context'[r] # None \/ Stop
<1>1. context[r].job = j /\ context \in [Run -> Context \cup {None}]
  BY DEF NamesAreTrue, Active, BoundTo, IInv, MemoryOK
<1>2. ASSUME NEW q \in Run, q # r, Forget(q) PROVE context'[r] # None
  BY <1>1, <1>2 DEF Forget
<1>3. ASSUME NEW c \in commands, AcceptCommand(c) PROVE context'[r] # None
  <2>1. c \in Context /\ c # None
    BY NoneIsNoContext DEF IInv, MemoryOK
  <2>. QED BY <1>1, <1>3, <2>1 DEF AcceptCommand
<1>4. CASE SettleError
  <2>1. failing.run \in Run /\ failing.run # r
    BY <1>1, <1>4, FailureFrees
       DEF SettleError, IsCurrentRun, IInv, ExitsHaveContexts, Active
  <2>. QED BY <1>2, <1>4, <2>1 DEF SettleError
<1>5. CASE SettleErrorFails \/ WorkerDies
  BY <1>5 DEF SettleErrorFails, WorkerDies, LoseWorker
<1>6. ~RestartWorker
  BY <1>1 DEF RestartWorker, ExitsAreSettled, Active
<1>7. ASSUME NEW q \in Run, RunEnds(q) PROVE context'[r] # None
  <2>1. CASE DropStaleTerminal(q)
    BY <1>1, <1>2, <2>1 DEF DropStaleTerminal
  <2>2. ASSUME NEW o \in {"completed", "waiting_approval"}, SettleResult(q, o)
        PROVE  context'[r] # None
    <3>1. q # r
      BY <1>1, <2>2 DEF SettleResult, IsCurrentRun, IInv, TablesOK
    <3>. QED BY <1>2, <2>2, <3>1 DEF SettleResult
  <2>3. CASE RefuseBinding(q) \/ SkipExitedRun(q)
    BY <2>3 DEF RefuseBinding, LoseWorker, SkipExitedRun
  <2>4. ASSUME NEW b \in BOOLEAN, CheckError(q, b) PROVE context'[r] # None
    BY <2>4 DEF CheckError
  <2>. QED BY <1>7, <2>1, <2>2, <2>3, <2>4 DEF RunEnds
<1>. QED BY <1>3, <1>4, <1>5, <1>6, <1>7, SupervisorAlone
         DEF SupervisorStep, supervisorVars

\* A submission ends with the run in the supervisor, or not current.
LEMMA DispatchPasses ==
    ASSUME IInv, NamesAreTrue, SentOnce, [Next]_vars,
           NEW j \in Job, NEW r \in Run, IsCurrentRun(j, r),
           IsCurrentRun(j, r)', Dispatching(r)
    PROVE  Dispatching(r)' \/ context'[r] # None \/ pc' = "off"
<1>1. /\ pc \in {"started", "submitted"}
      /\ dispatch.job = j /\ dispatch.run = r
  BY DEF Dispatching, NamesAreTrue, BoundTo
<1>2. CASE Submit
  <2>1. [job |-> dispatch.job, run |-> dispatch.run,
         cursor |-> jobCursor[dispatch.job]] \in commands'
    BY <1>2 DEF Submit
  <2>. QED BY <1>1, <1>2, <2>1 DEF Submit, Dispatching
<1>3. ~SubmissionFails
  BY <1>1, TriedFailureFrees DEF SubmissionFails, IsCurrentRun
<1>4. ~SubmissionAccepted
  BY <1>1 DEF SubmissionAccepted, Dispatching, SentOnce
<1>5. ASSUME NEW c \in commands, AcceptCommand(c), c.run = r
      PROVE  Dispatching(r)' \/ context'[r] # None
  <2>1. pc = "submitted" /\ c # None
    BY <1>1, <1>5, NoneIsNoContext DEF SentOnce, IInv, MemoryOK
  <2>2. CASE context' = [context EXCEPT ![c.run] = c]
    BY <1>5, <2>1, <2>2 DEF IInv, MemoryOK
  <2>3. CASE Answer(c.run, "err")
    BY <1>1, <1>5, <2>1, <2>3
       DEF Answer, AcceptCommand, schedulerVars, Dispatching
  <2>. QED BY <1>5, <2>2, <2>3 DEF AcceptCommand
<1>6. ASSUME NEW c \in commands, AcceptCommand(c), c.run # r
      PROVE  Dispatching(r)'
  <2>1. /\ commands' = commands \ {c} /\ reply' = reply
        /\ pc' = pc /\ dispatch' = dispatch
    BY <1>1, <1>6 DEF AcceptCommand, Answer, schedulerVars
  <2>. QED BY <1>6, <2>1 DEF Dispatching
<1>7. CASE UNCHANGED channelVars /\ UNCHANGED schedulerVars
  BY <1>7 DEF channelVars, schedulerVars, Dispatching
<1>8. \/ UNCHANGED channelVars /\ UNCHANGED schedulerVars
      \/ Submit \/ SubmissionFails \/ SubmissionAccepted
      \/ (\E c \in commands : AcceptCommand(c)) \/ pc' = "off"
  BY <1>1, ChannelAlone, SchedulerAlone
     DEF SchedulerStep, StartScheduler, BeginTick, ReadOrphans,
         RecoverOrphan, RecoveryFails, RecoveryDone, ClaimNextRun,
         NothingToDispatch, StartJobRun, PreparationFails, AbortScheduler,
         Stop, ResetScheduler, CommandAccepted
<1>. QED BY <1>2, <1>3, <1>4, <1>5, <1>6, <1>7, <1>8

\* A row that recovery treats does not run any more.
LEMMA RecoveryFrees ==
    ASSUME IInv, NEW row \in rows, RecoverOrphan(row)
    PROVE  jobStatus'[row.job] # "running"
BY DEF RecoverOrphan, DeadLetter, Requeue, IInv, MemoryOK, Row, TablesOK, jobVars

\* Recovery passes over a current run only if the supervisor has it.
LEMMA RecoveryPasses ==
    ASSUME IInv, RecoveryIsDue, [Next]_vars,
           NEW j \in Job, NEW r \in Run, IsCurrentRun(j, r),
           IsCurrentRun(j, r)', AwaitsRecovery(j)
    PROVE  AwaitsRecovery(j)' \/ context'[r] # None
<1>1. CASE UNCHANGED schedulerVars
  BY <1>1 DEF schedulerVars, AwaitsRecovery, IsCurrentRun
<1>2. CASE BeginTick
  BY <1>2 DEF BeginTick, AwaitsRecovery, IsCurrentRun, Active, IInv,
     RowsAreFresh, supervisorVars, jobVars
<1>3. CASE ReadOrphans
  <2>1. Orphaned(j)
    BY <1>3 DEF ReadOrphans, AwaitsRecovery, IsCurrentRun, Orphaned, IInv,
       RowsAreFresh
  <2>2. [job |-> j, run |-> jobRun[j], attempts |-> jobAttempts[j]] \in rows'
    BY <1>3, <2>1 DEF ReadOrphans
  <2>. QED BY <2>2 DEF AwaitsRecovery
<1>4. ASSUME NEW row \in rows, RecoverOrphan(row) PROVE AwaitsRecovery(j)'
  <2>1. row.job # j
    BY <1>4, RecoveryFrees DEF IsCurrentRun
  <2>. QED BY <1>4, <2>1 DEF RecoverOrphan, AwaitsRecovery
<1>5. ASSUME NEW row \in rows, RecoveryFails(row) PROVE AwaitsRecovery(j)'
  BY <1>5 DEF RecoveryFails, AwaitsRecovery, RecoveryIsDue
<1>6. ~RecoveryDone
  BY DEF RecoveryDone, AwaitsRecovery
<1>7. CASE pc \notin {"orphans", "rows"} /\ pc' \notin {"orphans", "rows"}
           /\ recovered' = recovered
  BY <1>7 DEF AwaitsRecovery, IInv, RowsAreFresh
<1>8. CASE AbortScheduler \/ Stop
  BY <1>8 DEF AbortScheduler, Stop, ResetScheduler, AwaitsRecovery
<1>9. \/ BeginTick \/ ReadOrphans \/ RecoveryDone
      \/ \E row \in rows : RecoverOrphan(row) \/ RecoveryFails(row)
      \/ pc \notin {"orphans", "rows"} /\ pc' \notin {"orphans", "rows"}
            /\ recovered' = recovered
      \/ UNCHANGED schedulerVars
      \/ AbortScheduler \/ Stop
  BY SchedulerAlone
     DEF SchedulerStep, StartScheduler, ClaimNextRun, NothingToDispatch,
         StartJobRun, Submit, PreparationFails, SubmissionFails,
         SubmissionAccepted, EndDispatch
<1>. QED BY <1>1, <1>2, <1>3, <1>4, <1>5, <1>6, <1>7, <1>8, <1>9

LEMMA HeldStep ==
    ASSUME IInv, HeldInv, [Next]_vars
    PROVE  CurrentRunIsHeld'
<1>. SUFFICES ASSUME NEW j \in Job, NEW r \in Run, IsCurrentRun(j, r)'
              PROVE  Dispatching(r)' \/ context'[r] # None \/ AwaitsRecovery(j)'
  BY DEF CurrentRunIsHeld
<1>1. ASSUME NEW c \in 0..MaxSync, StartJobRun(r, c) PROVE Dispatching(r)'
  BY <1>1, StartedRow DEF StartJobRun, Dispatching, Dispatch
<1>2. CASE IsCurrentRun(j, r)
  <2>1. Dispatching(r) \/ context[r] # None \/ AwaitsRecovery(j)
    BY <1>2 DEF HeldInv, CurrentRunIsHeld
  <2>2. pc' = "off" => AwaitsRecovery(j)'
    BY DueStep DEF HeldInv, RecoveryIsDue, AwaitsRecovery
  <2>3. Stop => pc' = "off"
    BY DEF Stop, ResetScheduler
  <2>. QED BY <1>2, <2>1, <2>2, <2>3, ContextPasses, DispatchPasses,
              RecoveryPasses DEF HeldInv
<1>. QED BY <1>1, <1>2, CurrentStays

LEMMA HeldInit == Init => HeldInv
BY DEF Init, HeldInv, NamesAreTrue, SentOnce, RecoveryIsDue, ExitsAreSettled,
       CurrentRunIsHeld, IsCurrentRun, SchedulerOff, SupervisorIdle, Active

\* The current run of a running row has somebody who will end it
\* (automation_runtime.rs, agent_worker_supervisor.rs): the scheduler that
\* submits it, the supervisor, or recovery, for any number of stops and of
\* replacements of the scheduler.
THEOREM CurrentRunsAreHeld == Spec => []CurrentRunIsHeld
<1>1. IInv /\ HeldInv /\ [Next]_vars => HeldInv'
  BY NamesStep, SentStep, DueStep, ExitsSettledStep, HeldStep DEF HeldInv
<1>2. HeldInv => CurrentRunIsHeld
  BY DEF HeldInv
<1>. QED BY HeldInit, <1>1, <1>2, InductiveInvariant, PTL DEF Spec

-----------------------------------------------------------------------------
(***************************************************************************)
(* AutomationRuntime implements FencedDispatch as long as the scheduler is  *)
(* not replaced while its supervisor lives on (MaxAborts = 0).              *)
(*                                                                          *)
(* Dead letters and requeues name a row by its id alone, so that a row must *)
(* belong to whoever settles it.  That it does is an invariant: the         *)
(* scheduler keeps the row it dispatches until the supervisor accepts it    *)
(* (DispatchIsOwn), an error is settled for the current run                 *)
(* (ErrorIsCurrent), and recovery reads rows that no active run is bound to *)
(* (OrphansAreOwn).                                                         *)
(***************************************************************************)

DoneStatus == {"waiting_approval", "completed"}

Handed == pc = "started" \/ (pc = "submitted" /\ reply # "ok")

\* The channel holds no command but that of the submission that is waited for.
ChannelIsOwn ==
    /\ pc # "submitted" => commands = {} /\ reply = "none"
    /\ \A c \in commands :
          commands = {c} /\ c.run = dispatch.run /\ reply = "none"

\* Until it is accepted, the run of a submission is the scheduler's.
DispatchIsOwn ==
    Handed => /\ dispatch.run \notin Active
              /\ IsCurrentRun(dispatch.job, dispatch.run)

\* The run whose error passed the check is still the current one.
ErrorIsCurrent ==
    failing # None => IsCurrentRun(context[failing.run].job, failing.run)

\* What recovery has still to treat runs, and not in the supervisor.
OrphansAreOwn ==
    /\ pc \in {"orphans", "rows"} => Active \subseteq seen
    /\ \A row \in rows : jobStatus[row.job] = "running" /\ row.run \notin seen

CompletedFor(j, r) ==
    attempt[r] # None /\ attempt[r].workflow = j /\ attempt[r].status = "completed"

\* Attempts are numbered by the claims, and the one that completed is the last.
ClaimNumbered == pc = "claimed" => dispatch.number = jobAttempts[dispatch.job]

Numbered ==
    /\ \A j \in Job, r \in Run :
          /\ IsCurrentRun(j, r) => attempt[r].number = jobAttempts[j]
          /\ CompletedFor(j, r) =>
                jobStatus[j] \in DoneStatus /\ attempt[r].number = jobAttempts[j]
    /\ \A j \in Job : jobStatus[j] \in DoneStatus => \E r \in Run : CompletedFor(j, r)

Own ==
    /\ ChannelIsOwn
    /\ DispatchIsOwn
    /\ ErrorIsCurrent
    /\ OrphansAreOwn

-----------------------------------------------------------------------------
(* The kinds of steps *)

\* A dead letter or a requeue of the row j, whatever run it has.
Released(j) ==
    \/ DeadLetter(j, jobRun[j])
    \/ \E b \in BOOLEAN : Requeue(j, jobRun[j], b)

\* Who releases it.
Releases(j) ==
    \/ \E row \in rows : RecoverOrphan(row) /\ row.job = j
    \/ (PreparationFails \/ SubmissionFails) /\ dispatch.job = j
    \/ SettleError /\ context[failing.run].job = j

\* The row has an owner, or was given up by it.
LEMMA FailureReleases ==
    ASSUME NEW j \in Job, NEW b, TryScheduleFailure(j, b)
    PROVE  Released(j) \/ UNCHANGED <<workflowVars, jobVars>>
BY DEF TryScheduleFailure, ScheduleFailure, Released

LEMMA StepKinds ==
    ASSUME IInv, Own, [Next]_vars
    PROVE  \/ UNCHANGED <<jobStatus, jobRun, jobAttempts, attempt>>
           \/ \E j \in Job, t \in Task : InsertJob(j, t)
           \/ \E j \in Job : ClaimNextRun(j)
           \/ \E r \in Run, c \in 0..MaxSync : StartJobRun(r, c)
           \/ \E r \in Run, outcome \in {"completed", "waiting_approval"} :
                 SettleResult(r, outcome)
           \/ \E j \in Job : Released(j) /\ Releases(j)
                               /\ jobStatus[j] \in {"running", "failed"}
<1>. DEFINE G == \/ UNCHANGED <<jobStatus, jobRun, jobAttempts, attempt>>
                 \/ \E j \in Job, t \in Task : InsertJob(j, t)
                 \/ \E j \in Job : ClaimNextRun(j)
                 \/ \E r \in Run, c \in 0..MaxSync : StartJobRun(r, c)
                 \/ \E r \in Run, outcome \in {"completed", "waiting_approval"} :
                       SettleResult(r, outcome)
                 \/ \E j \in Job : Released(j) /\ Releases(j)
                                     /\ jobStatus[j] \in {"running", "failed"}
<1>0. ASSUME UNCHANGED <<workflowVars, jobVars>> PROVE G
  BY <1>0 DEF workflowVars, jobVars
<1>1. ASSUME NEW j \in Job, NEW t \in Task, EnqueueManual(j, t) \/ EnqueueDue(j, t)
      PROVE  G
  BY <1>1 DEF EnqueueManual, EnqueueDue
<1>2. ASSUME NEW t \in Task, DeleteTask(t) PROVE G
  BY <1>2 DEF DeleteTask, workflowVars
<1>3. ASSUME NEW j \in Job, BackoffElapses(j) PROVE G
  BY <1>3 DEF BackoffElapses, workflowVars
<1>4. ASSUME NEW row \in rows, RecoverOrphan(row) PROVE G
  <2>1. row.job \in Job /\ jobStatus[row.job] = "running"
    BY DEF IInv, MemoryOK, Row, Own, OrphansAreOwn
  <2>2. jobRun[row.job] = row.run
    BY <2>1 DEF IInv, RowsAreFresh
  <2>3. Released(row.job) \/ UNCHANGED <<workflowVars, jobVars>>
    BY <1>4, <2>1, <2>2 DEF RecoverOrphan, Released
  <2>. QED BY <1>0, <1>4, <2>1, <2>3 DEF Releases
<1>5. CASE PreparationFails \/ SubmissionFails
  <2>1. /\ dispatch.job \in Job
        /\ jobStatus[dispatch.job] \in {"running", "failed"}
    BY <1>5 DEF PreparationFails, SubmissionFails, IInv, Prepared, Dispatch, Own,
       DispatchIsOwn, Handed, IsCurrentRun
  <2>2. Released(dispatch.job) \/ UNCHANGED <<workflowVars, jobVars>>
    BY <1>5, <2>1, FailureReleases DEF PreparationFails, SubmissionFails
  <2>. QED BY <1>0, <1>5, <2>1, <2>2 DEF Releases
<1>6. CASE SettleError
  <2>1. /\ context[failing.run].job \in Job
        /\ jobStatus[context[failing.run].job] = "running"
    BY <1>6 DEF SettleError, IInv, ExitsHaveContexts, MemoryOK, Active, Context,
       Own, ErrorIsCurrent, IsCurrentRun
  <2>2. Released(context[failing.run].job)
    BY <1>6 DEF SettleError, ScheduleFailure, Released
  <2>. QED BY <1>6, <2>1, <2>2 DEF Releases
<1>7. ASSUME NEW r \in Run, RunEnds(r) PROVE G
  BY <1>0, <1>7 DEF RunEnds, RefuseBinding, LoseWorker, DropStaleTerminal,
       CheckError, SkipExitedRun
<1>8. ASSUME NEW row \in rows, RecoveryFails(row) PROVE G
  BY <1>0, <1>8 DEF RecoveryFails
<1>9. CASE FeedSync \/ StartScheduler \/ BeginTick \/ ReadOrphans \/ RecoveryDone
             \/ NothingToDispatch \/ Submit \/ SubmissionAccepted
             \/ CommandAccepted \/ SettleErrorFails \/ RestartWorker \/ WorkerDies
             \/ AbortScheduler \/ Stop \/ UNCHANGED vars
  BY <1>0, <1>9 DEF FeedSync, StartScheduler, BeginTick, ReadOrphans,
       RecoveryDone, NothingToDispatch, Submit, SubmissionAccepted, EndDispatch,
       CommandAccepted, AcceptCommand, SettleErrorFails, RestartWorker, WorkerDies, LoseWorker,
       AbortScheduler, Stop, vars
<1>. QED BY <1>1, <1>2, <1>3, <1>4, <1>5, <1>6, <1>7, <1>8, <1>9
         DEF Next, SchedulerStep, SupervisorStep, CommandAccepted

\* What a release writes: the row is given up or queued, its attempt failed.
LEMMA ReleaseWrites ==
    ASSUME IInv, NEW j \in Job, Released(j)
    PROVE  /\ jobAttempts' = jobAttempts
           /\ \/ /\ jobStatus' = [jobStatus EXCEPT ![j] = "failed"]
                 /\ jobRun' = jobRun
              \/ /\ jobStatus[j] = "running"
                 /\ jobStatus' = [jobStatus EXCEPT ![j] = "queued"]
                 /\ jobRun' = [jobRun EXCEPT ![j] = None]
           /\ \A r \in Run : attempt[r] # None => attempt'[r].number = attempt[r].number
           /\ \A i \in Job, r \in Run : CompletedFor(i, r)' <=> CompletedFor(i, r)
<1>1. /\ jobAttempts' = jobAttempts
      /\ \/ /\ jobStatus' = [jobStatus EXCEPT ![j] = "failed"]
            /\ jobRun' = jobRun
         \/ /\ wfState[j] = "RUNNING"
            /\ jobStatus' = [jobStatus EXCEPT ![j] = "queued"]
            /\ jobRun' = [jobRun EXCEPT ![j] = None]
      /\ FinishAttempt(j, jobRun[j], "failed")
  BY DEF Released, DeadLetter, MarkFailed, Requeue, RequeueWorkflow, MarkRetryScheduled
<1>2. wfState[j] = "RUNNING" => jobStatus[j] = "running"
  BY RunningWorkflow
<1>3. ASSUME NEW r \in Run
      PROVE  \/ attempt'[r] = attempt[r]
             \/ /\ attempt[r] # None /\ attempt[r].status = "running"
                /\ attempt'[r] # None
                /\ attempt'[r].number = attempt[r].number
                /\ attempt'[r].status = "failed"
  <2>1. CASE AttemptRuns(j, jobRun[j]) /\ r = jobRun[j]
    <3>1. attempt[r] \in Attempt
      BY <2>1 DEF AttemptRuns, IInv, TablesOK, WorkflowTypeOK
    <3>2. attempt'[r] = [attempt[r] EXCEPT !.status = "failed"]
      BY <1>1, <2>1 DEF FinishAttempt, IInv, TablesOK, WorkflowTypeOK
    <3>3. [attempt[r] EXCEPT !.status = "failed"] \in Attempt
      BY <3>1 DEF Attempt
    <3>. QED BY <2>1, <3>1, <3>2, <3>3, NoneIsNoRow DEF AttemptRuns, Attempt
  <2>2. CASE ~(AttemptRuns(j, jobRun[j]) /\ r = jobRun[j])
    BY <1>1, <2>2 DEF FinishAttempt, IInv, TablesOK, WorkflowTypeOK
  <2>. QED BY <2>1, <2>2
<1>. QED BY <1>1, <1>2, <1>3 DEF CompletedFor

-----------------------------------------------------------------------------
(* A row belongs to whoever settles it *)

\* Who takes its run, or its place in the queue, from a running row.
LEMMA RowLeaves ==
    ASSUME IInv, Own, [Next]_vars, NEW j \in Job, jobStatus[j] = "running",
           jobStatus'[j] # "running" \/ jobRun'[j] # jobRun[j]
    PROVE  \/ \E row \in rows : RecoverOrphan(row) /\ row.job = j
           \/ pc = "claimed" /\ dispatch.job = j /\ pc' # pc
           \/ SubmissionFails /\ dispatch.job = j
           \/ SettleError /\ jobRun[j] = failing.run
           \/ \E outcome \in {"completed", "waiting_approval"} :
                 SettleResult(jobRun[j], outcome)
<1>1. ASSUME NEW i \in Job, NEW t \in Task, InsertJob(i, t) PROVE FALSE
  BY <1>1 DEF InsertJob, IInv, TablesOK
<1>2. ASSUME NEW i \in Job, ClaimNextRun(i) PROVE FALSE
  BY <1>2 DEF ClaimNextRun, Claimable, IInv, TablesOK
<1>3. ASSUME NEW r \in Run, NEW c \in 0..MaxSync, StartJobRun(r, c)
      PROVE  pc = "claimed" /\ dispatch.job = j /\ pc' # pc
  BY <1>3, StartedRow DEF StartJobRun, IInv, TablesOK
<1>4. ASSUME NEW r \in Run, NEW outcome \in {"completed", "waiting_approval"},
             SettleResult(r, outcome)
      PROVE  r = jobRun[j]
  <2>1. /\ jobStatus' = [jobStatus EXCEPT ![context[r].job] = outcome]
        /\ UNCHANGED jobRun /\ jobRun[context[r].job] = r
    BY <1>4 DEF SettleResult, ResultIsCurrent, IsCurrentRun
  <2>. QED BY <2>1 DEF IInv, TablesOK
<1>5. ASSUME NEW i \in Job, Released(i), Releases(i)
      PROVE  \/ \E row \in rows : RecoverOrphan(row) /\ row.job = j
             \/ pc = "claimed" /\ dispatch.job = j /\ pc' # pc
             \/ SubmissionFails /\ dispatch.job = j
             \/ SettleError /\ jobRun[j] = failing.run
  <2>1. i = j
    BY <1>5, ReleaseWrites DEF IInv, TablesOK
  <2>2. SettleError => jobRun[context[failing.run].job] = failing.run
    BY DEF SettleError, Own, ErrorIsCurrent, IsCurrentRun
  <2>3. PreparationFails => pc = "claimed" /\ pc' # pc
    BY DEF PreparationFails, EndDispatch
  <2>. QED BY <1>5, <2>1, <2>2, <2>3 DEF Releases
<1>. QED BY <1>1, <1>2, <1>3, <1>4, <1>5, StepKinds

\* A running row that an active run is bound to stays so until that run ends
\* in the supervisor.
LEMMA ActiveRowStays ==
    ASSUME IInv, Own, [Next]_vars, NEW j \in Job, NEW r \in Active,
           IsCurrentRun(j, r), ~(jobStatus'[j] = "running" /\ jobRun'[j] = r)
    PROVE  \/ SettleError /\ failing.run = r
           \/ \E outcome \in {"completed", "waiting_approval"} : SettleResult(r, outcome)
<1>1. /\ jobStatus[j] = "running" /\ jobRun[j] = r
      /\ jobStatus'[j] # "running" \/ jobRun'[j] # jobRun[j]
  BY DEF IsCurrentRun
<1>2. ASSUME NEW row \in rows, RecoverOrphan(row), row.job = j PROVE FALSE
  <2>1. row.run = r
    BY <1>1, <1>2 DEF IInv, RowsAreFresh
  <2>. QED BY <1>2, <2>1 DEF RecoverOrphan, Own, OrphansAreOwn
<1>3. ASSUME pc = "claimed", dispatch.job = j PROVE FALSE
  BY <1>1, <1>3 DEF IInv, Prepared, Active
<1>4. ASSUME SubmissionFails, dispatch.job = j PROVE FALSE
  BY <1>1, <1>4 DEF SubmissionFails, Own, DispatchIsOwn, Handed, IsCurrentRun
<1>. QED BY <1>1, <1>2, <1>3, <1>4, RowLeaves

\* The error that is settled is that of the current run: the check and the
\* settlement are two steps, and nobody takes the row in between.
LEMMA ErrorStep ==
    ASSUME IInv, Own, [Next]_vars
    PROVE  ErrorIsCurrent'
<1>1. ASSUME NEW r \in Run, NEW t \in BOOLEAN, CheckError(r, t) PROVE ErrorIsCurrent'
  BY <1>1 DEF CheckError, ErrorIsCurrent, IsCurrentRun, jobVars
<1>2. CASE failing' = None
  BY <1>2 DEF ErrorIsCurrent
<1>3. CASE failing' = failing /\ failing # None /\ context' = context /\ ~SettleError
             /\ \A r \in Run, o \in {"completed", "waiting_approval"} : ~SettleResult(r, o)
  <2>. DEFINE r == failing.run
              j == context[r].job
  <2>1. r \in Active /\ j \in Job /\ IsCurrentRun(j, r)
    BY <1>3 DEF IInv, ExitsHaveContexts, MemoryOK, Active, Context, Own, ErrorIsCurrent
  <2>. HIDE DEF j, r
  <2>2. jobStatus'[j] = "running" /\ jobRun'[j] = r
    BY <1>3, <2>1, ActiveRowStays DEF Active
  <2>. QED BY <1>3, <2>2 DEF ErrorIsCurrent, IsCurrentRun, j, r
<1>4. \/ \E r \in Run, t \in BOOLEAN : CheckError(r, t)
      \/ failing' = None
      \/ failing' = failing /\ failing # None /\ context' = context /\ ~SettleError
           /\ \A r \in Run, o \in {"completed", "waiting_approval"} : ~SettleResult(r, o)
  BY SupervisorAlone
     DEF SupervisorStep, CommandAccepted, AcceptCommand, SettleError, SettleErrorFails,
         RestartWorker, RunEnds, RefuseBinding, LoseWorker,
         DropStaleTerminal, SettleResult, SkipExitedRun, WorkerDies, Stop,
         supervisorVars, Serving
<1>. QED BY <1>1, <1>2, <1>3, <1>4

\* No actor but the scheduler fills the channel and waits for an answer.
LEMMA ChannelStep ==
    ASSUME IInv, Own, MaxAborts = 0, [Next]_vars
    PROVE  ChannelIsOwn'
<1>. USE DEF Own, ChannelIsOwn
<1>1. CASE UNCHANGED channelVars /\ (pc = "submitted" <=> pc' = "submitted")
             /\ (pc = "submitted" => dispatch' = dispatch)
  BY <1>1 DEF channelVars
<1>2. CASE Submit
  BY <1>2 DEF Submit
<1>3. CASE CommandAccepted
  BY <1>3 DEF CommandAccepted, AcceptCommand, Answer, schedulerVars
<1>4. CASE SubmissionAccepted \/ SubmissionFails
  BY <1>4 DEF SubmissionAccepted, SubmissionFails, EndDispatch
<1>5. CASE PreparationFails
  BY <1>5 DEF PreparationFails, EndDispatch
<1>6. CASE Stop
  BY <1>6 DEF Stop, ResetScheduler
<1>7. CASE AbortScheduler
  BY <1>7 DEF AbortScheduler, IInv, MemoryOK
<1>8. \/ UNCHANGED channelVars /\ (pc = "submitted" <=> pc' = "submitted")
             /\ (pc = "submitted" => dispatch' = dispatch)
      \/ Submit \/ CommandAccepted \/ SubmissionAccepted \/ SubmissionFails
      \/ PreparationFails \/ Stop \/ AbortScheduler
  BY ChannelAlone, SchedulerAlone
     DEF SchedulerStep, StartScheduler, BeginTick, ReadOrphans,
         RecoverOrphan, RecoveryFails, RecoveryDone, ClaimNextRun,
         NothingToDispatch, StartJobRun, channelVars, schedulerVars
<1>. QED BY <1>1, <1>2, <1>3, <1>4, <1>5, <1>6, <1>7, <1>8

\* Nothing becomes active but by a command that is accepted.
LEMMA ActiveStep ==
    ASSUME IInv, [Next]_vars
    PROVE  \/ Active' \subseteq Active
           \/ \E c \in commands :
                 /\ AcceptCommand(c)
                 /\ Active' \subseteq Active \cup {c.run}
                 /\ (pc = "submitted" /\ dispatch.run = c.run) => reply' = "ok"
<1>1. ASSUME NEW c \in commands, AcceptCommand(c)
      PROVE  \/ Active' \subseteq Active
             \/ /\ Active' \subseteq Active \cup {c.run}
                /\ (pc = "submitted" /\ dispatch.run = c.run) => reply' = "ok"
  <2>1. c \in Context /\ c.run \in Run
    BY DEF IInv, MemoryOK, Context
  <2>2. CASE UNCHANGED context
    BY <2>2 DEF Active
  <2>3. CASE context' = [context EXCEPT ![c.run] = c] /\ Answer(c.run, "ok")
    BY <2>1, <2>3 DEF Answer, Active, IInv, MemoryOK
  <2>. QED BY <1>1, <2>2, <2>3 DEF AcceptCommand
<1>2. ASSUME \A r \in Run : context'[r] # None => context[r] # None
      PROVE  Active' \subseteq Active
  BY <1>2 DEF Active
<1>3. CommandAccepted \/ \A r \in Run : context'[r] # None => context[r] # None
  BY ContextsAreGiven DEF CommandAccepted
<1>. QED BY <1>1, <1>2, <1>3 DEF CommandAccepted

\* A submission owns its row until the supervisor has accepted it.
LEMMA DispatchStep ==
    ASSUME IInv, Own, [Next]_vars
    PROVE  DispatchIsOwn'
<1>1. ASSUME NEW r \in Run, NEW c \in 0..MaxSync, StartJobRun(r, c)
      PROVE  DispatchIsOwn'
  <2>1. /\ dispatch'.run = r /\ dispatch'.job = dispatch.job /\ dispatch.job \in Job
        /\ jobStatus'[dispatch.job] = "running" /\ jobRun'[dispatch.job] = r
    BY <1>1, StartedRow DEF StartJobRun, Dispatch, IInv, TablesOK
  <2>2. r \notin Active /\ context' = context
    BY <1>1 DEF StartJobRun, StartRun, CanStartRun, FreshAttempt, supervisorVars,
       IInv, ContextsAreTrue, ContextIsTrue
  <2>. QED BY <2>1, <2>2 DEF DispatchIsOwn, IsCurrentRun, Active
<1>2. CASE Handed /\ Handed' /\ dispatch' = dispatch /\ ~SubmissionFails
  <2>. DEFINE j == dispatch.job
              r == dispatch.run
  <2>1. /\ j \in Job /\ r \notin Active /\ pc \in {"started", "submitted"}
        /\ jobStatus[j] = "running" /\ jobRun[j] = r
    BY <1>2 DEF Handed, IInv, Prepared, Dispatch, Own, DispatchIsOwn, IsCurrentRun
  <2>2. r \notin Active'
    BY <1>2, <2>1, ActiveStep DEF Handed, CommandAccepted, AcceptCommand, schedulerVars, Own, ChannelIsOwn
  <2>. HIDE DEF j
  <2>3. ASSUME NEW row \in rows, RecoverOrphan(row) PROVE FALSE
    BY <2>1, <2>3 DEF RecoverOrphan
  <2>4. ~(SettleError /\ jobRun[j] = failing.run)
    BY <2>1 DEF SettleError, IInv, ExitsHaveContexts
  <2>5. ASSUME NEW o, SettleResult(jobRun[j], o) PROVE FALSE
    BY <2>1, <2>5 DEF SettleResult
  <2>6. jobStatus'[j] = "running" /\ jobRun'[j] = r
    BY <1>2, <2>1, <2>3, <2>4, <2>5, RowLeaves
  <2>. QED BY <1>2, <2>2, <2>6 DEF DispatchIsOwn, IsCurrentRun, j
<1>3. \/ ~Handed'
      \/ \E r \in Run, c \in 0..MaxSync : StartJobRun(r, c)
      \/ Handed /\ Handed' /\ dispatch' = dispatch /\ ~SubmissionFails
  <2>. USE DEF Handed
  <2>1. CASE CommandAccepted
    BY <2>1 DEF CommandAccepted, AcceptCommand, Answer, schedulerVars, SubmissionFails, EndDispatch,
       Own, ChannelIsOwn
  <2>2. CASE Submit
    BY <2>2 DEF Submit, SubmissionFails, EndDispatch
  <2>3. CASE UNCHANGED <<pc, reply, dispatch>>
    BY <2>3 DEF SubmissionFails, EndDispatch
  <2>4. CASE pc' \notin {"started", "submitted"}
    BY <2>4
  <2>5. \/ \E r \in Run, c \in 0..MaxSync : StartJobRun(r, c)
        \/ CommandAccepted \/ Submit
        \/ UNCHANGED <<pc, reply, dispatch>>
        \/ pc' \notin {"started", "submitted"}
    BY ChannelAlone, SchedulerAlone
       DEF SchedulerStep, StartScheduler, BeginTick, ReadOrphans,
           RecoverOrphan, RecoveryFails, RecoveryDone, ClaimNextRun,
           NothingToDispatch, PreparationFails, SubmissionFails,
           SubmissionAccepted, EndDispatch, AbortScheduler, Stop,
           ResetScheduler, channelVars, schedulerVars
  <2>. QED BY <2>1, <2>2, <2>3, <2>4, <2>5
<1>. QED BY <1>1, <1>2, <1>3 DEF DispatchIsOwn

\* Recovery treats the rows it has read, and nobody else does.
LEMMA OrphansStep ==
    ASSUME IInv, Own, [Next]_vars
    PROVE  OrphansAreOwn'
<1>. DEFINE Kept == rows' \subseteq rows /\ seen' = seen /\ pc = "rows"
                    /\ \A row \in rows : RecoverOrphan(row) => row \notin rows'
<1>1. ASSUME pc' \in {"orphans", "rows"} PROVE Active' \subseteq seen'
  <2>1. CASE BeginTick
    BY <1>1, <2>1 DEF BeginTick, supervisorVars, Active
  <2>2. CASE pc \in {"orphans", "rows"} /\ seen' = seen
    BY <2>2, ActiveStep DEF Own, OrphansAreOwn, ChannelIsOwn
  <2>3. BeginTick \/ (pc \in {"orphans", "rows"} /\ seen' = seen)
    BY <1>1, SchedulerAlone
       DEF SchedulerStep, StartScheduler, ReadOrphans, RecoverOrphan,
           RecoveryFails, RecoveryDone, ClaimNextRun, NothingToDispatch,
           StartJobRun, Submit, PreparationFails, SubmissionFails,
           SubmissionAccepted, EndDispatch, AbortScheduler, Stop,
           ResetScheduler, schedulerVars
  <2>. QED BY <2>1, <2>2, <2>3
<1>2. CASE ReadOrphans
  BY <1>1, <1>2 DEF ReadOrphans, Orphaned, OrphansAreOwn, jobVars
<1>3. CASE rows' = {}
  BY <1>1, <1>3 DEF OrphansAreOwn
<1>4. CASE Kept
  <2>1. ASSUME NEW row \in rows'
        PROVE  jobStatus'[row.job] = "running" /\ row.run \notin seen'
    <3>. DEFINE j == row.job
    <3>1. /\ row \in rows /\ j \in Job /\ jobStatus[j] = "running"
          /\ row.run \notin seen /\ jobRun[j] = row.run /\ row \in Row
          /\ jobAttempts[j] = row.attempts
      BY <1>4, <2>1 DEF Own, OrphansAreOwn, IInv, MemoryOK, Row, RowsAreFresh
    <3>2. row.run \notin Active
      BY <1>4, <3>1 DEF Own, OrphansAreOwn
    <3>3. ASSUME NEW other \in rows, RecoverOrphan(other), other.job = j PROVE FALSE
      <4>1. other \in Row /\ other.run = row.run /\ other.attempts = row.attempts
        BY <3>1, <3>3 DEF IInv, MemoryOK, RowsAreFresh
      <4>2. other = row
        BY <3>1, <3>3, <4>1 DEF Row
      <4>. QED BY <1>4, <2>1, <3>3, <4>2
    <3>4. pc # "claimed" /\ ~SubmissionFails
      BY <1>4 DEF SubmissionFails
    <3>5. ~(SettleError /\ jobRun[j] = failing.run)
      BY <3>1, <3>2 DEF SettleError, IInv, ExitsHaveContexts
    <3>6. ASSUME NEW o, SettleResult(jobRun[j], o) PROVE FALSE
      BY <3>1, <3>2, <3>6 DEF SettleResult
    <3>. HIDE DEF j
    <3>7. jobStatus'[j] = "running"
      BY <3>1, <3>3, <3>4, <3>5, <3>6, RowLeaves
    <3>. QED BY <1>4, <3>1, <3>7 DEF j
  <2>. QED BY <1>1, <2>1 DEF OrphansAreOwn
<1>5. ReadOrphans \/ rows' = {} \/ Kept
  <2>1. CASE rows # {}
    <3>1. pc = "rows"
      BY <2>1 DEF IInv, RowsAreFresh
    <3>2. CASE UNCHANGED <<rows, seen>> /\ \A row \in rows : ~RecoverOrphan(row)
      BY <3>1, <3>2
    <3>3. ASSUME NEW row \in rows, RecoverOrphan(row) PROVE Kept
      <4>1. rows' = rows \ {row} /\ seen' = seen
        BY <3>3 DEF RecoverOrphan
      <4>2. \A other \in rows : RecoverOrphan(other) => rows' = rows \ {other}
        BY DEF RecoverOrphan
      <4>. QED BY <3>1, <4>1, <4>2
    <3>4. CASE UNCHANGED <<rows, seen>>
      BY <3>2, <3>3, <3>4
    <3>5. \/ UNCHANGED <<rows, seen>>
          \/ \E row \in rows : RecoverOrphan(row)
          \/ rows' = {}
      BY <3>1, SchedulerAlone
         DEF SchedulerStep, StartScheduler, BeginTick, ReadOrphans,
             RecoveryFails, RecoveryDone, ClaimNextRun, NothingToDispatch,
             StartJobRun, Submit, PreparationFails, SubmissionFails,
             SubmissionAccepted, EndDispatch, AbortScheduler, Stop,
             ResetScheduler, schedulerVars
    <3>. QED BY <3>3, <3>4, <3>5
  <2>2. CASE rows = {}
    <3>1. rows' = {} \/ ReadOrphans
      BY <2>2, SchedulerAlone
         DEF SchedulerStep, StartScheduler, BeginTick, RecoveryDone,
             ClaimNextRun, NothingToDispatch, StartJobRun, Submit,
             PreparationFails, SubmissionFails, SubmissionAccepted,
             EndDispatch, AbortScheduler, Stop, ResetScheduler,
             schedulerVars
    <3>. QED BY <3>1
  <2>. QED BY <2>1, <2>2
<1>. QED BY <1>2, <1>3, <1>4, <1>5

-----------------------------------------------------------------------------
(* Attempts and their numbers *)

LEMMA ClaimNumberStep ==
    ASSUME IInv, ClaimNumbered, [Next]_vars
    PROVE  ClaimNumbered'
<1>1. ASSUME NEW j \in Job, ClaimNextRun(j) PROVE ClaimNumbered'
  BY <1>1 DEF ClaimNextRun, ClaimNumbered, IInv, TablesOK
<1>2. CASE NothingStarts /\ UNCHANGED <<pc, dispatch>>
  BY <1>2 DEF NothingStarts, ClaimNumbered, IInv, Prepared, Dispatch
<1>3. CASE pc' # "claimed"
  BY <1>3 DEF ClaimNumbered
<1>4. \/ NothingStarts
      \/ \E j \in Job : ClaimNextRun(j)
      \/ pc' # "claimed"
  BY TablesStep DEF StartJobRun
<1>5. \/ UNCHANGED <<pc, dispatch>>
      \/ pc' # "claimed"
      \/ \E j \in Job : ClaimNextRun(j)
  BY SchedulerAlone
     DEF SchedulerStep, StartScheduler, BeginTick, ReadOrphans,
         RecoverOrphan, RecoveryFails, RecoveryDone, NothingToDispatch,
         StartJobRun, Submit, PreparationFails, SubmissionFails,
         SubmissionAccepted, EndDispatch, AbortScheduler, Stop,
         ResetScheduler, schedulerVars
<1>. QED BY <1>1, <1>2, <1>3, <1>4, <1>5

LEMMA CurrentAttempt ==
    ASSUME IInv, NEW j \in Job, NEW r \in Run, IsCurrentRun(j, r)
    PROVE  AttemptRuns(j, r)
BY DEF IsCurrentRun, IInv, TablesAgree, JobAgrees, RunsAgree

\* A settlement closes the attempt of the current run, and no other.
LEMMA SettleCompletes ==
    ASSUME IInv, NEW r \in Run, NEW outcome \in {"completed", "waiting_approval"},
           SettleResult(r, outcome), NEW j, j = context[r].job
    PROVE  /\ j \in Job /\ IsCurrentRun(j, r)
           /\ jobStatus' = [jobStatus EXCEPT ![j] = outcome]
           /\ jobRun' = jobRun /\ jobAttempts' = jobAttempts
           /\ attempt[r].status = "running" /\ attempt'[r].number = attempt[r].number
           /\ \A i \in Job : CompletedFor(i, r)' <=> i = j
           /\ \A q \in Run : q # r => attempt'[q] = attempt[q]
<1>1. /\ j \in Job /\ IsCurrentRun(j, r)
      /\ jobStatus' = [jobStatus EXCEPT ![j] = outcome]
      /\ UNCHANGED <<jobRun, jobAttempts>>
      /\ FinishAttempt(j, r, "completed")
  BY DEF SettleResult, ResultIsCurrent, IInv, MemoryOK, Active, Context,
     SettleWorkflow, MarkCompleted, MarkWaitingApproval, EndRunWaiting
<1>2. AttemptRuns(j, r)
  BY <1>1, CurrentAttempt
<1>3. attempt[r] \in Attempt /\ attempt[r].workflow = j /\ attempt[r].status = "running"
  BY <1>2 DEF AttemptRuns, IInv, TablesOK, WorkflowTypeOK
<1>4. attempt' = [attempt EXCEPT ![r] = [attempt[r] EXCEPT !.status = "completed"]]
  BY <1>1, <1>2 DEF FinishAttempt
<1>5. [attempt[r] EXCEPT !.status = "completed"] \in Attempt
  BY <1>3 DEF Attempt
<1>6. /\ attempt'[r] # None /\ attempt'[r].workflow = j
      /\ attempt'[r].status = "completed" /\ attempt'[r].number = attempt[r].number
  BY <1>3, <1>4, <1>5, NoneIsNoRow DEF Attempt, IInv, TablesOK, WorkflowTypeOK
<1>7. \A q \in Run : q # r => attempt'[q] = attempt[q]
  BY <1>4 DEF IInv, TablesOK, WorkflowTypeOK
<1>. QED BY <1>1, <1>3, <1>6, <1>7 DEF CompletedFor

LEMMA NumberedStep ==
    ASSUME IInv, Own, ClaimNumbered, Numbered, [Next]_vars
    PROVE  Numbered'
<1>1. CASE UNCHANGED <<jobStatus, jobRun, jobAttempts, attempt>>
  BY <1>1 DEF Numbered, IsCurrentRun, CompletedFor
<1>2. ASSUME NEW j \in Job, NEW t \in Task, InsertJob(j, t) PROVE Numbered'
  BY <1>2 DEF InsertJob, Numbered, IsCurrentRun, CompletedFor, workflowVars,
     IInv, TablesOK, DoneStatus
<1>3. ASSUME NEW j \in Job, ClaimNextRun(j) PROVE Numbered'
  <2>1. jobRun[j] = None /\ jobStatus[j] = "queued"
    BY <1>3 DEF ClaimNextRun, Claimable, IInv, TablesAgree, JobAgrees
  <2>. QED BY <1>3, <2>1
           DEF ClaimNextRun, Numbered, IsCurrentRun, CompletedFor, IInv, TablesOK,
               DoneStatus
<1>4. ASSUME NEW r \in Run, NEW c \in 0..MaxSync, StartJobRun(r, c) PROVE Numbered'
  <2>. DEFINE j == dispatch.job
  <2>1. /\ j \in Job /\ jobStatus[j] = "running" /\ StartRun(j, r, dispatch.number)
        /\ jobRun' = [jobRun EXCEPT ![j] = r]
        /\ UNCHANGED <<jobStatus, jobAttempts>>
        /\ dispatch.number = jobAttempts[j] /\ dispatch.number \in Nat
    BY <1>4, StartedRow DEF StartJobRun, Dispatch, ClaimNumbered
  <2>2. /\ attempt[r] = None
        /\ attempt'[r].number = jobAttempts[j] /\ attempt'[r].status = "running"
        /\ \A q \in Run : q # r => attempt'[q] = attempt[q]
    BY <2>1 DEF StartRun, CanStartRun, FreshAttempt, IInv, TablesOK, WorkflowTypeOK
  <2>3. \A i \in Job : ~IsCurrentRun(i, r)
    BY <2>2 DEF IsCurrentRun, IInv, TablesAgree, JobAgrees, RunsAgree, AttemptRuns
  <2>4. \A i \in Job, q \in Run : CompletedFor(i, q)' <=> CompletedFor(i, q)
    BY <2>2 DEF CompletedFor
  <2>. HIDE DEF j
  <2>5. \A i \in Job, q \in Run : IsCurrentRun(i, q)' =>
           attempt'[q].number = jobAttempts'[i]
    BY <2>1, <2>2, <2>3 DEF Numbered, IsCurrentRun, IInv, TablesOK
  <2>6. \A i \in Job, q \in Run : CompletedFor(i, q)' =>
           jobStatus'[i] \in DoneStatus /\ attempt'[q].number = jobAttempts'[i]
    BY <2>1, <2>2, <2>4 DEF Numbered, CompletedFor
  <2>. QED BY <2>1, <2>4, <2>5, <2>6 DEF Numbered
<1>5. ASSUME NEW r \in Run, NEW outcome \in {"completed", "waiting_approval"},
             SettleResult(r, outcome)
      PROVE  Numbered'
  <2>1. PICK j \in Job :
           /\ IsCurrentRun(j, r)
           /\ jobStatus' = [jobStatus EXCEPT ![j] = outcome]
           /\ jobRun' = jobRun /\ jobAttempts' = jobAttempts
           /\ attempt[r].status = "running" /\ attempt'[r].number = attempt[r].number
           /\ \A i \in Job : CompletedFor(i, r)' <=> i = j
           /\ \A q \in Run : q # r => attempt'[q] = attempt[q]
    BY <1>5, SettleCompletes
  <2>2. /\ jobStatus[j] = "running" /\ jobStatus'[j] \in DoneStatus
        /\ \A i \in Job : i # j => jobStatus'[i] = jobStatus[i]
    BY <2>1 DEF IsCurrentRun, DoneStatus, IInv, TablesOK
  <2>3. \A i \in Job, q \in Run : IsCurrentRun(i, q)' =>
           attempt'[q].number = jobAttempts'[i]
    BY <2>1, <2>2 DEF Numbered, IsCurrentRun, DoneStatus
  <2>4. \A i \in Job, q \in Run : q # r => (CompletedFor(i, q)' <=> CompletedFor(i, q))
    BY <2>1 DEF CompletedFor
  <2>5. \A i \in Job, q \in Run : CompletedFor(i, q)' =>
           jobStatus'[i] \in DoneStatus /\ attempt'[q].number = jobAttempts'[i]
    BY <2>1, <2>2, <2>4 DEF Numbered, DoneStatus
  <2>6. \A i \in Job : jobStatus'[i] \in DoneStatus => \E q \in Run : CompletedFor(i, q)'
    BY <2>1, <2>2, <2>4 DEF Numbered, CompletedFor
  <2>. QED BY <2>3, <2>5, <2>6 DEF Numbered
<1>6. ASSUME NEW j \in Job, Released(j), jobStatus[j] \in {"running", "failed"}
      PROVE  Numbered'
  <2>1. /\ jobAttempts' = jobAttempts
        /\ jobStatus'[j] \in {"failed", "queued"}
        /\ \A i \in Job : i # j => jobStatus'[i] = jobStatus[i] /\ jobRun'[i] = jobRun[i]
        /\ \A i \in Job, r \in Run : CompletedFor(i, r)' <=> CompletedFor(i, r)
        /\ \A r \in Run : attempt[r] # None => attempt'[r].number = attempt[r].number
    BY <1>6, ReleaseWrites DEF IInv, TablesOK
  <2>2. \A i \in Job, q \in Run : IsCurrentRun(i, q)' =>
           IsCurrentRun(i, q) /\ attempt[q] # None
    BY <2>1, CurrentAttempt DEF IsCurrentRun, AttemptRuns
  <2>3. \A i \in Job, q \in Run : IsCurrentRun(i, q)' =>
           attempt'[q].number = jobAttempts'[i]
    BY <2>1, <2>2 DEF Numbered
  <2>4. \A i \in Job, q \in Run : CompletedFor(i, q)' =>
           jobStatus'[i] \in DoneStatus /\ attempt'[q].number = jobAttempts'[i]
    BY <1>6, <2>1 DEF Numbered, CompletedFor, DoneStatus
  <2>5. \A i \in Job : jobStatus'[i] \in DoneStatus => \E q \in Run : CompletedFor(i, q)'
    BY <2>1 DEF Numbered, DoneStatus
  <2>. QED BY <2>3, <2>4, <2>5 DEF Numbered
<1>. QED BY <1>1, <1>2, <1>3, <1>4, <1>5, <1>6, StepKinds

-----------------------------------------------------------------------------
(* The abstract queue *)

QueueInv == IInv /\ Own /\ ClaimNumbered /\ Numbered

LEMMA QueueInit == Init => QueueInv
<1>. SUFFICES ASSUME Init PROVE QueueInv
  OBVIOUS
<1>1. IInv
  BY InitInv
<1>2. Own /\ ClaimNumbered
  BY DEF Init, SchedulerOff, SupervisorIdle, Own, ChannelIsOwn, DispatchIsOwn,
     Handed, ErrorIsCurrent, OrphansAreOwn, ClaimNumbered
<1>3. Numbered
  BY DEF Init, WorkflowInit, Numbered, IsCurrentRun, CompletedFor, DoneStatus
<1>. QED BY <1>1, <1>2, <1>3 DEF QueueInv

LEMMA QueueStep == MaxAborts = 0 /\ QueueInv /\ [Next]_vars => QueueInv'
BY InvStep, ErrorStep, ChannelStep, DispatchStep, OrphansStep, ClaimNumberStep,
   NumberedStep DEF QueueInv, Own

phaseBar == [j \in Job |-> DispatchPhase[jobStatus[j]]]

doneBar ==
    [j \in Job |->
        {attempt[r].number : r \in {q \in Run :
            attempt[q] # None /\ attempt[q].workflow = j
                /\ attempt[q].status = "completed"}}]

LEMMA PhaseOf ==
    /\ DispatchPhase["absent"] = "pending"
    /\ DispatchPhase["queued"] = "offered"
    /\ DispatchPhase["running"] = "held"
    /\ DispatchPhase["waiting_approval"] = "done"
    /\ DispatchPhase["completed"] = "done"
    /\ DispatchPhase["failed"] = "dropped"
BY DEF DispatchPhase

\* The accepted tokens are a function of the status and the attempt count.
AcceptedIsLast ==
    doneBar = [j \in Job |-> IF jobStatus[j] \in DoneStatus THEN {jobAttempts[j]} ELSE {}]

LEMMA AcceptedAttempts == Numbered => AcceptedIsLast
<1>. SUFFICES ASSUME Numbered, NEW j \in Job
              PROVE  {attempt[r].number : r \in {q \in Run : CompletedFor(j, q)}}
                        = IF jobStatus[j] \in DoneStatus THEN {jobAttempts[j]} ELSE {}
  BY DEF AcceptedIsLast, doneBar, CompletedFor
<1>1. \A r \in Run : CompletedFor(j, r) =>
         jobStatus[j] \in DoneStatus /\ attempt[r].number = jobAttempts[j]
  BY DEF Numbered
<1>2. jobStatus[j] \in DoneStatus => \E r \in Run : CompletedFor(j, r)
  BY DEF Numbered
<1>. QED BY <1>1, <1>2

LEMMA QueueInitMaps == Init => AsQueue!DispatchInit
BY PhaseOf DEF Init, WorkflowInit, AsQueue!DispatchInit

\* Every step maps to a step of the queue or to a stutter.
LEMMA QueueStepMaps ==
    ASSUME QueueInv, AcceptedIsLast, AcceptedIsLast', [Next]_vars
    PROVE  [AsQueue!DispatchNext]_(AsQueue!dispatchVars)
<1>. USE DEF QueueInv
<1>1. ASSUME NEW j \in Job, NEW s \in JobStatus,
             jobStatus' = [jobStatus EXCEPT ![j] = s]
      PROVE  phaseBar' = [phaseBar EXCEPT ![j] = DispatchPhase[s]]
  BY <1>1 DEF IInv, TablesOK, phaseBar
<1>2. ASSUME NEW j \in Job, NEW s \in JobStatus,
             jobStatus' = [jobStatus EXCEPT ![j] = s], jobAttempts' = jobAttempts,
             jobStatus[j] \notin DoneStatus
      PROVE  doneBar' = IF s \in DoneStatus
                        THEN [doneBar EXCEPT ![j] = {jobAttempts[j]}] ELSE doneBar
  BY <1>2 DEF IInv, TablesOK, AcceptedIsLast
<1>3. \A j \in Job : phaseBar[j] = DispatchPhase[jobStatus[j]]
  BY DEF phaseBar
<1>4. CASE jobStatus' = jobStatus /\ jobAttempts' = jobAttempts
  <2>1. phaseBar' = phaseBar /\ doneBar' = doneBar
    BY <1>4 DEF phaseBar, AcceptedIsLast
  <2>. QED BY <1>4, <2>1 DEF AsQueue!dispatchVars, phaseBar, doneBar
<1>5. ASSUME NEW j \in Job, NEW t \in Task, InsertJob(j, t)
      PROVE  AsQueue!Offer(j)
  <2>1. /\ jobStatus[j] = "absent" /\ jobStatus' = [jobStatus EXCEPT ![j] = "queued"]
        /\ jobAttempts' = jobAttempts
    BY <1>5 DEF InsertJob
  <2>. QED BY <1>1, <1>2, <1>3, <2>1, PhaseOf
           DEF AsQueue!Offer, AsQueue!Move, phaseBar, doneBar, DoneStatus, JobStatus
<1>6. ASSUME NEW j \in Job, ClaimNextRun(j)
      PROVE  AsQueue!HandOut(j)
  <2>1. /\ jobStatus[j] = "queued" /\ jobStatus' = [jobStatus EXCEPT ![j] = "running"]
        /\ jobAttempts' = [jobAttempts EXCEPT ![j] = jobAttempts[j] + 1]
    BY <1>6 DEF ClaimNextRun, Claimable
  <2>2. doneBar' = doneBar
    BY <2>1 DEF AcceptedIsLast, DoneStatus, IInv, TablesOK
  <2>3. phaseBar' = [phaseBar EXCEPT ![j] = "held"] /\ phaseBar[j] = "offered"
    BY <1>1, <1>3, <2>1, PhaseOf DEF JobStatus
  <2>. QED BY <2>1, <2>2, <2>3 DEF AsQueue!HandOut, AsQueue!Move, phaseBar, doneBar
<1>7. ASSUME NEW r \in Run, NEW outcome \in {"completed", "waiting_approval"},
             SettleResult(r, outcome)
      PROVE  \E j \in Job : AsQueue!Complete(j)
  <2>1. PICK j \in Job :
           /\ jobStatus[j] = "running"
           /\ jobStatus' = [jobStatus EXCEPT ![j] = outcome]
           /\ jobAttempts' = jobAttempts
    BY <1>7, SettleCompletes DEF IsCurrentRun
  <2>2. doneBar' = [doneBar EXCEPT ![j] = {jobAttempts[j]}]
    BY <1>2, <2>1 DEF DoneStatus, JobStatus
  <2>3. phaseBar' = [phaseBar EXCEPT ![j] = "done"] /\ phaseBar[j] = "held"
    BY <1>1, <1>3, <2>1, PhaseOf DEF JobStatus
  <2>. QED BY <2>1, <2>2, <2>3 DEF AsQueue!Complete, AsQueue!Move, phaseBar, doneBar
<1>8. ASSUME NEW j \in Job, Released(j), jobStatus[j] \in {"running", "failed"}
      PROVE  \/ AsQueue!TakeBack(j) \/ AsQueue!GiveUp(j)
             \/ jobStatus' = jobStatus /\ jobAttempts' = jobAttempts
  <2>1. /\ jobAttempts' = jobAttempts
        /\ \/ jobStatus' = [jobStatus EXCEPT ![j] = "failed"]
           \/ /\ jobStatus[j] = "running"
              /\ jobStatus' = [jobStatus EXCEPT ![j] = "queued"]
    BY <1>8, ReleaseWrites
  <2>2. doneBar' = doneBar
    BY <1>2, <1>8, <2>1 DEF DoneStatus, JobStatus
  <2>3. CASE jobStatus[j] = "running" /\ jobStatus' = [jobStatus EXCEPT ![j] = "failed"]
    <3>1. phaseBar' = [phaseBar EXCEPT ![j] = "dropped"] /\ phaseBar[j] = "held"
      BY <1>1, <1>3, <2>3, PhaseOf DEF JobStatus
    <3>. QED BY <2>1, <2>2, <3>1 DEF AsQueue!GiveUp, AsQueue!Move, phaseBar, doneBar
  <2>4. CASE jobStatus[j] = "running" /\ jobStatus' = [jobStatus EXCEPT ![j] = "queued"]
    <3>1. phaseBar' = [phaseBar EXCEPT ![j] = "offered"] /\ phaseBar[j] = "held"
      BY <1>1, <1>3, <2>4, PhaseOf DEF JobStatus
    <3>. QED BY <2>1, <2>2, <3>1 DEF AsQueue!TakeBack, AsQueue!Move, phaseBar, doneBar
  <2>5. CASE jobStatus[j] = "failed" /\ jobStatus' = [jobStatus EXCEPT ![j] = "failed"]
    BY <2>1, <2>5 DEF IInv, TablesOK
  <2>. QED BY <1>8, <2>1, <2>3, <2>4, <2>5
<1>9. ASSUME NEW r \in Run, NEW c \in 0..MaxSync, StartJobRun(r, c)
      PROVE  jobStatus' = jobStatus /\ jobAttempts' = jobAttempts
  BY <1>9 DEF StartJobRun
<1>. QED BY <1>4, <1>5, <1>6, <1>7, <1>8, <1>9, StepKinds DEF AsQueue!DispatchNext

\* As long as the scheduler is not replaced while its supervisor lives on, the
\* automation tables hand every run out at most once at a time, under a new
\* number, and keep one result, that of the last attempt.
THEOREM Refinement == ASSUME MaxAborts = 0 PROVE Spec => ImplementsDispatch
<1>1. QueueInv /\ [Next]_vars => QueueInv'
  BY QueueStep
<1>2. QueueInv => AcceptedIsLast
  BY AcceptedAttempts DEF QueueInv
<1>3. QueueInv /\ AcceptedIsLast /\ AcceptedIsLast' /\ [Next]_vars
         => [AsQueue!DispatchNext]_(AsQueue!dispatchVars)
  BY QueueStepMaps
<1>. QED BY <1>1, <1>2, <1>3, QueueInit, QueueInitMaps, PTL
         DEF Spec, ImplementsDispatch, AsQueue!DispatchSpec

\* The error of an earlier run changes a row only after such a replacement: the
\* check of is_current_run, made outside the transaction that follows it, is
\* otherwise still true.
THEOREM LateErrorsAreHarmless == ASSUME MaxAborts = 0 PROVE Spec => LateErrorIsIgnored
<1>1. QueueInv /\ [Next]_vars => QueueInv'
  BY QueueStep
<1>2. QueueInv => ErrorIsCurrent
  BY DEF QueueInv, Own
<1>3. ErrorIsCurrent =>
         [\A j \in Job :
             /\ failing # None /\ failing' = None
             /\ context[failing.run].job = j
             /\ ~IsCurrentRun(j, failing.run)
             => jobStatus'[j] = jobStatus[j] /\ jobRun'[j] = jobRun[j]]_vars
  BY DEF ErrorIsCurrent
<1>. QED BY <1>1, <1>2, <1>3, QueueInit, PTL DEF Spec, LateErrorIsIgnored
=============================================================================
