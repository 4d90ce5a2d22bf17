------------------------- MODULE AutomationRuntime -------------------------
(***************************************************************************)
(* automation_runtime.rs with the two tasks of the Headless Core that drive *)
(* it: the background scheduler, which recovers, claims and submits runs,   *)
(* and the worker supervisor, which settles them when the agent worker      *)
(* reports or dies.  The two share nothing but the database, one command    *)
(* channel and the supervisor's snapshot of active runs, and interleave at  *)
(* every await; the Core may stop, and its scheduler be replaced while the  *)
(* supervisor goes on, between any two transactions.                        *)
(*                                                                          *)
(* Abstractions.  One action per transaction, or per read outside one.  The *)
(* workflow of a run has an id derived from the run's, so Job \subseteq     *)
(* Workflow, and so has the wait of a mutation approval: Run \subseteq Wait. *)
(* Leases are left out: nothing in the Core reads lease_expires_at of an    *)
(* automation run.  A feed is the number of its synced batches.             *)
(***************************************************************************)
EXTENDS WorkflowRuntime, FiniteSets

CONSTANTS
    Job,          \* automation_runs, by id
    Task,         \* automation_tasks, by id
    MaxAttempts,  \* AUTOMATION_RETRY_POLICY.max_attempts (3)
    MaxSync,      \* bound: batches a feed delivers
    MaxStops,     \* bound: stops of the Core
    MaxAborts     \* bound: replacements of its scheduler alone

ASSUME JobsHaveWorkflows == Job \subseteq Workflow
ASSUME RunsHaveWaits == Run \subseteq Wait
ASSUME BoundsAreNatural ==
    /\ MaxAttempts \in Nat \ {0}
    /\ MaxSync \in Nat /\ MaxStops \in Nat /\ MaxAborts \in Nat
ASSUME NoneIsNoTask == None \notin Task
ASSUME TablesAreFinite == IsFiniteSet(Job)

VARIABLES
    jobStatus,    \* automation_runs.status, "absent" before the INSERT
    jobTask,      \* automation_id, NULL once the task is deleted
    jobRun,       \* run_id
    jobAttempts,  \* attempt_count
    jobBackoff,   \* next_attempt_at > now
    jobOrder,     \* queued_at: position in the queue
    live,         \* tasks that exist
    cursor,       \* automation_tasks.source_cursor_at
    jobCursor,    \* automation_runs.source_cursor_at
    synced,       \* newest batch of rss_entries
    pc,           \* where the scheduler task is in its tick
    recovered,    \* its startup_recovered
    seen,         \* its snapshot of the active runs
    rows,         \* the running rows recovery has still to treat
    dispatch,     \* the claimed run it is submitting, or None
    commands,     \* the StartOrchestrations in the supervisor's channel
    reply,        \* what came back for it
    context,      \* the supervisor's recovery contexts, by active run
    failing,      \* the error settlement past its is_current_run check
    exiting,      \* the worker is dead and its runs are being settled
    exitRuns,     \* those of them still to settle
    stops,        \* counts Stop
    aborts        \* counts AbortScheduler

jobVars == <<jobStatus, jobTask, jobRun, jobAttempts, jobBackoff, jobOrder>>
feedVars == <<live, cursor, jobCursor, synced>>
schedulerVars == <<pc, recovered, seen, rows, dispatch>>
channelVars == <<commands, reply>>
supervisorVars == <<context, failing, exiting, exitRuns>>
stopVars == <<stops, aborts>>
vars == <<workflowVars, jobVars, feedVars, schedulerVars, channelVars,
          supervisorVars, stopVars>>

JobStatus ==
    {"absent", "queued", "running", "waiting_approval", "completed", "failed"}

Active == {r \in Run : context[r] # None}

Context == [job : Job, run : Run, cursor : 0..MaxSync]

\* A run without a context has none that a command could bring.
ASSUME NoneIsNoContext == None \notin Context

Row == [job : Job, run : Run \cup {None}, attempts : 0..MaxAttempts]

Dispatch == [job : Job, run : Run \cup {None}, number : 1..MaxAttempts]

TypeOK ==
    /\ WorkflowTypeOK
    /\ jobStatus \in [Job -> JobStatus]
    /\ jobTask \in [Job -> Task \cup {None}]
    /\ jobRun \in [Job -> Run \cup {None}]
    /\ jobAttempts \in [Job -> 0..MaxAttempts]
    /\ jobBackoff \in [Job -> BOOLEAN]
    /\ jobOrder \in [Job -> Nat]
    /\ live \in SUBSET Task
    /\ cursor \in [Task -> 0..MaxSync]
    /\ jobCursor \in [Job -> 0..MaxSync]
    /\ synced \in 0..MaxSync
    /\ pc \in {"off", "tick", "orphans", "rows", "dispatch", "claimed",
               "started", "submitted"}
    /\ recovered \in BOOLEAN
    /\ seen \in SUBSET Run
    /\ rows \in SUBSET Row
    /\ dispatch \in Dispatch \cup {None}
    /\ commands \in SUBSET Context
    /\ reply \in {"none", "ok", "err"}
    /\ context \in [Run -> Context \cup {None}]
    /\ failing \in [run : Run, retryable : BOOLEAN] \cup {None}
    /\ exiting \in BOOLEAN
    /\ exitRuns \in SUBSET Run
    /\ stops \in 0..MaxStops /\ aborts \in 0..MaxAborts

SchedulerOff ==
    /\ pc = "off" /\ recovered = FALSE /\ seen = {} /\ rows = {}
    /\ dispatch = None

SupervisorIdle ==
    /\ context = [r \in Run |-> None]
    /\ failing = None /\ exiting = FALSE /\ exitRuns = {}

Init ==
    /\ WorkflowInit
    /\ jobStatus = [j \in Job |-> "absent"]
    /\ jobTask = [j \in Job |-> None]
    /\ jobRun = [j \in Job |-> None]
    /\ jobAttempts = [j \in Job |-> 0]
    /\ jobBackoff = [j \in Job |-> FALSE]
    /\ jobOrder = [j \in Job |-> 0]
    /\ live = Task
    /\ cursor = [t \in Task |-> 0]
    /\ jobCursor = [j \in Job |-> 0]
    /\ synced = 0
    /\ SchedulerOff
    /\ commands = {} /\ reply = "none"
    /\ SupervisorIdle
    /\ stops = 0 /\ aborts = 0

Exhausted(n) == n >= MaxAttempts

-----------------------------------------------------------------------------
(* Tasks, queue and feed *)

Stored == {j \in Job : jobStatus[j] # "absent"}

JobsOf(t, statuses) == {j \in Job : jobTask[j] = t /\ jobStatus[j] \in statuses}

\* idx_automation_runs_active
SlotFree(t) == JobsOf(t, {"queued", "running"}) = {}

InsertJob(j, t) ==
    /\ jobStatus[j] = "absent" /\ t \in live /\ SlotFree(t)
    /\ jobStatus' = [jobStatus EXCEPT ![j] = "queued"]
    /\ jobTask' = [jobTask EXCEPT ![j] = t]
    /\ jobOrder' = [jobOrder EXCEPT ![j] = Cardinality(Stored) + 1]
    /\ UNCHANGED <<workflowVars, jobRun, jobAttempts, jobBackoff, feedVars,
                   schedulerVars, channelVars, supervisorVars, stopVars>>

EnqueueManual(j, t) == InsertJob(j, t)

EnqueueDue(j, t) == InsertJob(j, t) /\ JobsOf(t, {"waiting_approval"}) = {}

\* ON DELETE SET NULL
DeleteTask(t) ==
    /\ t \in live
    /\ live' = live \ {t}
    /\ jobTask' = [j \in Job |-> IF jobTask[j] = t THEN None ELSE jobTask[j]]
    /\ UNCHANGED <<workflowVars, jobStatus, jobRun, jobAttempts, jobBackoff,
                   jobOrder, cursor, jobCursor, synced, schedulerVars,
                   channelVars, supervisorVars, stopVars>>

FeedSync ==
    /\ synced < MaxSync
    /\ synced' = synced + 1
    /\ UNCHANGED <<workflowVars, jobVars, live, cursor, jobCursor,
                   schedulerVars, channelVars, supervisorVars, stopVars>>

BackoffElapses(j) ==
    /\ jobBackoff[j]
    /\ jobBackoff' = [jobBackoff EXCEPT ![j] = FALSE]
    /\ UNCHANGED <<workflowVars, jobStatus, jobTask, jobRun, jobAttempts,
                   jobOrder, feedVars, schedulerVars, channelVars,
                   supervisorVars, stopVars>>

-----------------------------------------------------------------------------
(* Transactions on one run *)

\* Faulty variant: the workflow is not told that its run is over.
RequeueJobOnly(j, r) == UNCHANGED <<workflowVars>>

\* The workflow's half of a requeue; Err when the workflow is not RUNNING.
RequeueWorkflow(j, r) == MarkRetryScheduled(j, r) /\ UNCHANGED wait

\* UPDATE ... SET status = 'queued', run_id = NULL, ...
Requeue(j, r, delayed) ==
    /\ jobStatus' = [jobStatus EXCEPT ![j] = "queued"]
    /\ jobRun' = [jobRun EXCEPT ![j] = None]
    /\ jobBackoff' = [jobBackoff EXCEPT ![j] = delayed]
    /\ RequeueWorkflow(j, r)
    /\ UNCHANGED <<jobTask, jobAttempts, jobOrder>>

DeadLetter(j, r) ==
    /\ jobStatus' = [jobStatus EXCEPT ![j] = "failed"]
    /\ jobBackoff' = [jobBackoff EXCEPT ![j] = FALSE]
    /\ MarkFailed(j, r)
    /\ UNCHANGED <<wait, jobTask, jobRun, jobAttempts, jobOrder>>

\* schedule_failure: WHERE id = ?, whatever run or status the row has by now.
ScheduleFailure(j, retryable) ==
    IF ~retryable \/ Exhausted(jobAttempts[j])
    THEN DeadLetter(j, jobRun[j])
    ELSE Requeue(j, jobRun[j], TRUE)

\* Otherwise schedule_failure returns Err and its transaction rolls back.
CanScheduleFailure(j, retryable) ==
    IF ~retryable \/ Exhausted(jobAttempts[j])
    THEN wfState[j] \notin {"ABSENT", "COMPLETED", "CANCELLED"}
    ELSE wfState[j] = "RUNNING"

TryScheduleFailure(j, retryable) ==
    \/ ScheduleFailure(j, retryable)
    \/ /\ ~CanScheduleFailure(j, retryable)
       /\ UNCHANGED <<workflowVars, jobVars>>

\* is_current_run, and the row condition of the other fenced statements.
IsCurrentRun(j, r) == jobStatus[j] = "running" /\ jobRun[j] = r

-----------------------------------------------------------------------------
(* The background scheduler *)

StartScheduler ==
    /\ pc = "off"
    /\ pc' = "tick"
    /\ UNCHANGED <<workflowVars, jobVars, feedVars, recovered, seen, rows,
                   dispatch, channelVars, supervisorVars, stopVars>>

\* A tick begins with recovery until one recovery has gone through.
BeginTick ==
    /\ pc = "tick"
    /\ IF recovered
       THEN pc' = "dispatch" /\ UNCHANGED seen
       ELSE pc' = "orphans" /\ seen' = Active
    /\ UNCHANGED <<workflowVars, jobVars, feedVars, recovered, rows, dispatch,
                   channelVars, supervisorVars, stopVars>>

Orphaned(j) == jobStatus[j] = "running" /\ jobRun[j] \notin seen

ReadOrphans ==
    /\ pc = "orphans"
    /\ rows' = {[job |-> j, run |-> jobRun[j], attempts |-> jobAttempts[j]] :
                   j \in {i \in Job : Orphaned(i)}}
    /\ pc' = "rows"
    /\ UNCHANGED <<workflowVars, jobVars, feedVars, recovered, seen, dispatch,
                   channelVars, supervisorVars, stopVars>>

\* One row of recover_orphaned_runs that is dead-lettered or requeued, or was
\* settled since it was read.
RecoverOrphan(row) ==
    /\ pc = "rows" /\ row \in rows
    /\ \/ /\ Exhausted(row.attempts)
          /\ DeadLetter(row.job, jobRun[row.job])
       \/ /\ ~Exhausted(row.attempts)
          /\ IF jobStatus[row.job] = "running"
             THEN Requeue(row.job, row.run, FALSE)
             ELSE UNCHANGED <<workflowVars, jobVars>>
    /\ rows' = rows \ {row}
    /\ UNCHANGED <<feedVars, pc, recovered, seen, dispatch, channelVars,
                   supervisorVars, stopVars>>

\* The Err of the workflow's transition rolls the row back and leaves
\* recover_orphaned_runs; the next tick starts recovery again.
RecoveryFails(row) ==
    /\ pc = "rows" /\ row \in rows
    /\ IF Exhausted(row.attempts)
       THEN wfState[row.job] \in {"ABSENT", "COMPLETED", "CANCELLED"}
       ELSE jobStatus[row.job] = "running" /\ wfState[row.job] # "RUNNING"
    /\ rows' = {}
    /\ pc' = "dispatch"
    /\ UNCHANGED <<workflowVars, jobVars, feedVars, recovered, seen, dispatch,
                   channelVars, supervisorVars, stopVars>>

RecoveryDone ==
    /\ pc = "rows" /\ rows = {}
    /\ pc' = "dispatch" /\ recovered' = TRUE /\ seen' = {}
    /\ UNCHANGED <<workflowVars, jobVars, feedVars, rows, dispatch,
                   channelVars, supervisorVars, stopVars>>

\* Faulty variant: a new run is dispatched beside one that is running.
DispatchAnyway == TRUE

NothingRuns == \A j \in Job : jobStatus[j] # "running"

\* Faulty variant: only a first attempt is taken from the queue.
ClaimableOnce == {j \in Job : jobStatus[j] = "queued" /\ jobAttempts[j] = 0
                              /\ jobTask[j] # None}

\* The INNER JOIN with automation_tasks leaves out runs of deleted tasks.
Claimable == {j \in Job : jobStatus[j] = "queued" /\ ~jobBackoff[j]
                          /\ jobTask[j] # None}

\* claim_next_run, with the count of running rows read just before it: no
\* other task of the Core makes a run running.
ClaimNextRun(j) ==
    /\ pc = "dispatch"
    /\ NothingRuns
    /\ j \in Claimable /\ \A i \in Claimable : jobOrder[j] <= jobOrder[i]
    /\ jobStatus' = [jobStatus EXCEPT ![j] = "running"]
    /\ jobAttempts' = [jobAttempts EXCEPT ![j] = @ + 1]
    /\ CreateWorkflow(j)
    /\ dispatch' = [job |-> j, run |-> None, number |-> jobAttempts[j] + 1]
    /\ pc' = "claimed"
    /\ UNCHANGED <<attempt, wait, jobTask, jobRun, jobBackoff, jobOrder,
                   feedVars, recovered, seen, rows, channelVars,
                   supervisorVars, stopVars>>

NothingToDispatch ==
    /\ pc = "dispatch"
    /\ NothingRuns => Claimable = {}
    /\ pc' = "tick"
    /\ UNCHANGED <<workflowVars, jobVars, feedVars, recovered, seen, rows,
                   dispatch, channelVars, supervisorVars, stopVars>>

\* The transaction at the end of build_submission; c is the newest batch among
\* the entries it selected, 0 if there were none.
StartJobRun(r, c) ==
    /\ pc = "claimed"
    /\ c \in 0..synced
    /\ LET j == dispatch.job IN
       /\ StartRun(j, r, dispatch.number)
       /\ IF jobStatus[j] = "running"
          THEN /\ jobRun' = [jobRun EXCEPT ![j] = r]
               /\ jobCursor' = [jobCursor EXCEPT ![j] = c]
          ELSE UNCHANGED <<jobRun, jobCursor>>
    /\ dispatch' = [dispatch EXCEPT !.run = r]
    /\ pc' = "started"
    /\ UNCHANGED <<wait, jobStatus, jobTask, jobAttempts, jobBackoff, jobOrder,
                   live, cursor, synced, recovered, seen, rows, channelVars,
                   supervisorVars, stopVars>>

\* That of a scheduler that was replaced may still be in the channel.
Submit ==
    /\ pc = "started"
    /\ commands' = commands \cup
          {[job |-> dispatch.job, run |-> dispatch.run,
            cursor |-> jobCursor[dispatch.job]]}
    /\ pc' = "submitted"
    /\ UNCHANGED <<workflowVars, jobVars, feedVars, recovered, seen, rows,
                   dispatch, reply, supervisorVars, stopVars>>

EndDispatch ==
    /\ pc' = "tick" /\ dispatch' = None /\ reply' = "none"
    /\ UNCHANGED <<feedVars, recovered, seen, rows, commands, supervisorVars,
                   stopVars>>

\* build_submission returns Err: no document, no valid profile, or a run that
\* cannot start.  schedule_failure's own Err ends the tick.
PreparationFails ==
    /\ pc = "claimed"
    /\ TryScheduleFailure(dispatch.job, FALSE)
    /\ EndDispatch

\* start_background_orchestration returns Err before or after the command.
SubmissionFails ==
    /\ \/ pc = "started"
       \/ pc = "submitted" /\ reply = "err"
    /\ TryScheduleFailure(dispatch.job, TRUE)
    /\ EndDispatch

SubmissionAccepted ==
    /\ pc = "submitted" /\ reply = "ok"
    /\ EndDispatch
    /\ UNCHANGED <<workflowVars, jobVars>>

-----------------------------------------------------------------------------
(* The worker supervisor *)

Serving == ~exiting /\ failing = None

\* The reply is lost when the scheduler that waited for it was replaced.
Answer(r, answer) ==
    reply' = IF pc = "submitted" /\ dispatch.run = r THEN answer ELSE reply

AcceptCommand(c) ==
    /\ Serving /\ c \in commands
    /\ \/ context' = [context EXCEPT ![c.run] = c] /\ Answer(c.run, "ok")
       \/ UNCHANGED context /\ Answer(c.run, "err")
    /\ commands' = commands \ {c}
    /\ UNCHANGED <<workflowVars, jobVars, feedVars, schedulerVars, failing,
                   exiting, exitRuns, stopVars>>

\* Faulty variant: the worker is replaced and nobody settles its runs.
LoseSilently ==
    /\ exiting' = TRUE /\ exitRuns' = {} /\ failing' = None
    /\ UNCHANGED <<workflowVars, jobVars, feedVars, schedulerVars, channelVars,
                   context, stopVars>>

\* The worker process is gone, or is killed because a line of it was refused.
LoseWorker ==
    /\ exiting' = TRUE /\ exitRuns' = Active /\ failing' = None
    /\ UNCHANGED <<workflowVars, jobVars, feedVars, schedulerVars, channelVars,
                   context, stopVars>>

WorkerDies == Serving /\ Active # {} /\ LoseWorker

\* bind_agent_task refuses a run that is no longer the current one.
RefuseBinding(r) ==
    /\ Serving /\ r \in Active
    /\ ~IsCurrentRun(context[r].job, r)
    /\ LoseWorker

Forget(r) == context' = [context EXCEPT ![r] = None]

\* The fence of the success path of settle_run, inside its transaction.
ResultIsCurrent(j, r) == IsCurrentRun(j, r)

\* Faulty variant: the cursor follows a run that still waits for approval.
CursorAlwaysMoves(r, outcome) == TRUE

CursorMoves(r, outcome) == outcome = "completed"

SettleWorkflow(j, r, outcome) ==
    IF outcome = "completed"
    THEN MarkCompleted(j, r) /\ UNCHANGED wait
    ELSE MarkWaitingApproval(j, r, r)

\* The Err of mark_completed or mark_waiting_approval is unreachable here: a
\* current run's workflow is RUNNING (JobAgreesWithWorkflow).
SettleResult(r, outcome) ==
    /\ Serving /\ r \in Active
    /\ LET j == context[r].job
           t == jobTask[j] IN
       /\ ResultIsCurrent(j, r)
       /\ SettleWorkflow(j, r, outcome)
       /\ jobStatus' = [jobStatus EXCEPT ![j] = outcome]
       /\ cursor' = IF CursorMoves(r, outcome) /\ t # None
                       /\ cursor[t] < context[r].cursor
                    THEN [cursor EXCEPT ![t] = context[r].cursor]
                    ELSE cursor
    /\ Forget(r)
    /\ UNCHANGED <<jobTask, jobRun, jobAttempts, jobBackoff, jobOrder, live,
                   jobCursor, synced, schedulerVars, channelVars, failing,
                   exiting, exitRuns, stopVars>>

DropStaleTerminal(r) ==
    /\ Serving /\ r \in Active
    /\ ~IsCurrentRun(context[r].job, r)
    /\ Forget(r)
    /\ UNCHANGED <<workflowVars, jobVars, feedVars, schedulerVars, channelVars,
                   failing, exiting, exitRuns, stopVars>>

\* The error path reads is_current_run outside the transaction that follows.
CheckError(r, retryable) ==
    /\ failing = None
    /\ IF exiting THEN r \in exitRuns /\ retryable ELSE r \in Active
    /\ IsCurrentRun(context[r].job, r)
    /\ failing' = [run |-> r, retryable |-> retryable]
    /\ UNCHANGED <<workflowVars, jobVars, feedVars, schedulerVars, channelVars,
                   context, exiting, exitRuns, stopVars>>

SettleError ==
    /\ failing # None
    /\ ScheduleFailure(context[failing.run].job, failing.retryable)
    /\ failing' = None
    /\ IF exiting
       THEN exitRuns' = exitRuns \ {failing.run} /\ UNCHANGED context
       ELSE Forget(failing.run) /\ UNCHANGED exitRuns
    /\ UNCHANGED <<feedVars, schedulerVars, channelVars, exiting, stopVars>>

\* schedule_failure returns Err: reported while serving, ignored on exit.
SettleErrorFails ==
    /\ failing # None
    /\ ~CanScheduleFailure(context[failing.run].job, failing.retryable)
    /\ IF exiting
       THEN /\ exitRuns' = exitRuns \ {failing.run} /\ failing' = None
            /\ UNCHANGED <<workflowVars, jobVars, feedVars, schedulerVars,
                           channelVars, context, exiting, stopVars>>
       ELSE LoseWorker

SkipExitedRun(r) ==
    /\ exiting /\ failing = None /\ r \in exitRuns
    /\ ~IsCurrentRun(context[r].job, r)
    /\ exitRuns' = exitRuns \ {r}
    /\ UNCHANGED <<workflowVars, jobVars, feedVars, schedulerVars, channelVars,
                   context, failing, exiting, stopVars>>

RestartWorker ==
    /\ exiting /\ failing = None /\ exitRuns = {}
    /\ exiting' = FALSE
    /\ context' = [r \in Run |-> None]
    /\ UNCHANGED <<workflowVars, jobVars, feedVars, schedulerVars, channelVars,
                   failing, exitRuns, stopVars>>

-----------------------------------------------------------------------------
(* Stops *)

ResetScheduler ==
    /\ pc' = "off" /\ recovered' = FALSE /\ seen' = {} /\ rows' = {}
    /\ dispatch' = None /\ reply' = "none"

\* quiesce or ensure_for_directory: the scheduler task is aborted wherever it
\* awaits; the command it sent stays in the channel.
AbortScheduler ==
    /\ pc # "off" /\ aborts < MaxAborts
    /\ aborts' = aborts + 1
    /\ ResetScheduler
    /\ UNCHANGED <<workflowVars, jobVars, feedVars, commands, supervisorVars,
                   stops>>

\* The Core process dies or exits: its memory is gone, the database stays.
Stop ==
    /\ pc # "off" /\ stops < MaxStops
    /\ stops' = stops + 1
    /\ ResetScheduler
    /\ commands' = {}
    /\ context' = [r \in Run |-> None]
    /\ failing' = None /\ exiting' = FALSE /\ exitRuns' = {}
    /\ UNCHANGED <<workflowVars, jobVars, feedVars, aborts>>

-----------------------------------------------------------------------------
SchedulerStep ==
    \/ StartScheduler \/ BeginTick \/ ReadOrphans
    \/ \E row \in rows : RecoverOrphan(row) \/ RecoveryFails(row)
    \/ RecoveryDone
    \/ \E j \in Job : ClaimNextRun(j)
    \/ NothingToDispatch
    \/ \E r \in Run, c \in 0..MaxSync : StartJobRun(r, c)
    \/ Submit \/ PreparationFails \/ SubmissionFails \/ SubmissionAccepted

\* What ends the run r in the supervisor.
RunEnds(r) ==
    \/ RefuseBinding(r) \/ DropStaleTerminal(r)
    \/ \E outcome \in {"completed", "waiting_approval"} :
          SettleResult(r, outcome)
    \/ \E retryable \in BOOLEAN : CheckError(r, retryable)
    \/ SkipExitedRun(r)

SupervisorStep ==
    \/ \E c \in commands : AcceptCommand(c)
    \/ SettleError \/ SettleErrorFails \/ RestartWorker

Next ==
    \/ \E j \in Job, t \in Task : EnqueueManual(j, t) \/ EnqueueDue(j, t)
    \/ \E t \in Task : DeleteTask(t)
    \/ FeedSync
    \/ \E j \in Job : BackoffElapses(j)
    \/ SchedulerStep
    \/ SupervisorStep
    \/ \E r \in Run : RunEnds(r)
    \/ WorkerDies
    \/ AbortScheduler
    \/ Stop

Spec == Init /\ [][Next]_vars

\* Both loops of the Core keep turning while it lives, clocks advance, and
\* every agent run ends: the worker gives each model call a total time
\* (maxDurationMs), the supervisor kills a worker whose heartbeats stop.
\* Nobody is obliged to enqueue, to delete a task, or to stop the Core.
Fairness ==
    /\ WF_vars(SchedulerStep)
    /\ WF_vars(SupervisorStep)
    /\ \A r \in Run : WF_vars(RunEnds(r))
    /\ \A j \in Job : WF_vars(BackoffElapses(j))

FairSpec == Spec /\ Fairness

-----------------------------------------------------------------------------
(* Properties *)

\* One automation at a time: whatever recovery, requeues and late results
\* do, dispatch_next_run never makes a second run running.
OneRunning ==
    \A i, j \in Job :
        jobStatus[i] = "running" /\ jobStatus[j] = "running" => i = j

\* automation_runs and the workflow tables are moved by the same transaction
\* on every path, the unguarded ones included, so they tell the same story.
WorkflowStatesOf ==
    [absent |-> {"ABSENT"},
     queued |-> {"ABSENT", "RETRY_SCHEDULED"},
     running |-> {"READY", "RETRY_SCHEDULED", "RUNNING"},
     waiting_approval |-> {"WAITING_APPROVAL"},
     completed |-> {"COMPLETED"},
     failed |-> {"FAILED"}]

JobAgreesWithWorkflow ==
    \A j \in Job :
        /\ wfState[j] \in WorkflowStatesOf[jobStatus[j]]
        /\ wfState[j] = "RUNNING" => currentRun[j] = jobRun[j]
        /\ jobStatus[j] = "running" =>
              (jobRun[j] # None <=> wfState[j] = "RUNNING")

\* An agent run has an open attempt exactly while it is its workflow's
\* current run: no requeue, dead letter or late settlement leaves one behind.
OpenAttemptIsCurrentRun ==
    \A r \in Run : attempt[r] # None =>
        (attempt[r].status = "running" <=> currentRun[attempt[r].workflow] = r)

\* The rows of a run never contradict each other: automation_runs, the workflow
\* with its current run, and the attempts, all moved by different statements.
RunRowsAgree == JobAgreesWithWorkflow /\ OpenAttemptIsCurrentRun

\* The scheduler has started the run and the supervisor has not taken it: its
\* command is not sent, waits in the channel, or came back as an Err.
Dispatching(r) ==
    /\ \/ pc = "started"
       \/ pc = "submitted" /\ ((\E c \in commands : c.run = r) \/ reply = "err")
    /\ dispatch.run = r

\* Recovery has not read the rows yet, or has still to treat that of j.
AwaitsRecovery(j) ==
    \/ ~recovered /\ pc \notin {"orphans", "rows"}
    \/ pc = "orphans" /\ jobRun[j] \notin seen
    \/ \E row \in rows : row.job = j

\* The current run of a row is never nobody's, whatever stops, is replaced,
\* dies or answers late: the scheduler submits it, the supervisor has its
\* context, or recovery finds the row.  Nothing else would end it: no statement
\* of the Core looks for automations that run for too long, and one running
\* row keeps all others in the queue.
CurrentRunIsHeld ==
    \A j \in Job, r \in Run : IsCurrentRun(j, r) =>
        Dispatching(r) \/ context[r] # None \/ AwaitsRecovery(j)

\* The feed position of a task is that of its completed runs: a failed, lost
\* or still unapproved run leaves its entries to be read again, and a run
\* that read an older position does not move it back.
CursorFollowsCompleted ==
    \A t \in live :
        LET read == {jobCursor[j] : j \in JobsOf(t, {"completed"})} IN
        cursor[t] \in read \cup {0} /\ \A c \in read : c <= cursor[t]

\* A run that was bound to an attempt does not stay running for ever: its
\* result, its error, the worker's death or the recovery of a restarted Core
\* ends every attempt.
BoundRunEnds ==
    \A j \in Job, r \in Run : IsCurrentRun(j, r) ~> ~IsCurrentRun(j, r)

\* A claim the Core died in before it gave the row a run id.
Ownerless(j) ==
    jobStatus[j] = "running" /\ jobRun[j] = None
        /\ (dispatch = None \/ dispatch.job # j)

\* A queued run of a task that is not deleted is tried, completed, or given
\* up after MaxAttempts, also when the Core dies and restarts: the queue does
\* not forget it and retries end.  Only an ownerless row can stop the queue.
QueuedRunEnds ==
    \A j \in Job :
        jobStatus[j] = "queued" ~>
            \/ jobTask[j] = None
            \/ jobStatus[j] \in {"waiting_approval", "completed", "failed"}
            \/ \E i \in Job : Ownerless(i)

\* Nothing of the queue is left undone: each end of one kind waits for the
\* other, since only one run is dispatched at a time.
EveryRunEnds == BoundRunEnds /\ QueuedRunEnds

\* What the automation queue promises: at most one attempt at a time, each
\* under a new number, and one accepted result, that of the last attempt.
DispatchPhase ==
    [absent |-> "pending", queued |-> "offered", running |-> "held",
     waiting_approval |-> "done", completed |-> "done", failed |-> "dropped"]

AsQueue ==
    INSTANCE FencedDispatch WITH
        Item <- Job,
        phase <- [j \in Job |-> DispatchPhase[jobStatus[j]]],
        token <- jobAttempts,
        completedBy <- [j \in Job |->
            {attempt[r].number : r \in {q \in Run :
                attempt[q] # None /\ attempt[q].workflow = j
                    /\ attempt[q].status = "completed"}}]

\* As long as the scheduler is not replaced under a living supervisor, the
\* tables implement FencedDispatch.
ImplementsDispatch == AsQueue!DispatchSpec

\* docs/automations.md says that after a restart a run that lost its owner is
\* recovered and requeued or dead-lettered.
OwnerlessIsRecovered ==
    \A j \in Job :
        jobStatus[j] = "running" /\ jobRun[j] = None
            ~> jobStatus[j] # "running" \/ jobRun[j] # None

\* docs/automations.md says that a late terminal of an old run cannot
\* overwrite the current attempt.
LateErrorIsIgnored ==
    [][\A j \in Job :
          /\ failing # None /\ failing' = None
          /\ context[failing.run].job = j
          /\ ~IsCurrentRun(j, failing.run)
          => jobStatus'[j] = jobStatus[j] /\ jobRun'[j] = jobRun[j]]_vars
=============================================================================
