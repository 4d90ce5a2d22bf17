--------------------------- MODULE AgentRequests ---------------------------
(***************************************************************************)
(* The A2A requests of agent_request_watcher.rs: an external agent submits  *)
(* a request over MCP, the background scheduler of the Core claims it and    *)
(* submits a run to the worker supervisor, the worker's proposal is put      *)
(* before the external agent, which approves, rejects or revises it, and the *)
(* scheduler carries the decision out.  The rows of a run (agent_tasks,      *)
(* agent_patches, cognitive_sessions) are written by the supervisor, by the  *)
(* scheduler and by the user interface, which shows the same proposals.      *)
(*                                                                          *)
(* Abstractions.  One action per transaction, or per statement outside one: *)
(* failures and recovery are sequences of single statements here.  A run,    *)
(* its task and its session have ids of their own, made together; all three  *)
(* are the Run.  cognitive_session_id is written only together with run_id,  *)
(* so it is the run of a cognitive request (SessionOf).  previous_task_id is *)
(* NULL until the first revision.  A proposal's patches are decided as one.  *)
(* Statements do not fail; a background profile is configured; leases are    *)
(* left out: nothing reads lease_expires_at of a request.                    *)
(***************************************************************************)
EXTENDS Naturals, FiniteSets

CONSTANTS
    Request,       \* agent_requests, by id
    Run,           \* run ids, with the task and the session made with them
    None,
    MaxAttempts,   \* A2A_RETRY_POLICY.max_attempts (3)
    MaxRevisions,  \* bound: revisions of a request
    MaxStops,      \* bound: stops of the Core
    MaxAborts      \* bound: replacements of its scheduler alone

ASSUME RequestsAreFinite == IsFiniteSet(Request)
ASSUME NoneIsNoRun == None \notin Request \cup Run
ASSUME BoundsAreNatural ==
    /\ MaxAttempts \in Nat \ {0} /\ MaxRevisions \in Nat
    /\ MaxStops \in Nat /\ MaxAborts \in Nat

VARIABLES
    status,     \* agent_requests.status, "absent" before the INSERT
    mode,       \* mode: "agent" proposes edits, "research" ends with a result
    order,      \* created_at: the position of the INSERT
    run,        \* run_id
    task,       \* task_id
    attempts,   \* attempt_count
    revisions,  \* revision_count
    backoff,    \* next_attempt_at > now
    dead,       \* requests with a dead_lettered_at
    decided,    \* the action of decision_json
    origin,     \* the request a run was made for (workflow_id)
    taskStatus, \* agent_tasks.status of a run's task
    patches,    \* agent_patches.status of its proposal
    written,    \* runs with applied document transactions
    session,    \* cognitive_sessions.status of a run's session
    pc,         \* where the scheduler is in its tick
    recovered,  \* its startup_recovered
    seen,       \* its snapshot of the active runs
    rows,       \* the running rows recovery has still to treat
    dispatch,   \* the claimed request and the run it submits, or None
    decision,   \* the decision it carries out, or None
    commands,   \* the runs that wait in the supervisor's channel
    reply,      \* what came back for it
    stage,      \* what the supervisor has heard of each run it supervises
    binding,    \* the run whose task it has stored but not bound
    exiting,    \* the worker is dead and its runs are being settled
    exitRuns,   \* those of them still to settle
    failure,    \* the unfinished failure procedures, by the task inside them
    open,       \* the proposal the user interface shows
    uiStart,    \* where the start of the user interface is
    stops,      \* counts Stop
    aborts      \* counts AbortScheduler

requestVars == <<status, mode, order, run, task, attempts, revisions, backoff,
                 dead, decided>>
runVars == <<origin, taskStatus, patches, written, session>>
schedulerVars == <<pc, recovered, seen, rows, dispatch, decision>>
channelVars == <<commands, reply>>
supervisorVars == <<stage, binding, exiting, exitRuns>>
uiVars == <<open, uiStart>>
stopVars == <<stops, aborts>>
vars == <<requestVars, runVars, schedulerVars, channelVars, supervisorVars,
          failure, uiVars, stopVars>>

\* Every task of the Core that executes a failure procedure.
Owner == {"scheduler", "supervisor"}

Row == [request : Request, run : Run \cup {None}, task : Run \cup {None},
        attempts : Nat]

Failure == [request : Request, task : Run \cup {None},
            session : Run \cup {None}, attempts : Nat,
            kind : {"retryable", "permanent", "recovery"},
            step : {"read", "task", "session", "row"}]

ASSUME NoneIsNoFailure == None \notin Failure

TypeOK ==
    /\ status \in [Request -> {"absent", "queued", "running",
          "awaiting_review", "approved", "rejected", "completed", "failed"}]
    /\ mode \in [Request -> {"agent", "research"}]
    /\ order \in [Request -> 0..Cardinality(Request)]
    /\ run \in [Request -> Run \cup {None}]
    /\ task \in [Request -> Run \cup {None}]
    /\ attempts \in [Request -> Nat]
    /\ revisions \in [Request -> 0..MaxRevisions]
    /\ backoff \in [Request -> BOOLEAN]
    /\ dead \in SUBSET Request
    /\ decided \in [Request -> {"none", "approve", "reject"}]
    /\ origin \in [Run -> Request \cup {None}]
    /\ taskStatus \in [Run -> {"none", "running", "waiting_confirmation",
          "completed", "interrupted", "failed"}]
    /\ patches \in [Run -> {"none", "proposed", "accepted", "rejected"}]
    /\ written \in SUBSET Run
    /\ session \in [Run -> {"none", "active", "completed", "cancelled"}]
    /\ pc \in {"off", "tick", "orphans", "rows", "decide", "apply", "settle",
               "claim", "claimed", "session", "bound", "submitted", "failing"}
    /\ recovered \in BOOLEAN
    /\ seen \in SUBSET Run
    /\ rows \in SUBSET Row
    /\ dispatch \in [request : Request, run : Run \cup {None}] \cup {None}
    /\ decision \in [request : Request, found : BOOLEAN, ok : BOOLEAN]
          \cup {None}
    /\ commands \in SUBSET Run
    /\ reply \in {"none", "ok", "err"}
    /\ stage \in [Run -> {"none", "submitted", "prepared", "proposal",
                          "no_change"}]
    /\ binding \in Run \cup {None}
    /\ exiting \in BOOLEAN
    /\ exitRuns \in SUBSET Run
    /\ failure \in [Owner -> Failure \cup {None}]
    /\ open \in Run \cup {None}
    /\ uiStart \in {"done", "cleanup", "mark"}
    /\ stops \in 0..MaxStops /\ aborts \in 0..MaxAborts

SchedulerOff ==
    /\ pc = "off" /\ recovered = FALSE /\ seen = {} /\ rows = {}
    /\ dispatch = None /\ decision = None

SupervisorIdle ==
    /\ stage = [r \in Run |-> "none"] /\ binding = None
    /\ exiting = FALSE /\ exitRuns = {}

Init ==
    /\ status = [q \in Request |-> "absent"]
    /\ mode = [q \in Request |-> "agent"]
    /\ order = [q \in Request |-> 0]
    /\ run = [q \in Request |-> None]
    /\ task = [q \in Request |-> None]
    /\ attempts = [q \in Request |-> 0]
    /\ revisions = [q \in Request |-> 0]
    /\ backoff = [q \in Request |-> FALSE]
    /\ dead = {}
    /\ decided = [q \in Request |-> "none"]
    /\ origin = [r \in Run |-> None]
    /\ taskStatus = [r \in Run |-> "none"]
    /\ patches = [r \in Run |-> "none"]
    /\ written = {}
    /\ session = [r \in Run |-> "none"]
    /\ SchedulerOff
    /\ commands = {} /\ reply = "none"
    /\ SupervisorIdle
    /\ failure = [p \in Owner |-> None]
    /\ open = None /\ uiStart = "done"
    /\ stops = 0 /\ aborts = 0

Active == {r \in Run : stage[r] # "none"}

Exhausted(n) == n >= MaxAttempts

SessionOf(q) == IF mode[q] = "research" THEN run[q] ELSE None

IsCurrentRun(r) == status[origin[r]] = "running" /\ run[origin[r]] = r

-----------------------------------------------------------------------------
(* The external agent, over MCP *)

Stored == {q \in Request : status[q] # "absent"}

SubmitRequest(q, m) ==
    /\ status[q] = "absent"
    /\ status' = [status EXCEPT ![q] = "queued"]
    /\ mode' = [mode EXCEPT ![q] = m]
    /\ order' = [order EXCEPT ![q] = Cardinality(Stored) + 1]
    /\ UNCHANGED <<run, task, attempts, revisions, backoff, dead, decided,
                   runVars, schedulerVars, channelVars, supervisorVars,
                   failure, uiVars, stopVars>>

DecideAgentRequest(q, action) ==
    /\ status[q] = "awaiting_review" /\ task[q] # None
    /\ status' = [status EXCEPT
          ![q] = IF action = "approve" THEN "approved" ELSE "rejected"]
    /\ decided' = [decided EXCEPT ![q] = action]
    /\ UNCHANGED <<mode, order, run, task, attempts, revisions, backoff, dead,
                   runVars, schedulerVars, channelVars, supervisorVars,
                   failure, uiVars, stopVars>>

\* run_id and attempt_count stay as they were.
ReviseAgentRequest(q) ==
    /\ status[q] = "awaiting_review" /\ task[q] # None
    /\ revisions[q] < MaxRevisions
    /\ status' = [status EXCEPT ![q] = "queued"]
    /\ task' = [task EXCEPT ![q] = None]
    /\ revisions' = [revisions EXCEPT ![q] = @ + 1]
    /\ decided' = [decided EXCEPT ![q] = "none"]
    /\ UNCHANGED <<mode, order, run, attempts, backoff, dead, runVars,
                   schedulerVars, channelVars, supervisorVars, failure,
                   uiVars, stopVars>>

BackoffElapses(q) ==
    /\ backoff[q]
    /\ backoff' = [backoff EXCEPT ![q] = FALSE]
    /\ UNCHANGED <<status, mode, order, run, task, attempts, revisions, dead,
                   decided, runVars, schedulerVars, channelVars,
                   supervisorVars, failure, uiVars, stopVars>>
-----------------------------------------------------------------------------
(* schedule_background_failure, dead_letter_background_request, and the       *)
(* treatment of a row by recovery: the same statements, one at a time         *)

StepFrom(t, s) ==
    IF t # None THEN "task" ELSE IF s # None THEN "session" ELSE "row"

BeginFailure(p, q, t, s, kind) ==
    failure' = [failure EXCEPT ![p] =
        [request |-> q, task |-> t, session |-> s, attempts |-> 0,
         kind |-> kind, step |-> "read"]]

ReadAttempts(p) ==
    /\ failure[p] # None /\ failure[p].step = "read"
    /\ failure' = [failure EXCEPT
          ![p].attempts = attempts[failure[p].request],
          ![p].step = StepFrom(failure[p].task, failure[p].session)]
    /\ UNCHANGED <<requestVars, runVars, schedulerVars, channelVars,
                   supervisorVars, uiVars, stopVars>>

\* mark_background_attempt_abandoned, the first of its statements
AbandonTask(p) ==
    /\ failure[p] # None /\ failure[p].step = "task"
    /\ LET r == failure[p].task IN
       taskStatus' = IF taskStatus[r] \in {"running", "waiting_confirmation"}
                     THEN [taskStatus EXCEPT ![r] = "interrupted"]
                     ELSE taskStatus
    /\ failure' = [failure EXCEPT ![p].step = StepFrom(None, failure[p].session)]
    /\ UNCHANGED <<requestVars, origin, patches, written, session,
                   schedulerVars, channelVars, supervisorVars, uiVars, stopVars>>

\* Faulty variant: the session is left to the next attempt.
LeaveSession(r) == UNCHANGED session

CancelSession(r) ==
    session' = IF session[r] = "active"
               THEN [session EXCEPT ![r] = "cancelled"]
               ELSE session

AbandonSession(p) ==
    /\ failure[p] # None /\ failure[p].step = "session"
    /\ CancelSession(failure[p].session)
    /\ failure' = [failure EXCEPT ![p].step = "row"]
    /\ UNCHANGED <<requestVars, origin, taskStatus, patches, written,
                   schedulerVars, channelVars, supervisorVars, uiVars, stopVars>>

\* Both UPDATEs of a failure name the row by its id alone.
BuryRequest(q) ==
    /\ status' = [status EXCEPT ![q] = "failed"]
    /\ dead' = dead \cup {q}
    /\ backoff' = [backoff EXCEPT ![q] = FALSE]
    /\ UNCHANGED <<run, task>>

RequeueRequest(q, delayed) ==
    /\ status' = [status EXCEPT ![q] = "queued"]
    /\ run' = [run EXCEPT ![q] = None]
    /\ task' = [task EXCEPT ![q] = None]
    /\ backoff' = [backoff EXCEPT ![q] = delayed]
    /\ UNCHANGED dead

SettleRow(f) ==
    IF f.kind = "permanent" \/ Exhausted(f.attempts)
    THEN BuryRequest(f.request)
    ELSE IF f.kind = "retryable"
         THEN RequeueRequest(f.request, TRUE)
         ELSE IF status[f.request] = "running"
              THEN RequeueRequest(f.request, FALSE)
              ELSE UNCHANGED <<status, dead, backoff, run, task>>

Forget(r) == stage' = [stage EXCEPT ![r] = "none"]

\* What the owner of the procedure goes on with.
Proceed(p) ==
    IF p = "supervisor"
    THEN /\ IF exiting
            THEN exitRuns' = exitRuns \ {failure[p].task} /\ UNCHANGED stage
            ELSE Forget(failure[p].task) /\ UNCHANGED exitRuns
         /\ UNCHANGED <<pc, dispatch, reply>>
    ELSE /\ IF pc = "failing"
            THEN pc' = "tick" /\ dispatch' = None /\ reply' = "none"
            ELSE UNCHANGED <<pc, dispatch, reply>>
         /\ UNCHANGED <<exitRuns, stage>>

UpdateRequest(p) ==
    /\ failure[p] # None /\ failure[p].step = "row"
    /\ SettleRow(failure[p])
    /\ Proceed(p)
    /\ failure' = [failure EXCEPT ![p] = None]
    /\ UNCHANGED <<mode, order, attempts, revisions, decided, runVars,
                   recovered, seen, rows, decision, commands, binding, exiting,
                   uiVars, stopVars>>

FailureStep(p) ==
    ReadAttempts(p) \/ AbandonTask(p) \/ AbandonSession(p) \/ UpdateRequest(p)

-----------------------------------------------------------------------------
(* The scheduler: recovery *)

StartScheduler ==
    /\ pc = "off"
    /\ pc' = "tick"
    /\ UNCHANGED <<requestVars, runVars, recovered, seen, rows, dispatch,
                   decision, channelVars, supervisorVars, failure, uiVars,
                   stopVars>>

BeginTick ==
    /\ pc = "tick"
    /\ IF recovered
       THEN pc' = "decide" /\ UNCHANGED seen
       ELSE pc' = "orphans" /\ seen' = Active
    /\ UNCHANGED <<requestVars, runVars, recovered, rows, dispatch, decision,
                   channelVars, supervisorVars, failure, uiVars, stopVars>>

\* Faulty variant: a run the supervisor still has is taken to be lost.
AnyRunning(q) == status[q] = "running"

Orphaned(q) == status[q] = "running" /\ run[q] \notin seen

ReadOrphans ==
    /\ pc = "orphans"
    /\ rows' = {[request |-> q, run |-> run[q], task |-> task[q],
                 attempts |-> attempts[q]] : q \in {i \in Request : Orphaned(i)}}
    /\ pc' = "rows"
    /\ UNCHANGED <<requestVars, runVars, recovered, seen, dispatch, decision,
                   channelVars, supervisorVars, failure, uiVars, stopVars>>

RecoverOrphan(row) ==
    /\ pc = "rows" /\ failure["scheduler"] = None
    /\ row \in rows
    /\ LET s == IF mode[row.request] = "research" THEN row.run ELSE None IN
       failure' = [failure EXCEPT !["scheduler"] =
          [request |-> row.request, task |-> row.task, session |-> s,
           attempts |-> row.attempts, kind |-> "recovery",
           step |-> StepFrom(row.task, s)]]
    /\ rows' = rows \ {row}
    /\ UNCHANGED <<requestVars, runVars, pc, recovered, seen, dispatch,
                   decision, channelVars, supervisorVars, uiVars, stopVars>>

\* Recovery is repeated in the next tick when that of the automations or of
\* the signals, which follow, returns Err.
RecoveryDone(all) ==
    /\ pc = "rows" /\ rows = {} /\ failure["scheduler"] = None
    /\ pc' = "decide" /\ recovered' = all /\ seen' = {}
    /\ UNCHANGED <<requestVars, runVars, rows, dispatch, decision, channelVars,
                   supervisorVars, failure, uiVars, stopVars>>

-----------------------------------------------------------------------------
(* The scheduler: decisions *)

\* Faulty variant: only approvals are looked for.
ApprovedOnly == {q \in Request : status[q] = "approved" /\ task[q] # None}

Decided == {q \in Request : status[q] \in {"approved", "rejected"}
                            /\ task[q] # None}

\* The request is read, then its open patches; the rows that are read later
\* are those of task_id, which no other actor changes in between.
ReadDecision(q) ==
    /\ pc = "decide"
    /\ q \in Decided
    /\ decision' = [request |-> q, found |-> patches[task[q]] = "proposed",
                    ok |-> FALSE]
    /\ pc' = "apply"
    /\ UNCHANGED <<requestVars, runVars, recovered, seen, rows, dispatch,
                   channelVars, supervisorVars, failure, uiVars, stopVars>>

NoDecision ==
    /\ pc = "decide" /\ Decided = {}
    /\ pc' = "claim"
    /\ UNCHANGED <<requestVars, runVars, recovered, seen, rows, dispatch,
                   decision, channelVars, supervisorVars, failure, uiVars,
                   stopVars>>

\* apply_agent_patch_set_in_pool asks for both again; it is Err, too, when the
\* documents have moved on.
CanApply(r) ==
    taskStatus[r] = "waiting_confirmation" /\ patches[r] = "proposed"

ApplyPatches(r) ==
    /\ CanApply(r)
    /\ patches' = [patches EXCEPT ![r] = "accepted"]
    /\ written' = written \cup {r}
    /\ taskStatus' = [taskStatus EXCEPT ![r] = "completed"]
    /\ UNCHANGED <<origin, session>>

\* reject_agent_patch_set_in_pool asks for nothing.
RejectPatches(r) ==
    /\ patches' = [patches EXCEPT ![r] = "rejected"]
    /\ taskStatus' = [taskStatus EXCEPT ![r] = "completed"]
    /\ UNCHANGED <<origin, written, session>>

\* apply_background_patch_decision_in_pool
ApplyDecision(ok) ==
    /\ pc = "apply"
    /\ LET q == decision.request IN
       IF ok
       THEN /\ decision.found
            /\ IF status[q] = "approved"
               THEN ApplyPatches(task[q])
               ELSE RejectPatches(task[q])
       ELSE /\ decision.found => status[q] = "approved"
            /\ UNCHANGED runVars
    /\ decision' = [decision EXCEPT !.ok = ok]
    /\ pc' = "settle"
    /\ UNCHANGED <<requestVars, recovered, seen, rows, dispatch, channelVars,
                   supervisorVars, failure, uiVars, stopVars>>

\* Faulty variant: the decision counts as carried out in any case.
AlwaysCompleted(ok) == "completed"

DecisionStatus(ok) == IF ok THEN "completed" ELSE "failed"

\* settle_request_in_pool
SettleDecision ==
    /\ pc = "settle"
    /\ status' = [status EXCEPT
          ![decision.request] = DecisionStatus(decision.ok)]
    /\ backoff' = [backoff EXCEPT ![decision.request] = FALSE]
    /\ decision' = None
    /\ pc' = "claim"
    /\ UNCHANGED <<mode, order, run, task, attempts, revisions, dead, decided,
                   runVars, recovered, seen, rows, dispatch, channelVars,
                   supervisorVars, failure, uiVars, stopVars>>

-----------------------------------------------------------------------------
(* The scheduler: dispatch *)

\* Faulty variant: a request is only tried once.
ClaimableOnce(revised) ==
    {q \in Request : status[q] = "queued" /\ q \notin dead /\ ~backoff[q]
                     /\ (revisions[q] > 0) = revised /\ attempts[q] = 0}

Claimable(revised) ==
    {q \in Request : status[q] = "queued" /\ q \notin dead /\ ~backoff[q]
                     /\ (revisions[q] > 0) = revised}

\* Revised requests are looked at when there is no new one.
NextClaimable ==
    IF Claimable(FALSE) # {} THEN Claimable(FALSE) ELSE Claimable(TRUE)

ClaimAgentRequest(q) ==
    /\ pc = "claim"
    /\ q \in NextClaimable /\ \A i \in NextClaimable : order[q] <= order[i]
    /\ status' = [status EXCEPT ![q] = "running"]
    /\ attempts' = [attempts EXCEPT ![q] = @ + 1]
    /\ dispatch' = [request |-> q, run |-> None]
    /\ pc' = "claimed"
    /\ UNCHANGED <<mode, order, run, task, revisions, backoff, dead, decided,
                   runVars, recovered, seen, rows, decision, channelVars,
                   supervisorVars, failure, uiVars, stopVars>>

NothingToClaim ==
    /\ pc = "claim" /\ NextClaimable = {}
    /\ pc' = "tick"
    /\ UNCHANGED <<requestVars, runVars, recovered, seen, rows, dispatch,
                   decision, channelVars, supervisorVars, failure, uiVars,
                   stopVars>>

\* build_background_submission returns Err: the profile is invalid or there
\* is no document to read.
BuildFails ==
    /\ pc = "claimed"
    /\ BeginFailure("scheduler", dispatch.request, None, None, "permanent")
    /\ pc' = "failing"
    /\ UNCHANGED <<requestVars, runVars, recovered, seen, rows, dispatch,
                   decision, channelVars, supervisorVars, uiVars, stopVars>>

\* new_id: the run was never used before.  A research run gets its session.
MakeRun(r) ==
    /\ pc = "claimed" /\ origin[r] = None
    /\ origin' = [origin EXCEPT ![r] = dispatch.request]
    /\ session' = IF mode[dispatch.request] = "research"
                  THEN [session EXCEPT ![r] = "active"]
                  ELSE session
    /\ dispatch' = [dispatch EXCEPT !.run = r]
    /\ pc' = "session"
    /\ UNCHANGED <<requestVars, taskStatus, patches, written, recovered, seen,
                   rows, decision, channelVars, supervisorVars, failure,
                   uiVars, stopVars>>

\* UPDATE agent_requests SET run_id, ... WHERE id AND status = 'running'
BindRun ==
    /\ pc = "session"
    /\ LET q == dispatch.request IN
       run' = IF status[q] = "running"
              THEN [run EXCEPT ![q] = dispatch.run]
              ELSE run
    /\ pc' = "bound"
    /\ UNCHANGED <<status, mode, order, task, attempts, revisions, backoff,
                   dead, decided, runVars, recovered, seen, rows, dispatch,
                   decision, channelVars, supervisorVars, failure, uiVars,
                   stopVars>>

\* That of a scheduler that was replaced may still be in the channel.
Submit ==
    /\ pc = "bound"
    /\ commands' = commands \cup {dispatch.run}
    /\ pc' = "submitted"
    /\ UNCHANGED <<requestVars, runVars, recovered, seen, rows, dispatch,
                   decision, reply, supervisorVars, failure, uiVars, stopVars>>

\* start_background_orchestration returns Err before or after the command.
SubmissionFails ==
    /\ \/ pc = "bound"
       \/ pc = "submitted" /\ reply = "err"
    /\ LET q == dispatch.request IN
       BeginFailure("scheduler", q, None,
          IF mode[q] = "research" THEN dispatch.run ELSE None, "retryable")
    /\ pc' = "failing"
    /\ UNCHANGED <<requestVars, runVars, recovered, seen, rows, dispatch,
                   decision, channelVars, supervisorVars, uiVars, stopVars>>

SubmissionAccepted ==
    /\ pc = "submitted" /\ reply = "ok"
    /\ pc' = "tick" /\ dispatch' = None /\ reply' = "none"
    /\ UNCHANGED <<requestVars, runVars, recovered, seen, rows, decision,
                   commands, supervisorVars, failure, uiVars, stopVars>>

-----------------------------------------------------------------------------
(* The worker supervisor *)

Serving == ~exiting /\ binding = None /\ failure["supervisor"] = None

\* The reply is lost when the scheduler that waited for it was replaced.
Answer(r, answer) ==
    reply' = IF pc = "submitted" /\ dispatch.run = r THEN answer ELSE reply

AcceptCommand(r) ==
    /\ Serving /\ r \in commands
    /\ \/ stage' = [stage EXCEPT ![r] = "submitted"] /\ Answer(r, "ok")
       \/ UNCHANGED stage /\ Answer(r, "err")
    /\ commands' = commands \ {r}
    /\ UNCHANGED <<requestVars, runVars, schedulerVars, binding, exiting,
                   exitRuns, failure, uiVars, stopVars>>

\* Faulty variant: only the runs whose task is stored are settled.
LosePreparedRuns ==
    /\ exiting' = TRUE /\ exitRuns' = {r \in Active : stage[r] # "submitted"}
    /\ binding' = None
    /\ UNCHANGED <<requestVars, runVars, schedulerVars, channelVars, stage,
                   failure, uiVars, stopVars>>

\* The worker process is gone, or is killed because a line of it was refused.
LoseWorker ==
    /\ exiting' = TRUE /\ exitRuns' = Active /\ binding' = None
    /\ UNCHANGED <<requestVars, runVars, schedulerVars, channelVars, stage,
                   failure, uiVars, stopVars>>

WorkerDies == Serving /\ Active # {} /\ LoseWorker

\* orchestration.prepared: the task is stored in one transaction ...
PrepareRun(r) ==
    /\ Serving /\ stage[r] = "submitted"
    /\ taskStatus' = [taskStatus EXCEPT ![r] = "running"]
    /\ binding' = r
    /\ UNCHANGED <<requestVars, origin, patches, written, session,
                   schedulerVars, channelVars, stage, exiting, exitRuns,
                   failure, uiVars, stopVars>>

\* ... and bound to its request in another.
BindTask ==
    /\ binding # None /\ IsCurrentRun(binding)
    /\ task' = [task EXCEPT ![origin[binding]] = binding]
    /\ stage' = [stage EXCEPT ![binding] = "prepared"]
    /\ binding' = None
    /\ UNCHANGED <<status, mode, order, run, attempts, revisions, backoff,
                   dead, decided, runVars, schedulerVars, channelVars, exiting,
                   exitRuns, failure, uiVars, stopVars>>

RefuseBinding == binding # None /\ ~IsCurrentRun(binding) /\ LoseWorker

\* persist_sidecar_finalization, of the runs that may propose edits: the
\* task's status is not asked for.
FinalizeRun(r, outcome) ==
    /\ Serving /\ stage[r] = "prepared" /\ mode[origin[r]] = "agent"
    /\ stage' = [stage EXCEPT ![r] = outcome]
    /\ IF outcome = "proposal"
       THEN /\ taskStatus' = [taskStatus EXCEPT ![r] = "waiting_confirmation"]
            /\ patches' = [patches EXCEPT ![r] = "proposed"]
       ELSE /\ taskStatus' = [taskStatus EXCEPT ![r] = "completed"]
            /\ patches' = [patches EXCEPT ![r] = "none"]
    /\ UNCHANGED <<requestVars, origin, written, session, schedulerVars,
                   channelVars, binding, exiting, exitRuns, failure, uiVars,
                   stopVars>>

ResultArrives(r) ==
    /\ Serving /\ r \in Active
    /\ stage[r] \in IF mode[origin[r]] = "agent"
                    THEN {"proposal", "no_change"} ELSE {"prepared"}

ResultStatus(r) ==
    IF stage[r] = "proposal" THEN "awaiting_review" ELSE "completed"

\* Constrains task, status, backoff and stage.
SettleRequest(r) ==
    /\ status' = [status EXCEPT ![origin[r]] = ResultStatus(r)]
    /\ task' = [task EXCEPT ![origin[r]] = r]
    /\ backoff' = [backoff EXCEPT ![origin[r]] = FALSE]
    /\ Forget(r)
    /\ UNCHANGED <<mode, order, run, attempts, revisions, dead, decided,
                   schedulerVars, channelVars, binding, exiting, exitRuns,
                   failure, uiVars, stopVars>>

SettleProposal(r) ==
    /\ ResultArrives(r) /\ IsCurrentRun(r) /\ mode[origin[r]] = "agent"
    /\ SettleRequest(r)
    /\ UNCHANGED runVars

\* Session and task must still be open, or the transaction is an Err.
CanEndResearch(r) ==
    session[r] = "active"
        /\ taskStatus[r] \in {"running", "waiting_confirmation"}

SettleResearch(r) ==
    /\ ResultArrives(r) /\ IsCurrentRun(r) /\ mode[origin[r]] = "research"
    /\ CanEndResearch(r)
    /\ session' = [session EXCEPT ![r] = "completed"]
    /\ taskStatus' = [taskStatus EXCEPT ![r] = "completed"]
    /\ SettleRequest(r)
    /\ UNCHANGED <<origin, patches, written>>

RefuseResult(r) ==
    /\ ResultArrives(r) /\ IsCurrentRun(r) /\ mode[origin[r]] = "research"
    /\ ~CanEndResearch(r)
    /\ LoseWorker

DropStaleTerminal(r) ==
    /\ Serving /\ stage[r] # "none" /\ ~IsCurrentRun(r)
    /\ Forget(r)
    /\ UNCHANGED <<requestVars, runVars, schedulerVars, channelVars, binding,
                   exiting, exitRuns, failure, uiVars, stopVars>>

\* run.error, or the settlement of a run whose worker is dead: is_current is
\* read first, everything else follows statement by statement.
CheckError(r, retryable) ==
    /\ failure["supervisor"] = None /\ binding = None
    /\ IF exiting THEN r \in exitRuns /\ retryable ELSE stage[r] # "none"
    /\ IsCurrentRun(r)
    /\ BeginFailure("supervisor", origin[r], r,
          IF mode[origin[r]] = "research" THEN r ELSE None,
          IF retryable THEN "retryable" ELSE "permanent")
    /\ UNCHANGED <<requestVars, runVars, schedulerVars, channelVars,
                   supervisorVars, uiVars, stopVars>>

SkipExitedRun(r) ==
    /\ exiting /\ failure["supervisor"] = None /\ r \in exitRuns
    /\ ~IsCurrentRun(r)
    /\ exitRuns' = exitRuns \ {r}
    /\ UNCHANGED <<requestVars, runVars, schedulerVars, channelVars, stage,
                   binding, exiting, failure, uiVars, stopVars>>

\* handle_agent_worker_exit closes what tasks are left, then the worker is
\* started again.
RestartWorker ==
    /\ exiting /\ failure["supervisor"] = None /\ exitRuns = {}
    /\ exiting' = FALSE
    /\ taskStatus' = [r \in Run |->
          IF r \in Active /\ taskStatus[r] = "running"
          THEN "interrupted" ELSE taskStatus[r]]
    /\ stage' = [r \in Run |-> "none"]
    /\ UNCHANGED <<requestVars, origin, patches, written, session,
                   schedulerVars, channelVars, binding, exitRuns, failure,
                   uiVars, stopVars>>

-----------------------------------------------------------------------------
(* The user interface, which shows any proposal that waits for confirmation *)

UserOnly == <<requestVars, schedulerVars, channelVars, supervisorVars,
              failure, stopVars>>

\* restoreForDocument: a pending task with its patches, or nothing.
ShowProposal(r) ==
    /\ uiStart = "done"
    /\ r # None => taskStatus[r] = "waiting_confirmation" /\ patches[r] # "none"
    /\ open' = r
    /\ UNCHANGED <<runVars, uiStart>> /\ UNCHANGED UserOnly

AcceptProposal ==
    /\ open # None
    /\ ApplyPatches(open)
    /\ open' = None
    /\ UNCHANGED uiStart /\ UNCHANGED UserOnly

\* reportPendingAgentError writes the status back whatever it is by now.
AcceptFails ==
    /\ open # None
    /\ taskStatus' = [taskStatus EXCEPT ![open] = "waiting_confirmation"]
    /\ UNCHANGED <<origin, patches, written, session, uiVars>>
    /\ UNCHANGED UserOnly

RejectProposal ==
    /\ open # None
    /\ RejectPatches(open)
    /\ open' = None
    /\ UNCHANGED uiStart /\ UNCHANGED UserOnly

\* restoreStartupAgentState: stale proposals and then stale tasks are closed
\* when the worker's snapshot shows no run, and also when it cannot be read:
\* the runs that are active then do not keep it from closing them.
StartInterface ==
    /\ uiStart = "done"
    /\ uiStart' = "cleanup" /\ open' = None
    /\ UNCHANGED runVars /\ UNCHANGED UserOnly

\* Some newer task there always is: those of the interactive runs count.
OrphanProposals ==
    {r \in Run : taskStatus[r] = "waiting_confirmation"
                 /\ \A q \in Request : task[q] # r}

CleanupOrphanAgentTasks ==
    /\ uiStart = "cleanup"
    /\ patches' = [r \in Run |->
          IF r \in OrphanProposals /\ patches[r] = "proposed"
          THEN "rejected" ELSE patches[r]]
    /\ taskStatus' = [r \in Run |->
          IF r \in OrphanProposals THEN "completed" ELSE taskStatus[r]]
    /\ uiStart' = "mark"
    /\ UNCHANGED <<origin, written, session, open>> /\ UNCHANGED UserOnly

MarkInterruptedAgentTasks ==
    /\ uiStart = "mark"
    /\ taskStatus' = [r \in Run |->
          IF taskStatus[r] = "running" THEN "failed" ELSE taskStatus[r]]
    /\ uiStart' = "done"
    /\ UNCHANGED <<origin, patches, written, session, open>>
    /\ UNCHANGED UserOnly

-----------------------------------------------------------------------------
(* Stops *)

ResetScheduler ==
    /\ pc' = "off" /\ recovered' = FALSE /\ seen' = {} /\ rows' = {}
    /\ dispatch' = None /\ decision' = None /\ reply' = "none"

\* The scheduler task is aborted wherever it awaits and may be started again
\* while the supervisor goes on.
AbortScheduler ==
    /\ pc # "off" /\ aborts < MaxAborts
    /\ aborts' = aborts + 1
    /\ ResetScheduler
    /\ failure' = [failure EXCEPT !["scheduler"] = None]
    /\ UNCHANGED <<requestVars, runVars, commands, supervisorVars, uiVars,
                   stops>>

\* The Core process dies or exits: its memory is gone, the database stays.
Stop ==
    /\ pc # "off" /\ stops < MaxStops
    /\ stops' = stops + 1
    /\ ResetScheduler
    /\ commands' = {}
    /\ stage' = [r \in Run |-> "none"] /\ binding' = None
    /\ exiting' = FALSE /\ exitRuns' = {}
    /\ failure' = [p \in Owner |-> None]
    /\ UNCHANGED <<requestVars, runVars, uiVars, aborts>>

-----------------------------------------------------------------------------
SchedulerStep ==
    \/ StartScheduler \/ BeginTick \/ ReadOrphans
    \/ \E row \in rows : RecoverOrphan(row)
    \/ \E all \in BOOLEAN : RecoveryDone(all)
    \/ \E q \in Request : ReadDecision(q)
    \/ NoDecision
    \/ \E ok \in BOOLEAN : ApplyDecision(ok)
    \/ SettleDecision
    \/ \E q \in Request : ClaimAgentRequest(q)
    \/ NothingToClaim \/ BuildFails
    \/ \E r \in Run : MakeRun(r)
    \/ BindRun \/ Submit \/ SubmissionFails \/ SubmissionAccepted
    \/ FailureStep("scheduler")

\* What the worker reports of the run r, and what becomes of it.
RunStep(r) ==
    \/ PrepareRun(r)
    \/ \E outcome \in {"proposal", "no_change"} : FinalizeRun(r, outcome)
    \/ SettleProposal(r) \/ SettleResearch(r) \/ RefuseResult(r)
    \/ DropStaleTerminal(r)
    \/ \E retryable \in BOOLEAN : CheckError(r, retryable)
    \/ SkipExitedRun(r)

SupervisorStep ==
    \/ \E r \in commands : AcceptCommand(r)
    \/ BindTask \/ RefuseBinding \/ RestartWorker
    \/ FailureStep("supervisor")

InterfaceStep ==
    \/ \E r \in Run \cup {None} : ShowProposal(r)
    \/ AcceptProposal \/ AcceptFails \/ RejectProposal
    \/ StartInterface \/ CleanupOrphanAgentTasks \/ MarkInterruptedAgentTasks

Next ==
    \/ \E q \in Request, m \in {"agent", "research"} : SubmitRequest(q, m)
    \/ \E q \in Request, action \in {"approve", "reject"} :
          DecideAgentRequest(q, action)
    \/ \E q \in Request : ReviseAgentRequest(q) \/ BackoffElapses(q)
    \/ SchedulerStep
    \/ SupervisorStep
    \/ \E r \in Run : RunStep(r)
    \/ WorkerDies
    \/ InterfaceStep
    \/ AbortScheduler
    \/ Stop

Spec == Init /\ [][Next]_vars

\* Both loops of the Core keep turning while it lives, clocks advance, and
\* the worker brings every run to an end (AiSdkWorkerRuntime.ts gives a run a
\* total time, the supervisor kills a worker whose heartbeats stop).
\* Nobody is obliged to decide, to revise or to open the interface.
Fairness ==
    /\ WF_vars(SchedulerStep)
    /\ WF_vars(SupervisorStep)
    /\ \A r \in Run : WF_vars(RunStep(r))
    /\ \A q \in Request : WF_vars(BackoffElapses(q))

FairSpec == Spec /\ Fairness

-----------------------------------------------------------------------------
(* Properties *)

\* A proposal put before the requester is that of the run the request names,
\* and as long as nobody decided it, it can still be accepted: no recovery,
\* clean-up, exit handling or late failure has closed its task.
ReviewedProposalIsOpen ==
    aborts = 0 => \A q \in Request :
        status[q] \in {"awaiting_review", "approved", "rejected"} =>
            /\ task[q] = run[q] /\ run[q] # None
            /\ origin[run[q]] = q
            /\ patches[run[q]] # "none"
            /\ patches[run[q]] = "proposed" =>
                  taskStatus[run[q]] = "waiting_confirmation"

\* A request that was approved and completed has its proposal in the
\* documents: applying and settling are two transactions, and the interface
\* decides the same proposals.
ApprovedIsWritten ==
    aborts = 0 => \A q \in Request :
        status[q] = "completed" /\ decided[q] = "approve" => task[q] \in written

\* No cognitive session stays active behind a request that is no longer
\* running: failure, dead letter and recovery close it before the row.
EndedRequestClosesSession ==
    aborts = 0 => \A q \in Request :
        SessionOf(q) # None /\ session[SessionOf(q)] = "active" =>
            status[q] = "running"

\* No request is claimed more often than the policy allows, one attempt more
\* for each revision: attempt_count is read before the row is queued again.
AttemptsAreBounded ==
    aborts = 0 =>
        \A q \in Request : attempts[q] <= MaxAttempts + revisions[q]

\* The scheduler has claimed the request and the supervisor has not taken its
\* run: it is being built, waits in the channel, or came back as an Err.
Dispatching(q) ==
    /\ \/ pc \in {"claimed", "session", "bound"}
       \/ pc = "submitted" /\ (dispatch.run \in commands \/ reply = "err")
    /\ dispatch.request = q

\* Recovery has not read the rows yet, or has still to treat that of q.
AwaitsRecovery(q) ==
    \/ pc = "off" \/ (pc = "tick" /\ ~recovered)
    \/ pc = "orphans" /\ run[q] \notin seen
    \/ \E row \in rows : row.request = q

Held(q) ==
    \/ Dispatching(q)
    \/ run[q] # None /\ stage[run[q]] # "none"
    \/ \E p \in Owner : failure[p] # None /\ failure[p].request = q
    \/ AwaitsRecovery(q)

\* A running request is never nobody's, whatever stops, is replaced, dies or
\* answers late: the scheduler dispatches it, the supervisor has its run, one of
\* them is settling its failure, or recovery finds it.  Nothing else would end
\* it: no statement of the Core looks for requests that run for too long.
RunningIsHeld == \A q \in Request : status[q] = "running" => Held(q)

\* Every request that is queued or running comes before its requester, is
\* completed, or is given up: no claim, crash or retry loses it.
RequestAdvances ==
    \A q \in Request :
        status[q] \in {"queued", "running"} ~>
            status[q] \in {"awaiting_review", "completed", "failed"}

\* Every decision is carried out or reported as failed.
DecisionEnds ==
    \A q \in Request :
        status[q] \in {"approved", "rejected"} ~>
            status[q] \in {"completed", "failed"}

\* Wherever only the Core can move a request, the Core moves it.
RequestsMove == RequestAdvances /\ DecisionEnds

\* docs/architecture.md:193 says that recovery ends the old task and session
\* before it queues the request again under a new run.
RequeuedAttemptIsClosed ==
    \A q \in Request, r \in Run :
        status[q] = "queued" /\ origin[r] = q =>
            session[r] # "active" /\ taskStatus[r] # "running"
=============================================================================
