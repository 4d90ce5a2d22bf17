------------------------ MODULE AgentRequestsProofs ------------------------
(***************************************************************************)
(* What holds of the A2A requests for any number of them, of runs, attempts, *)
(* revisions and stops of the Core.  As long as the scheduler is not         *)
(* replaced alone, the argument is about who may write the row of a request  *)
(* that is running: the scheduler, until the supervisor has heard of the     *)
(* run, then the supervisor, and recovery only when no supervised run is     *)
(* behind the row.  So the unfenced statements of a failure meet the row and *)
(* the run they were begun for.  When it is replaced they may not, but a     *)
(* running request is still never left to nobody (HeldInv).                  *)
(***************************************************************************)
EXTENDS AgentRequests, FiniteSetTheorems, TLAPS

-----------------------------------------------------------------------------
(* The invariant, by parts.  The first part holds whatever is aborted: what  *)
(* the scheduler has in hand is there, a run the supervisor may hear of was  *)
(* made for a request, and a decision is carried out undisturbed.            *)

Dispatches == {"claimed", "session", "bound", "submitted", "failing"}

Dispatched ==
    /\ pc \in Dispatches =>
          dispatch \in [request : Request, run : Run \cup {None}]
    /\ pc \in {"session", "bound", "submitted"} =>
          dispatch.run \in Run /\ origin[dispatch.run] = dispatch.request

HasRequest ==
    /\ \A r \in commands : origin[r] \in Request
    /\ \A r \in Run : stage[r] # "none" => origin[r] \in Request
    /\ exitRuns \subseteq Active
    /\ ~exiting => exitRuns = {}

\* Nobody takes a request that was decided from the scheduler: the supervisor
\* puts no request up for review while it is in the middle of a failure, and
\* the scheduler fails none while it carries out a decision.
Deciding ==
    /\ pc \in {"apply", "settle"} =>
        /\ decision \in [request : Request, found : BOOLEAN, ok : BOOLEAN]
        /\ status[decision.request] \in {"approved", "rejected"}
        /\ task[decision.request] # None
        /\ decision.ok /\ status[decision.request] = "approved" =>
              task[decision.request] \in written
    /\ failure["scheduler"] # None => pc \in {"rows", "failing"}
    /\ failure["supervisor"] # None =>
          status[failure["supervisor"].request]
              \notin {"awaiting_review", "approved", "rejected"}

Typed == TypeOK /\ Dispatched /\ HasRequest /\ Deciding

\* A task is that of the run the request names, a run is made for one request,
\* and a request waits to be claimed without a task.
NamesItsRun(q) ==
    /\ status[q] \in {"absent", "queued"} => task[q] = None
    /\ status[q] = "absent" => run[q] = None
    /\ task[q] # None => task[q] = run[q]
    /\ run[q] # None => origin[run[q]] = q

Unsupervised(q) == run[q] # None => stage[run[q]] = "none"

\* The supervisor forgets a run when it settles its request; only a run it has
\* buried may still be known to it, until the worker is started again.
EndedIsForgotten(q) == status[q] \notin {"running", "failed"} => Unsupervised(q)

ReviewFits(q) ==
    status[q] \in {"awaiting_review", "approved", "rejected"} =>
        /\ task[q] = run[q] /\ run[q] # None
        /\ patches[run[q]] # "none"
        /\ patches[run[q]] = "proposed" =>
              taskStatus[run[q]] = "waiting_confirmation"

DecisionFits(q) ==
    decided[q] = "approve" =>
        /\ status[q] \in {"approved", "completed", "failed"}
        /\ status[q] = "completed" => task[q] \in written

ResearchFits(q) ==
    mode[q] = "research" =>
        /\ status[q] \in {"absent", "queued", "running", "completed", "failed"}
        /\ status[q] = "queued" => run[q] = None
        /\ run[q] # None /\ session[run[q]] = "active" => status[q] = "running"

AttemptsFit(q) ==
    /\ status[q] = "absent" => attempts[q] = 0
    /\ attempts[q] <= MaxAttempts + revisions[q]
    /\ status[q] = "queued" => attempts[q] < MaxAttempts + revisions[q]

RequestInv ==
    \A q \in Request :
        /\ NamesItsRun(q) /\ EndedIsForgotten(q) /\ ReviewFits(q)
        /\ DecisionFits(q) /\ ResearchFits(q) /\ AttemptsFit(q)

\* The supervisor is in the middle of the failure of this run.
Failing(r) == failure["supervisor"] # None /\ failure["supervisor"].task = r

\* While the request still waits for a supervised run, the task is bound once
\* the worker has prepared it, and its proposal is open.
StageFits(r) ==
    stage[r] # "none" =>
        /\ stage[r] # "submitted" /\ IsCurrentRun(r) => task[origin[r]] = r
        /\ stage[r] = "proposal" /\ IsCurrentRun(r) /\ ~Failing(r) =>
              /\ patches[r] # "none"
              /\ patches[r] = "proposed" =>
                    taskStatus[r] = "waiting_confirmation"

StageInv == \A r \in Run : StageFits(r)

BindingInv ==
    binding # None =>
        /\ stage[binding] = "submitted"
        /\ ~exiting /\ failure["supervisor"] = None

\* A failure procedure is about a running request, the run it names and its
\* session, and what it has read of the row still holds.
FailureFits(f) ==
    /\ status[f.request] = "running"
    /\ f.session = SessionOf(f.request)
    /\ f.step = "task" => f.task # None
    /\ f.step = "session" => f.session # None
    /\ f.step = "row" /\ f.session # None => session[f.session] # "active"
    /\ f.task # None => origin[f.task] = f.request /\ run[f.request] = f.task
    /\ f.step # "read" => f.attempts = attempts[f.request]

SupervisorFailureInv ==
    failure["supervisor"] # None =>
        /\ FailureFits(failure["supervisor"])
        /\ failure["supervisor"].task # None
        /\ stage[failure["supervisor"].task] # "none"

SchedulerFailureInv ==
    failure["scheduler"] # None =>
        /\ FailureFits(failure["scheduler"])
        /\ Unsupervised(failure["scheduler"].request)
        /\ pc = "failing" =>
              failure["scheduler"].request = dispatch.request
        /\ \A row \in rows : row.request # failure["scheduler"].request

\* What recovery has read of the rows it has still to treat.
RowFits(row) ==
    /\ status[row.request] = "running"
    /\ row.run = run[row.request] /\ row.task = task[row.request]
    /\ row.attempts = attempts[row.request]
    /\ Unsupervised(row.request)

RecoveryInv ==
    /\ rows # {} => pc = "rows"
    /\ \A row \in rows : RowFits(row)
    /\ pc = "orphans" => Active \subseteq seen

\* The scheduler alone works on the request it has claimed, until the
\* supervisor answers that it has taken the run.
InHand(q) == status[q] = "running" /\ task[q] = None /\ Unsupervised(q)

Unnamed(q) == mode[q] = "research" => run[q] = None

Bound ==
    \/ pc = "bound"
    \/ pc = "submitted" /\ (dispatch.run \in commands \/ reply = "err")

DispatchInv ==
    /\ pc = "claimed" => InHand(dispatch.request) /\ Unnamed(dispatch.request)
    /\ pc = "session" =>
          /\ InHand(dispatch.request) /\ Unnamed(dispatch.request)
          /\ stage[dispatch.run] = "none"
    /\ Bound =>
          InHand(dispatch.request) /\ run[dispatch.request] = dispatch.run
    /\ \A r \in commands :
          pc = "submitted" /\ r = dispatch.run /\ reply = "none"
    /\ reply # "none" => pc \in {"submitted", "failing"}

Agreement ==
    /\ RequestInv /\ StageInv /\ BindingInv
    /\ SupervisorFailureInv /\ SchedulerFailureInv
    /\ RecoveryInv /\ DispatchInv

IInv == Typed /\ (aborts = 0 => Agreement)

\* The supervisor takes a run from its channel.
Accepted == \E r \in commands : AcceptCommand(r)

USE RequestsAreFinite, NoneIsNoRun, BoundsAreNatural, NoneIsNoFailure
USE DEF requestVars, runVars, schedulerVars, channelVars, supervisorVars,
        uiVars, stopVars

-----------------------------------------------------------------------------
(* Types.                                                                  *)

RequestTyped ==
    /\ status \in [Request -> {"absent", "queued", "running",
          "awaiting_review", "approved", "rejected", "completed", "failed"}]
    /\ mode \in [Request -> {"agent", "research"}]
    /\ order \in [Request -> 0..Cardinality(Request)]
    /\ run \in [Request -> Run \cup {None}]
    /\ task \in [Request -> Run \cup {None}]
    /\ attempts \in [Request -> Nat]
    /\ revisions \in [Request -> 0..MaxRevisions]
    /\ backoff \in [Request -> BOOLEAN]
    /\ dead \in SUBSET Request
    /\ decided \in [Request -> {"none", "approve", "reject"}]

RunTyped ==
    /\ origin \in [Run -> Request \cup {None}]
    /\ taskStatus \in [Run -> {"none", "running", "waiting_confirmation",
          "completed", "interrupted", "failed"}]
    /\ patches \in [Run -> {"none", "proposed", "accepted", "rejected"}]
    /\ written \in SUBSET Run
    /\ session \in [Run -> {"none", "active", "completed", "cancelled"}]

SchedulerTyped ==
    /\ pc \in {"off", "tick", "orphans", "rows", "decide", "apply", "settle",
               "claim", "claimed", "session", "bound", "submitted", "failing"}
    /\ recovered \in BOOLEAN
    /\ seen \in SUBSET Run
    /\ rows \in SUBSET Row
    /\ dispatch \in [request : Request, run : Run \cup {None}] \cup {None}
    /\ decision \in [request : Request, found : BOOLEAN, ok : BOOLEAN]
          \cup {None}
    /\ commands \in SUBSET Run
    /\ reply \in {"none", "ok", "err"}

SupervisorTyped ==
    /\ stage \in [Run -> {"none", "submitted", "prepared", "proposal",
                          "no_change"}]
    /\ binding \in Run \cup {None}
    /\ exiting \in BOOLEAN
    /\ exitRuns \in SUBSET Run
    /\ failure \in [Owner -> Failure \cup {None}]

RestTyped ==
    /\ open \in Run \cup {None}
    /\ uiStart \in {"done", "cleanup", "mark"}
    /\ stops \in 0..MaxStops
    /\ aborts \in 0..MaxAborts

LEMMA TypeParts ==
    /\ TypeOK <=> RequestTyped /\ RunTyped /\ SchedulerTyped
                   /\ SupervisorTyped /\ RestTyped
    /\ TypeOK' <=> RequestTyped' /\ RunTyped' /\ SchedulerTyped'
                    /\ SupervisorTyped' /\ RestTyped'
BY DEF TypeOK, RequestTyped, RunTyped, SchedulerTyped, SupervisorTyped, RestTyped

LEMMA InitType == Init => Typed
<1> SUFFICES ASSUME Init PROVE Typed
  OBVIOUS
<1> USE DEF Init, SchedulerOff, SupervisorIdle
<1>1. RequestTyped
  BY FS_CardinalityType DEF RequestTyped
<1>2. RunTyped
  BY DEF RunTyped
<1>3. SchedulerTyped
  BY DEF SchedulerTyped
<1>4. SupervisorTyped
  BY DEF SupervisorTyped, Owner
<1>5. RestTyped
  BY DEF RestTyped
<1>6. Dispatched /\ HasRequest /\ Deciding
  BY DEF Dispatched, Dispatches, HasRequest, Deciding, Owner
<1> QED BY <1>1, <1>2, <1>3, <1>4, <1>5, <1>6, TypeParts DEF Typed

\* created_at counts the requests there are.
LEMMA NextOrder ==
    ASSUME TypeOK, NEW q \in Request, status[q] = "absent"
    PROVE  Cardinality(Stored) + 1 \in 0..Cardinality(Request)
<1>1. Stored \subseteq Request /\ q \notin Stored
  BY DEF Stored
<1>2. IsFiniteSet(Stored)
  BY <1>1, FS_Subset
<1>3. Cardinality(Stored \cup {q}) = Cardinality(Stored) + 1
  BY <1>1, <1>2, FS_AddElement
<1>4. Cardinality(Stored \cup {q}) <= Cardinality(Request)
  BY <1>1, FS_Subset
<1> QED BY <1>2, <1>3, <1>4, FS_CardinalityType

\* Reading the attempts of a request changes the failure being settled alone:
\* its attempts and its next step.
LEMMA AttemptsRead ==
    ASSUME TypeOK, NEW p \in Owner, ReadAttempts(p)
    PROVE  /\ failure[p] # None /\ failure[p].request \in Request
           /\ failure'[p] \in Failure
           /\ failure'[p].request = failure[p].request
           /\ failure'[p].task = failure[p].task
           /\ failure'[p].session = failure[p].session
           /\ failure'[p].attempts = attempts[failure[p].request]
           /\ failure'[p].step = StepFrom(failure[p].task, failure[p].session)
           /\ \A o \in Owner \ {p} : failure'[o] = failure[o]
<1>1. failure[p] # None /\ failure \in [Owner -> Failure \cup {None}]
  BY TypeParts DEF ReadAttempts, SupervisorTyped
<1>2. failure[p] \in Failure
  BY <1>1
<1>3. failure' = [failure EXCEPT
          ![p].attempts = attempts[failure[p].request],
          ![p].step = StepFrom(failure[p].task, failure[p].session)]
  BY DEF ReadAttempts
<1>4. \A o \in Owner \ {p} : failure'[o] = failure[o]
  BY <1>1, <1>3
<1>5. failure'[p] = [failure[p] EXCEPT
          !.attempts = attempts[failure[p].request],
          !.step = StepFrom(failure[p].task, failure[p].session)]
  BY <1>1, <1>3
<1>6. attempts[failure[p].request] \in Nat
  BY <1>2, TypeParts DEF RequestTyped, Failure
<1>7. StepFrom(failure[p].task, failure[p].session) \in {"task", "session", "row"}
  BY DEF StepFrom
<1>8. failure'[p] \in Failure
  BY <1>2, <1>5, <1>6, <1>7 DEF Failure
<1> QED BY <1>1, <1>2, <1>4, <1>5, <1>8 DEF Failure

\* Abandoning the task of an attempt changes that task and the next step of the
\* failure being settled.
LEMMA TaskAbandoned ==
    ASSUME TypeOK, NEW p \in Owner, AbandonTask(p)
    PROVE  /\ failure[p] # None /\ failure[p].step = "task"
           /\ failure'[p] \in Failure
           /\ failure'[p].request = failure[p].request
           /\ failure'[p].task = failure[p].task
           /\ failure'[p].session = failure[p].session
           /\ failure'[p].attempts = failure[p].attempts
           /\ failure'[p].step = StepFrom(None, failure[p].session)
           /\ \A o \in Owner \ {p} : failure'[o] = failure[o]
           /\ \A r \in Run : r # failure[p].task => taskStatus'[r] = taskStatus[r]
<1>1. /\ failure[p] # None /\ failure[p].step = "task"
      /\ failure \in [Owner -> Failure \cup {None}]
  BY TypeParts DEF AbandonTask, SupervisorTyped
<1>2. failure[p] \in Failure
  BY <1>1
<1>3. failure' = [failure EXCEPT ![p].step = StepFrom(None, failure[p].session)]
  BY DEF AbandonTask
<1>4. \A o \in Owner \ {p} : failure'[o] = failure[o]
  BY <1>1, <1>3
<1>5. failure'[p] = [failure[p] EXCEPT !.step = StepFrom(None, failure[p].session)]
  BY <1>1, <1>3
<1>6. StepFrom(None, failure[p].session) \in {"session", "row"}
  BY DEF StepFrom
<1>7. failure'[p] \in Failure
  BY <1>2, <1>5, <1>6 DEF Failure
<1>8. \A r \in Run : r # failure[p].task => taskStatus'[r] = taskStatus[r]
  BY TypeParts DEF AbandonTask, RunTyped
<1> QED BY <1>1, <1>2, <1>4, <1>5, <1>7, <1>8 DEF Failure

LEMMA TypeStep == ASSUME Typed, [Next]_vars PROVE TypeOK'
<1>a. TypeOK /\ Dispatched /\ HasRequest /\ Deciding
      /\ RequestTyped /\ RunTyped /\ SchedulerTyped
      /\ SupervisorTyped /\ RestTyped
  BY TypeParts DEF Typed
<1>0. CASE UNCHANGED vars
  BY <1>0, <1>a DEF vars, Typed, TypeOK, Row, Failure, Owner
<1>1. ASSUME NEW q \in Request, NEW m \in {"agent", "research"},
             SubmitRequest(q, m)
      PROVE  TypeOK'
  BY <1>1, <1>a, NextOrder DEF SubmitRequest, Typed, TypeOK, Row, Failure,
         Owner
<1>2. ASSUME NEW q \in Request, NEW a \in {"approve", "reject"},
             DecideAgentRequest(q, a)
      PROVE  TypeOK'
  BY <1>2, <1>a DEF DecideAgentRequest, Typed, TypeOK, Row, Failure, Owner
<1>3. ASSUME NEW q \in Request, ReviseAgentRequest(q)
      PROVE  TypeOK'
  BY <1>3, <1>a DEF ReviseAgentRequest, Typed, TypeOK, Row, Failure, Owner
<1>4. ASSUME NEW q \in Request, BackoffElapses(q)
      PROVE  TypeOK'
  BY <1>4, <1>a DEF BackoffElapses, Typed, TypeOK, Row, Failure, Owner
<1>5. ASSUME NEW p \in Owner, ReadAttempts(p)
      PROVE  TypeOK'
  <2>1. failure' \in [Owner -> Failure \cup {None}]
    <3>1. failure \in [Owner -> Failure \cup {None}]
      BY <1>a, TypeParts DEF SupervisorTyped
    <3>2. failure'[p] \in Failure /\ \A o \in Owner \ {p} : failure'[o] = failure[o]
      BY <1>5, <1>a, AttemptsRead
    <3>3. failure' = [o \in Owner |-> failure'[o]]
      BY <1>5, <3>1 DEF ReadAttempts
    <3> QED BY <3>1, <3>2, <3>3
  <2> QED BY <1>5, <1>a, <2>1 DEF ReadAttempts, TypeOK, Row
<1>6. ASSUME NEW p \in Owner, AbandonTask(p)
      PROVE  TypeOK'
  <2>1. RequestTyped'
    BY <1>a, <1>6 DEF AbandonTask, StepFrom, RequestTyped, SchedulerTyped,
           SupervisorTyped
  <2>2. RunTyped'
    BY <1>a, <1>6 DEF AbandonTask, StepFrom, RunTyped
  <2>3. SchedulerTyped'
    BY <1>a, <1>6 DEF AbandonTask, StepFrom, SchedulerTyped, Row, Dispatched,
           Dispatches, RequestTyped
  <2>4. SupervisorTyped'
    BY <1>a, <1>6 DEF AbandonTask, StepFrom, SupervisorTyped, Owner, Failure,
           Dispatched, Dispatches, HasRequest, Row, SchedulerTyped, RunTyped,
           RequestTyped
  <2>5. RestTyped'
    BY <1>a, <1>6 DEF AbandonTask, StepFrom, RestTyped
  <2> QED BY <2>1, <2>2, <2>3, <2>4, <2>5, TypeParts
<1>7. ASSUME NEW p \in Owner, AbandonSession(p)
      PROVE  TypeOK'
  <2>1. RequestTyped'
    BY <1>a, <1>7 DEF AbandonSession, CancelSession, RequestTyped,
           SchedulerTyped, SupervisorTyped
  <2>2. RunTyped'
    BY <1>a, <1>7 DEF AbandonSession, CancelSession, RunTyped
  <2>3. SchedulerTyped'
    BY <1>a, <1>7 DEF AbandonSession, CancelSession, SchedulerTyped, Row,
           Dispatched, Dispatches, RequestTyped
  <2>4. SupervisorTyped'
    BY <1>a, <1>7 DEF AbandonSession, CancelSession, SupervisorTyped, Owner,
           Failure, Dispatched, Dispatches, HasRequest, Row, SchedulerTyped,
           RunTyped, RequestTyped
  <2>5. RestTyped'
    BY <1>a, <1>7 DEF AbandonSession, CancelSession, RestTyped
  <2> QED BY <2>1, <2>2, <2>3, <2>4, <2>5, TypeParts
<1>8. ASSUME NEW p \in Owner, UpdateRequest(p)
      PROVE  TypeOK'
  <2>1. RequestTyped'
    <3>1. failure[p] \in Failure
      BY <1>a, <1>8 DEF UpdateRequest, SupervisorTyped
    <3>2. failure[p].request \in Request
      BY <3>1 DEF Failure
    <3>3. CASE BuryRequest(failure[p].request)
      BY <1>a, <1>8, <3>2, <3>3 DEF UpdateRequest, BuryRequest, RequestTyped
    <3>4. ASSUME NEW delayed \in BOOLEAN,
                 RequeueRequest(failure[p].request, delayed)
          PROVE  RequestTyped'
      BY <1>a, <1>8, <3>2, <3>4 DEF UpdateRequest, RequeueRequest, RequestTyped
    <3>5. CASE UNCHANGED <<status, dead, backoff, run, task>>
      BY <1>a, <1>8, <3>5 DEF UpdateRequest, RequestTyped
    <3> QED BY <1>8, <3>3, <3>4, <3>5 DEF UpdateRequest, SettleRow
  <2>2. RunTyped'
    BY <1>a, <1>8 DEF UpdateRequest, SettleRow, Proceed, BuryRequest,
           RequeueRequest, Forget, RunTyped
  <2>3. SchedulerTyped'
    BY <1>a, <1>8 DEF UpdateRequest, SettleRow, Proceed, BuryRequest,
           RequeueRequest, Forget, SchedulerTyped, Row, Dispatched,
           Dispatches, RequestTyped
  <2>4. SupervisorTyped'
    BY <1>a, <1>8 DEF UpdateRequest, SettleRow, Proceed, BuryRequest,
           RequeueRequest, Forget, SupervisorTyped, Owner, Failure,
           Dispatched, Dispatches, HasRequest, Row, SchedulerTyped, RunTyped,
           RequestTyped
  <2>5. RestTyped'
    BY <1>a, <1>8 DEF UpdateRequest, SettleRow, Proceed, BuryRequest,
           RequeueRequest, Forget, RestTyped
  <2> QED BY <2>1, <2>2, <2>3, <2>4, <2>5, TypeParts
<1>9. CASE StartScheduler
  BY <1>9, <1>a DEF StartScheduler, Typed, TypeOK, Row, Failure, Owner
<1>10. CASE BeginTick
  BY <1>10, <1>a DEF BeginTick, Active, Typed, TypeOK, Row, Failure, Owner
<1>11. CASE ReadOrphans
  BY <1>11, <1>a DEF ReadOrphans, Orphaned, Typed, TypeOK, Row, Failure, Owner
<1>12. ASSUME NEW row \in rows, RecoverOrphan(row)
      PROVE  TypeOK'
  BY <1>12, <1>a DEF RecoverOrphan, StepFrom, Typed, TypeOK, Row, Failure,
         Owner
<1>13. ASSUME NEW all \in BOOLEAN, RecoveryDone(all)
      PROVE  TypeOK'
  BY <1>13, <1>a DEF RecoveryDone, Typed, TypeOK, Row, Failure, Owner
<1>14. ASSUME NEW q \in Request, ReadDecision(q)
      PROVE  TypeOK'
  BY <1>14, <1>a DEF ReadDecision, Decided, Typed, TypeOK, Row, Failure, Owner
<1>15. CASE NoDecision
  BY <1>15, <1>a DEF NoDecision, Typed, TypeOK, Row, Failure, Owner
<1>16. ASSUME NEW ok \in BOOLEAN, ApplyDecision(ok)
      PROVE  TypeOK'
  <2>1. RequestTyped'
    BY <1>a, <1>16 DEF ApplyDecision, ApplyPatches, CanApply, RejectPatches,
           RequestTyped, SchedulerTyped, SupervisorTyped
  <2>2. RunTyped'
    BY <1>a, <1>16 DEF ApplyDecision, ApplyPatches, CanApply, RejectPatches,
           RunTyped, Deciding, RequestTyped
  <2>3. SchedulerTyped'
    BY <1>a, <1>16 DEF ApplyDecision, ApplyPatches, CanApply, RejectPatches,
           SchedulerTyped, Deciding, Row, Dispatched, Dispatches, RequestTyped
  <2>4. SupervisorTyped'
    BY <1>a, <1>16 DEF ApplyDecision, ApplyPatches, CanApply, RejectPatches,
           SupervisorTyped, Owner, Failure, Dispatched, Dispatches,
           HasRequest, Row, SchedulerTyped, RunTyped, RequestTyped
  <2>5. RestTyped'
    BY <1>a, <1>16 DEF ApplyDecision, ApplyPatches, CanApply, RejectPatches,
           RestTyped
  <2> QED BY <2>1, <2>2, <2>3, <2>4, <2>5, TypeParts
<1>17. CASE SettleDecision
  <2>1. decision.request \in Request
    BY <1>17, <1>a DEF SettleDecision, Deciding
  <2>2. RequestTyped'
    BY <1>17, <1>a, <2>1 DEF SettleDecision, DecisionStatus, RequestTyped
  <2>3. SchedulerTyped'
    BY <1>17, <1>a DEF SettleDecision, SchedulerTyped
  <2>4. RunTyped' /\ SupervisorTyped' /\ RestTyped'
    BY <1>17, <1>a DEF SettleDecision, RunTyped, SupervisorTyped, RestTyped
  <2> QED BY <2>2, <2>3, <2>4, TypeParts
<1>18. ASSUME NEW q \in Request, ClaimAgentRequest(q)
      PROVE  TypeOK'
  BY <1>18, <1>a DEF ClaimAgentRequest, NextClaimable, Claimable, Typed,
         TypeOK, Row, Failure, Owner
<1>19. CASE NothingToClaim
  BY <1>19, <1>a DEF NothingToClaim, Typed, TypeOK, Row, Failure, Owner
<1>20. CASE BuildFails
  BY <1>20, <1>a DEF BuildFails, BeginFailure, Dispatched, Dispatches,
         HasRequest, Typed, TypeOK, Row, Failure, Owner
<1>21. ASSUME NEW r \in Run, MakeRun(r)
      PROVE  TypeOK'
  BY <1>21, <1>a DEF MakeRun, Dispatched, Dispatches, HasRequest, Typed,
         TypeOK, Row, Failure, Owner
<1>22. CASE BindRun
  BY <1>22, <1>a DEF BindRun, Dispatched, Dispatches, HasRequest, Typed,
         TypeOK, Row, Failure, Owner
<1>23. CASE Submit
  BY <1>23, <1>a DEF Submit, Dispatched, Dispatches, HasRequest, Typed,
         TypeOK, Row, Failure, Owner
<1>24. CASE SubmissionFails
  BY <1>24, <1>a DEF SubmissionFails, BeginFailure, Dispatched, Dispatches,
         HasRequest, Typed, TypeOK, Row, Failure, Owner
<1>25. CASE SubmissionAccepted
  BY <1>25, <1>a DEF SubmissionAccepted, Typed, TypeOK, Row, Failure, Owner
<1>26. ASSUME NEW r \in commands, AcceptCommand(r)
      PROVE  TypeOK'
  BY <1>26, <1>a DEF AcceptCommand, Answer, Serving, Dispatched, Dispatches,
         HasRequest, Typed, TypeOK, Row, Failure, Owner
<1>27. CASE WorkerDies
  BY <1>27, <1>a DEF WorkerDies, LoseWorker, Serving, Active, Typed, TypeOK,
         Row, Failure, Owner
<1>28. ASSUME NEW r \in Run, PrepareRun(r)
      PROVE  TypeOK'
  BY <1>28, <1>a DEF PrepareRun, Serving, Typed, TypeOK, Row, Failure, Owner
<1>29. CASE BindTask
  <2>1. RequestTyped'
    BY <1>a, <1>29 DEF BindTask, IsCurrentRun, RequestTyped, SchedulerTyped,
           SupervisorTyped
  <2>2. RunTyped'
    BY <1>a, <1>29 DEF BindTask, IsCurrentRun, RunTyped
  <2>3. SchedulerTyped'
    BY <1>a, <1>29 DEF BindTask, IsCurrentRun, SchedulerTyped, Row,
           Dispatched, Dispatches, RequestTyped
  <2>4. SupervisorTyped'
    BY <1>a, <1>29 DEF BindTask, IsCurrentRun, SupervisorTyped, Owner,
           Failure, Dispatched, Dispatches, HasRequest, Row, SchedulerTyped,
           RunTyped, RequestTyped
  <2>5. RestTyped'
    BY <1>a, <1>29 DEF BindTask, IsCurrentRun, RestTyped
  <2> QED BY <2>1, <2>2, <2>3, <2>4, <2>5, TypeParts
<1>30. CASE RefuseBinding
  BY <1>30, <1>a DEF RefuseBinding, LoseWorker, Active, Typed, TypeOK, Row,
         Failure, Owner
<1>31. ASSUME NEW r \in Run, NEW o \in {"proposal", "no_change"},
              FinalizeRun(r, o)
      PROVE  TypeOK'
  BY <1>31, <1>a DEF FinalizeRun, Serving, Typed, TypeOK, Row, Failure, Owner
<1>32. ASSUME NEW r \in Run, SettleProposal(r)
      PROVE  TypeOK'
  <2>1. RequestTyped'
    BY <1>a, <1>32 DEF SettleProposal, SettleRequest, ResultArrives,
           ResultStatus, Forget, Serving, IsCurrentRun, Active, RequestTyped,
           SchedulerTyped, SupervisorTyped
  <2>2. RunTyped'
    BY <1>a, <1>32 DEF SettleProposal, SettleRequest, ResultArrives,
           ResultStatus, Forget, Serving, IsCurrentRun, Active, RunTyped
  <2>3. SchedulerTyped'
    BY <1>a, <1>32 DEF SettleProposal, SettleRequest, ResultArrives,
           ResultStatus, Forget, Serving, IsCurrentRun, Active,
           SchedulerTyped, Row, Dispatched, Dispatches, RequestTyped
  <2>4. SupervisorTyped'
    BY <1>a, <1>32 DEF SettleProposal, SettleRequest, ResultArrives,
           ResultStatus, Forget, Serving, IsCurrentRun, Active,
           SupervisorTyped, Owner, Failure, Dispatched, Dispatches,
           HasRequest, Row, SchedulerTyped, RunTyped, RequestTyped
  <2>5. RestTyped'
    BY <1>a, <1>32 DEF SettleProposal, SettleRequest, ResultArrives,
           ResultStatus, Forget, Serving, IsCurrentRun, Active, RestTyped
  <2> QED BY <2>1, <2>2, <2>3, <2>4, <2>5, TypeParts
<1>33. ASSUME NEW r \in Run, SettleResearch(r)
      PROVE  TypeOK'
  <2>1. RequestTyped'
    BY <1>a, <1>33 DEF SettleResearch, SettleRequest, ResultArrives,
           ResultStatus, Forget, Serving, IsCurrentRun, Active, RequestTyped,
           SchedulerTyped, SupervisorTyped
  <2>2. RunTyped'
    BY <1>a, <1>33 DEF SettleResearch, SettleRequest, ResultArrives,
           ResultStatus, Forget, Serving, IsCurrentRun, Active, RunTyped
  <2>3. SchedulerTyped'
    BY <1>a, <1>33 DEF SettleResearch, SettleRequest, ResultArrives,
           ResultStatus, Forget, Serving, IsCurrentRun, Active,
           SchedulerTyped, Row, Dispatched, Dispatches, RequestTyped
  <2>4. SupervisorTyped'
    BY <1>a, <1>33 DEF SettleResearch, SettleRequest, ResultArrives,
           ResultStatus, Forget, Serving, IsCurrentRun, Active,
           SupervisorTyped, Owner, Failure, Dispatched, Dispatches,
           HasRequest, Row, SchedulerTyped, RunTyped, RequestTyped
  <2>5. RestTyped'
    BY <1>a, <1>33 DEF SettleResearch, SettleRequest, ResultArrives,
           ResultStatus, Forget, Serving, IsCurrentRun, Active, RestTyped
  <2> QED BY <2>1, <2>2, <2>3, <2>4, <2>5, TypeParts
<1>34. ASSUME NEW r \in Run, RefuseResult(r)
      PROVE  TypeOK'
  BY <1>34, <1>a DEF RefuseResult, LoseWorker, ResultArrives, Serving, Active,
         Typed, TypeOK, Row, Failure, Owner
<1>35. ASSUME NEW r \in Run, DropStaleTerminal(r)
      PROVE  TypeOK'
  BY <1>35, <1>a DEF DropStaleTerminal, Forget, Serving, IsCurrentRun, Typed,
         TypeOK, Row, Failure, Owner
<1>36. ASSUME NEW r \in Run, NEW retryable \in BOOLEAN,
              CheckError(r, retryable)
      PROVE  TypeOK'
  BY <1>36, <1>a DEF CheckError, BeginFailure, IsCurrentRun, Active,
         Dispatched, Dispatches, HasRequest, Typed, TypeOK, Row, Failure,
         Owner
<1>37. ASSUME NEW r \in Run, SkipExitedRun(r)
      PROVE  TypeOK'
  BY <1>37, <1>a DEF SkipExitedRun, Typed, TypeOK, Row, Failure, Owner
<1>38. CASE RestartWorker
  <2>1. RequestTyped'
    BY <1>a, <1>38 DEF RestartWorker, Active, RequestTyped, SchedulerTyped,
           SupervisorTyped
  <2>2. RunTyped'
    BY <1>a, <1>38 DEF RestartWorker, Active, RunTyped
  <2>3. SchedulerTyped'
    BY <1>a, <1>38 DEF RestartWorker, Active, SchedulerTyped, Row, Dispatched,
           Dispatches, RequestTyped
  <2>4. SupervisorTyped'
    BY <1>a, <1>38 DEF RestartWorker, Active, SupervisorTyped, Owner, Failure,
           Dispatched, Dispatches, HasRequest, Row, SchedulerTyped, RunTyped,
           RequestTyped
  <2>5. RestTyped'
    BY <1>a, <1>38 DEF RestartWorker, Active, RestTyped
  <2> QED BY <2>1, <2>2, <2>3, <2>4, <2>5, TypeParts
<1>39. ASSUME NEW r \in Run \cup {None}, ShowProposal(r)
      PROVE  TypeOK'
  BY <1>39, <1>a DEF ShowProposal, UserOnly, Typed, TypeOK, Row, Failure,
         Owner
<1>40. CASE AcceptProposal
  BY <1>40, <1>a DEF AcceptProposal, ApplyPatches, CanApply, UserOnly, Typed,
         TypeOK, Row, Failure, Owner
<1>41. CASE AcceptFails
  BY <1>41, <1>a DEF AcceptFails, UserOnly, Typed, TypeOK, Row, Failure, Owner
<1>42. CASE RejectProposal
  BY <1>42, <1>a DEF RejectProposal, RejectPatches, UserOnly, Typed, TypeOK,
         Row, Failure, Owner
<1>43. CASE StartInterface
  BY <1>43, <1>a DEF StartInterface, UserOnly, Typed, TypeOK, Row, Failure,
         Owner
<1>44. CASE CleanupOrphanAgentTasks
  BY <1>44, <1>a DEF CleanupOrphanAgentTasks, OrphanProposals, UserOnly,
         Typed, TypeOK, Row, Failure, Owner
<1>45. CASE MarkInterruptedAgentTasks
  BY <1>45, <1>a DEF MarkInterruptedAgentTasks, UserOnly, Typed, TypeOK, Row,
         Failure, Owner
<1>46. CASE AbortScheduler
  <2>1. RequestTyped'
    BY <1>a, <1>46 DEF AbortScheduler, ResetScheduler, RequestTyped,
           SchedulerTyped, SupervisorTyped
  <2>2. RunTyped'
    BY <1>a, <1>46 DEF AbortScheduler, ResetScheduler, RunTyped
  <2>3. SchedulerTyped'
    BY <1>a, <1>46 DEF AbortScheduler, ResetScheduler, SchedulerTyped, Row,
           Dispatched, Dispatches, RequestTyped
  <2>4. SupervisorTyped'
    BY <1>a, <1>46 DEF AbortScheduler, ResetScheduler, SupervisorTyped, Owner,
           Failure, Dispatched, Dispatches, HasRequest, Row, SchedulerTyped,
           RunTyped, RequestTyped
  <2>5. RestTyped'
    BY <1>a, <1>46 DEF AbortScheduler, ResetScheduler, RestTyped
  <2> QED BY <2>1, <2>2, <2>3, <2>4, <2>5, TypeParts
<1>47. CASE Stop
  <2>1. RequestTyped'
    BY <1>a, <1>47 DEF Stop, ResetScheduler, RequestTyped, SchedulerTyped,
           SupervisorTyped
  <2>2. RunTyped'
    BY <1>a, <1>47 DEF Stop, ResetScheduler, RunTyped
  <2>3. SchedulerTyped'
    BY <1>a, <1>47 DEF Stop, ResetScheduler, SchedulerTyped, Row, Dispatched,
           Dispatches, RequestTyped
  <2>4. SupervisorTyped'
    BY <1>a, <1>47 DEF Stop, ResetScheduler, SupervisorTyped, Owner, Failure,
           Dispatched, Dispatches, HasRequest, Row, SchedulerTyped, RunTyped,
           RequestTyped
  <2>5. RestTyped'
    BY <1>a, <1>47 DEF Stop, ResetScheduler, RestTyped
  <2> QED BY <2>1, <2>2, <2>3, <2>4, <2>5, TypeParts
<1> QED BY <1>0, <1>1, <1>2, <1>3, <1>4, <1>5, <1>6, <1>7, <1>8, <1>9, <1>10,
       <1>11, <1>12, <1>13, <1>14, <1>15, <1>16, <1>17, <1>18, <1>19, <1>20,
       <1>21, <1>22, <1>23, <1>24, <1>25, <1>26, <1>27, <1>28, <1>29, <1>30,
       <1>31, <1>32, <1>33, <1>34, <1>35, <1>36, <1>37, <1>38, <1>39, <1>40,
       <1>41, <1>42, <1>43, <1>44, <1>45, <1>46, <1>47
    DEF Next, SchedulerStep, FailureStep, SupervisorStep, RunStep,
           InterfaceStep, Owner
-----------------------------------------------------------------------------
(* What holds whatever is aborted.                                         *)

\* Nobody but the scheduler writes what it has in hand, and no run is made twice.
LEMMA DispatchedStep ==
    ASSUME Typed, TypeOK', [Next]_vars
    PROVE  Dispatched'
<1>a. TypeOK /\ Dispatched
  BY DEF Typed
<1>1. CASE UNCHANGED vars
  BY <1>a, <1>1 DEF vars, Dispatched, Dispatches
<1>2. ASSUME NEW p \in Owner, UpdateRequest(p)
      PROVE  Dispatched'
  BY <1>a, <1>2 DEF UpdateRequest, SettleRow, Proceed, BuryRequest,
         RequeueRequest, Forget, Dispatched, Dispatches
<1>3. CASE StartScheduler
  BY <1>a, <1>3 DEF StartScheduler, Dispatched, Dispatches
<1>4. CASE BeginTick
  BY <1>a, <1>4 DEF BeginTick, Active, Dispatched, Dispatches
<1>5. CASE ReadOrphans
  BY <1>a, <1>5 DEF ReadOrphans, Orphaned, Dispatched, Dispatches
<1>6. ASSUME NEW all \in BOOLEAN, RecoveryDone(all)
      PROVE  Dispatched'
  BY <1>a, <1>6 DEF RecoveryDone, Dispatched, Dispatches
<1>7. ASSUME NEW q \in Request, ReadDecision(q)
      PROVE  Dispatched'
  BY <1>a, <1>7 DEF ReadDecision, Decided, Dispatched, Dispatches
<1>8. CASE NoDecision
  BY <1>a, <1>8 DEF NoDecision, Dispatched, Dispatches
<1>9. ASSUME NEW ok \in BOOLEAN, ApplyDecision(ok)
      PROVE  Dispatched'
  BY <1>a, <1>9 DEF ApplyDecision, ApplyPatches, CanApply, RejectPatches,
         Dispatched, Dispatches
<1>10. CASE SettleDecision
  BY <1>a, <1>10 DEF SettleDecision, DecisionStatus, Dispatched, Dispatches
<1>11. ASSUME NEW q \in Request, ClaimAgentRequest(q)
      PROVE  Dispatched'
  BY <1>a, <1>11 DEF ClaimAgentRequest, NextClaimable, Claimable, Dispatched,
         Dispatches, TypeOK
<1>12. CASE NothingToClaim
  BY <1>a, <1>12 DEF NothingToClaim, Dispatched, Dispatches
<1>13. CASE BuildFails
  BY <1>a, <1>13 DEF BuildFails, BeginFailure, Dispatched, Dispatches
<1>14. ASSUME NEW r \in Run, MakeRun(r)
      PROVE  Dispatched'
  BY <1>a, <1>14 DEF MakeRun, Dispatched, Dispatches, TypeOK
<1>15. CASE BindRun
  BY <1>a, <1>15 DEF BindRun, Dispatched, Dispatches
<1>16. CASE Submit
  BY <1>a, <1>16 DEF Submit, Dispatched, Dispatches
<1>17. CASE SubmissionFails
  BY <1>a, <1>17 DEF SubmissionFails, BeginFailure, Dispatched, Dispatches
<1>18. CASE SubmissionAccepted
  BY <1>a, <1>18 DEF SubmissionAccepted, Dispatched, Dispatches
<1>19. CASE AbortScheduler
  BY <1>a, <1>19 DEF AbortScheduler, ResetScheduler, Dispatched, Dispatches
<1>20. CASE Stop
  BY <1>a, <1>20 DEF Stop, ResetScheduler, Dispatched, Dispatches
<1>21. ASSUME NEW q \in Request, NEW m \in {"agent", "research"},
              SubmitRequest(q, m)
      PROVE  Dispatched'
  BY <1>a, <1>21 DEF SubmitRequest, Dispatched, Dispatches
<1>22. ASSUME NEW q \in Request, NEW a \in {"approve", "reject"},
              DecideAgentRequest(q, a)
      PROVE  Dispatched'
  BY <1>a, <1>22 DEF DecideAgentRequest, Dispatched, Dispatches
<1>23. ASSUME NEW q \in Request,
             ReviseAgentRequest(q) \/ BackoffElapses(q)
      PROVE  Dispatched'
  BY <1>a, <1>23 DEF ReviseAgentRequest, BackoffElapses, Dispatched,
         Dispatches
<1>24. ASSUME NEW p \in Owner,
             ReadAttempts(p) \/ AbandonTask(p) \/
             AbandonSession(p)
      PROVE  Dispatched'
  BY <1>a, <1>24 DEF ReadAttempts, AbandonTask, AbandonSession, CancelSession,
         Dispatched, Dispatches
<1>25. ASSUME NEW row \in rows, RecoverOrphan(row)
      PROVE  Dispatched'
  BY <1>a, <1>25 DEF RecoverOrphan, Dispatched, Dispatches
<1>26. CASE Accepted \/ WorkerDies \/ BindTask \/ RefuseBinding \/
           RestartWorker \/ AcceptProposal \/ AcceptFails \/ RejectProposal
  BY <1>a, <1>26 DEF Accepted, AcceptCommand, Answer, WorkerDies, LoseWorker,
         BindTask, RefuseBinding, RestartWorker, AcceptProposal, UserOnly, ApplyPatches,
         AcceptFails, RejectProposal, RejectPatches, Dispatched, Dispatches
<1>27. CASE StartInterface \/ CleanupOrphanAgentTasks \/
           MarkInterruptedAgentTasks
  BY <1>a, <1>27 DEF StartInterface, UserOnly, CleanupOrphanAgentTasks,
         MarkInterruptedAgentTasks, Dispatched, Dispatches
<1>28. ASSUME NEW r \in Run,
             PrepareRun(r) \/ SettleProposal(r) \/
             SettleResearch(r) \/ RefuseResult(r) \/
             DropStaleTerminal(r) \/ SkipExitedRun(r)
      PROVE  Dispatched'
  BY <1>a, <1>28 DEF PrepareRun, SettleProposal, SettleRequest, Forget,
         SettleResearch, RefuseResult, LoseWorker, DropStaleTerminal,
         SkipExitedRun, Dispatched, Dispatches
<1>29. ASSUME NEW r \in Run, NEW o \in {"proposal", "no_change"},
              FinalizeRun(r, o)
      PROVE  Dispatched'
  BY <1>a, <1>29 DEF FinalizeRun, Dispatched, Dispatches
<1>30. ASSUME NEW r \in Run, NEW retryable \in BOOLEAN,
              CheckError(r, retryable)
      PROVE  Dispatched'
  BY <1>a, <1>30 DEF CheckError, BeginFailure, Dispatched, Dispatches
<1>31. ASSUME NEW r \in Run \cup {None}, ShowProposal(r)
      PROVE  Dispatched'
  BY <1>a, <1>31 DEF ShowProposal, UserOnly, Dispatched, Dispatches
<1> QED BY <1>1, <1>2, <1>3, <1>4, <1>5, <1>6, <1>7, <1>8, <1>9, <1>10, <1>11,
       <1>12, <1>13, <1>14, <1>15, <1>16, <1>17, <1>18, <1>19, <1>20, <1>21,
       <1>22, <1>23, <1>24, <1>25, <1>26, <1>27, <1>28, <1>29, <1>30, <1>31
    DEF Next, SchedulerStep, FailureStep, SupervisorStep, RunStep,
           InterfaceStep, Owner, Accepted

\* A run reaches the supervisor through the command of the scheduler that made it.
LEMMA HasRequestStep ==
    ASSUME Typed, TypeOK', [Next]_vars
    PROVE  HasRequest'
<1>a. TypeOK /\ Dispatched /\ HasRequest
  BY DEF Typed
<1>1. CASE UNCHANGED vars
  BY <1>a, <1>1 DEF vars, HasRequest, Active
<1>2. ASSUME NEW p \in Owner, UpdateRequest(p)
      PROVE  HasRequest'
  BY <1>a, <1>2 DEF UpdateRequest, SettleRow, Proceed, BuryRequest,
         RequeueRequest, Forget, HasRequest, Active, TypeOK, Dispatched,
         Dispatches
<1>3. ASSUME NEW r \in Run, MakeRun(r)
      PROVE  HasRequest'
  BY <1>a, <1>3 DEF MakeRun, HasRequest, Active, TypeOK, Dispatched,
         Dispatches
<1>4. CASE Submit
  BY <1>a, <1>4 DEF Submit, HasRequest, Active, TypeOK, Dispatched, Dispatches
<1>5. ASSUME NEW r \in commands, AcceptCommand(r)
      PROVE  HasRequest'
  BY <1>a, <1>5 DEF AcceptCommand, Answer, Serving, HasRequest, Active,
         TypeOK, Dispatched, Dispatches
<1>6. CASE WorkerDies
  BY <1>a, <1>6 DEF WorkerDies, LoseWorker, Serving, Active, HasRequest,
         TypeOK, Dispatched, Dispatches
<1>7. CASE BindTask
  BY <1>a, <1>7 DEF BindTask, IsCurrentRun, HasRequest, Active, TypeOK,
         Dispatched, Dispatches
<1>8. CASE RefuseBinding
  BY <1>a, <1>8 DEF RefuseBinding, LoseWorker, Active, HasRequest, TypeOK,
         Dispatched, Dispatches
<1>9. ASSUME NEW r \in Run, NEW o \in {"proposal", "no_change"},
             FinalizeRun(r, o)
      PROVE  HasRequest'
  BY <1>a, <1>9 DEF FinalizeRun, Serving, HasRequest, Active, TypeOK,
         Dispatched, Dispatches
<1>10. ASSUME NEW r \in Run, SettleProposal(r)
      PROVE  HasRequest'
  BY <1>a, <1>10 DEF SettleProposal, SettleRequest, ResultArrives,
         ResultStatus, Forget, Serving, IsCurrentRun, Active, HasRequest,
         TypeOK, Dispatched, Dispatches
<1>11. ASSUME NEW r \in Run, SettleResearch(r)
      PROVE  HasRequest'
  BY <1>a, <1>11 DEF SettleResearch, SettleRequest, ResultArrives,
         ResultStatus, Forget, Serving, IsCurrentRun, Active, HasRequest,
         TypeOK, Dispatched, Dispatches
<1>12. ASSUME NEW r \in Run, RefuseResult(r)
      PROVE  HasRequest'
  BY <1>a, <1>12 DEF RefuseResult, LoseWorker, ResultArrives, Serving, Active,
         HasRequest, TypeOK, Dispatched, Dispatches
<1>13. ASSUME NEW r \in Run, DropStaleTerminal(r)
      PROVE  HasRequest'
  BY <1>a, <1>13 DEF DropStaleTerminal, Forget, Serving, IsCurrentRun,
         HasRequest, Active, TypeOK, Dispatched, Dispatches
<1>14. ASSUME NEW r \in Run, SkipExitedRun(r)
      PROVE  HasRequest'
  BY <1>a, <1>14 DEF SkipExitedRun, HasRequest, Active
<1>15. CASE RestartWorker
  BY <1>a, <1>15 DEF RestartWorker, Active, HasRequest, TypeOK, Dispatched,
         Dispatches
<1>16. CASE Stop
  BY <1>a, <1>16 DEF Stop, ResetScheduler, HasRequest, Active, TypeOK,
         Dispatched, Dispatches
<1>17. ASSUME NEW q \in Request, NEW m \in {"agent", "research"},
              SubmitRequest(q, m)
      PROVE  HasRequest'
  BY <1>a, <1>17 DEF SubmitRequest, HasRequest, Active
<1>18. ASSUME NEW q \in Request, NEW a \in {"approve", "reject"},
              DecideAgentRequest(q, a)
      PROVE  HasRequest'
  BY <1>a, <1>18 DEF DecideAgentRequest, HasRequest, Active
<1>19. ASSUME NEW q \in Request,
             ReviseAgentRequest(q) \/ BackoffElapses(q) \/
             ReadDecision(q) \/ ClaimAgentRequest(q)
      PROVE  HasRequest'
  BY <1>a, <1>19 DEF ReviseAgentRequest, BackoffElapses, ReadDecision,
         ClaimAgentRequest, HasRequest, Active
<1>20. ASSUME NEW p \in Owner,
             ReadAttempts(p) \/ AbandonTask(p) \/
             AbandonSession(p)
      PROVE  HasRequest'
  BY <1>a, <1>20 DEF ReadAttempts, AbandonTask, AbandonSession, CancelSession,
         HasRequest, Active
<1>21. CASE StartScheduler \/ BeginTick \/ ReadOrphans \/ NoDecision \/
           SettleDecision \/ NothingToClaim \/ BuildFails \/ BindRun
  BY <1>a, <1>21 DEF StartScheduler, BeginTick, ReadOrphans, NoDecision,
         SettleDecision, NothingToClaim, BuildFails, BeginFailure, BindRun,
         HasRequest, Active
<1>22. CASE SubmissionFails \/ SubmissionAccepted \/ AcceptProposal \/
           AcceptFails \/ RejectProposal \/ StartInterface \/
           CleanupOrphanAgentTasks \/ MarkInterruptedAgentTasks
  BY <1>a, <1>22 DEF SubmissionFails, BeginFailure, SubmissionAccepted,
         AcceptProposal, UserOnly, ApplyPatches, AcceptFails, RejectProposal,
         RejectPatches, StartInterface, CleanupOrphanAgentTasks,
         MarkInterruptedAgentTasks, HasRequest, Active
<1>23. CASE AbortScheduler
  BY <1>a, <1>23 DEF AbortScheduler, ResetScheduler, HasRequest, Active
<1>24. ASSUME NEW row \in rows, RecoverOrphan(row)
      PROVE  HasRequest'
  BY <1>a, <1>24 DEF RecoverOrphan, HasRequest, Active
<1>25. ASSUME NEW all \in BOOLEAN, RecoveryDone(all)
      PROVE  HasRequest'
  BY <1>a, <1>25 DEF RecoveryDone, HasRequest, Active
<1>26. ASSUME NEW ok \in BOOLEAN, ApplyDecision(ok)
      PROVE  HasRequest'
  BY <1>a, <1>26 DEF ApplyDecision, ApplyPatches, RejectPatches, HasRequest,
         Active
<1>27. ASSUME NEW r \in Run, PrepareRun(r)
      PROVE  HasRequest'
  BY <1>a, <1>27 DEF PrepareRun, HasRequest, Active
<1>28. ASSUME NEW r \in Run, NEW retryable \in BOOLEAN,
              CheckError(r, retryable)
      PROVE  HasRequest'
  BY <1>a, <1>28 DEF CheckError, BeginFailure, HasRequest, Active
<1>29. ASSUME NEW r \in Run \cup {None}, ShowProposal(r)
      PROVE  HasRequest'
  BY <1>a, <1>29 DEF ShowProposal, UserOnly, HasRequest, Active
<1> QED BY <1>1, <1>2, <1>3, <1>4, <1>5, <1>6, <1>7, <1>8, <1>9, <1>10, <1>11,
       <1>12, <1>13, <1>14, <1>15, <1>16, <1>17, <1>18, <1>19, <1>20, <1>21,
       <1>22, <1>23, <1>24, <1>25, <1>26, <1>27, <1>28, <1>29
    DEF Next, SchedulerStep, FailureStep, SupervisorStep, RunStep,
           InterfaceStep, Owner

\* A failure procedure is about a request.
LEMMA FailuresAreOfRequests ==
    ASSUME TypeOK
    PROVE  /\ failure["supervisor"] # None =>
                 failure["supervisor"].request \in Request
           /\ failure["scheduler"] # None =>
                 failure["scheduler"].request \in Request
<1>1. ASSUME NEW p \in Owner, failure[p] # None
      PROVE  failure[p].request \in Request
  <2>1. failure[p] \in Failure
    BY <1>1, TypeParts DEF SupervisorTyped
  <2> QED BY <2>1 DEF Failure
<1> QED BY <1>1 DEF Owner

\* The last statement of a failure settles the row of its request only, and
\* the supervisor forgets at most the run of that request.
LEMMA RequestSettled ==
    ASSUME TypeOK, NEW p \in Owner, UpdateRequest(p)
    PROVE  /\ failure[p] # None /\ failure'[p] = None
           /\ \A o \in Owner \ {p} : failure'[o] = failure[o]
           /\ \A q \in Request : q # failure[p].request =>
                 status'[q] = status[q] /\ run'[q] = run[q] /\ task'[q] = task[q]
           /\ \A r \in Run :
                 \/ stage'[r] = stage[r]
                 \/ p = "supervisor" /\ r = failure[p].task /\ stage'[r] = "none"
<1>1. failure[p] # None /\ failure \in [Owner -> Failure \cup {None}]
  BY TypeParts DEF UpdateRequest, SupervisorTyped
<1>2. failure' = [failure EXCEPT ![p] = None]
  BY DEF UpdateRequest
<1>3. \A q \in Request : q # failure[p].request =>
          status'[q] = status[q] /\ run'[q] = run[q] /\ task'[q] = task[q]
  <2>1. /\ status \in [Request -> {"absent", "queued", "running",
             "awaiting_review", "approved", "rejected", "completed", "failed"}]
        /\ run \in [Request -> Run \cup {None}]
        /\ task \in [Request -> Run \cup {None}]
    BY TypeParts DEF RequestTyped
  <2>2. CASE BuryRequest(failure[p].request)
    BY <2>1, <2>2 DEF BuryRequest
  <2>3. ASSUME NEW b \in BOOLEAN, RequeueRequest(failure[p].request, b)
        PROVE  \A q \in Request : q # failure[p].request =>
                   status'[q] = status[q] /\ run'[q] = run[q] /\ task'[q] = task[q]
    BY <2>1, <2>3 DEF RequeueRequest
  <2>4. CASE UNCHANGED <<status, run, task>>
    BY <2>4
  <2> QED BY <2>2, <2>3, <2>4 DEF UpdateRequest, SettleRow
<1>4. \A r \in Run :
          \/ stage'[r] = stage[r]
          \/ p = "supervisor" /\ r = failure[p].task /\ stage'[r] = "none"
  BY TypeParts DEF UpdateRequest, Proceed, Forget, SupervisorTyped
<1> QED BY <1>1, <1>2, <1>3, <1>4

\* That row is then of a request that is queued again without a run, is given
\* up, or was not running.
LEMMA SettledRow ==
    ASSUME TypeOK, NEW p \in Owner, UpdateRequest(p), NEW q \in Request,
           q = failure[p].request
    PROVE  \/ status'[q] = "failed" /\ run'[q] = run[q]
           \/ status'[q] = "queued" /\ run'[q] = None
           \/ status[q] # "running" /\ status'[q] = status[q] /\ run'[q] = run[q]
<1>1. status \in [Request -> {"absent", "queued", "running",
             "awaiting_review", "approved", "rejected", "completed", "failed"}]
  BY TypeParts DEF RequestTyped
<1>2. run \in [Request -> Run \cup {None}]
  BY TypeParts DEF RequestTyped
<1>3. CASE BuryRequest(q)
  BY <1>1, <1>2, <1>3 DEF BuryRequest
<1>4. ASSUME NEW b \in BOOLEAN, RequeueRequest(q, b)
      PROVE  status'[q] = "queued" /\ run'[q] = None
  BY <1>1, <1>2, <1>4 DEF RequeueRequest
<1>5. CASE status[q] # "running" /\ UNCHANGED <<status, run>>
  BY <1>5
<1> QED BY <1>3, <1>4, <1>5 DEF UpdateRequest, SettleRow

\* The supervisor is never in the middle of the failure of a request whose run
\* it does not know.
LEMMA FailuresAreSupervised ==
    ASSUME TypeOK, SupervisorFailureInv, failure["supervisor"] # None,
           NEW q, Unsupervised(q)
    PROVE  q # failure["supervisor"].request
BY DEF SupervisorFailureInv, FailureFits, Unsupervised

\* A revision touches the rows of its request only.
LEMMA Revised ==
    ASSUME TypeOK, NEW q \in Request, ReviseAgentRequest(q)
    PROVE  /\ status'[q] = "queued" /\ task'[q] = None
           /\ \A p \in Request \ {q} :
                 status'[p] = status[p] /\ task'[p] = task[p]
BY DEF TypeOK, ReviseAgentRequest

\* From DecideAgentRequest to SettleDecision only the scheduler writes the row.
LEMMA DecidingStep ==
    ASSUME Typed, TypeOK', [Next]_vars
    PROVE  Deciding'
<1>a. TypeOK /\ Dispatched /\ HasRequest /\ Deciding
  BY DEF Typed
<1>1. CASE UNCHANGED vars
  BY <1>a, <1>1 DEF vars, Deciding
<1>2. ASSUME NEW q \in Request, NEW m \in {"agent", "research"},
             SubmitRequest(q, m)
      PROVE  Deciding'
  BY <1>a, <1>2 DEF SubmitRequest, Stored, Deciding, TypeOK, Owner, Failure
<1>3. ASSUME NEW q \in Request, NEW a \in {"approve", "reject"},
             DecideAgentRequest(q, a)
      PROVE  Deciding'
  BY <1>a, <1>3 DEF DecideAgentRequest, Deciding, TypeOK, Owner, Failure
<1>4. ASSUME NEW q \in Request, ReviseAgentRequest(q)
      PROVE  Deciding'
  <2>1. /\ status[q] = "awaiting_review"
        /\ \A p \in Request \ {q} : status'[p] = status[p] /\ task'[p] = task[p]
        /\ UNCHANGED <<pc, decision, written, failure>>
    BY <1>a, <1>4, Revised DEF ReviseAgentRequest
  <2>2. failure["supervisor"] # None =>
            failure["supervisor"].request \in Request
    BY <1>a, FailuresAreOfRequests
  <2> QED BY <1>a, <2>1, <2>2 DEF Deciding
<1>5. ASSUME NEW p \in Owner, ReadAttempts(p)
      PROVE  Deciding'
  <2>1. UNCHANGED <<pc, decision, written, status, task>>
    BY <1>5 DEF ReadAttempts, requestVars, runVars, schedulerVars,
                channelVars, supervisorVars
  <2>2. /\ failure'["scheduler"] # None => failure["scheduler"] # None
        /\ failure'["supervisor"] # None =>
              failure["supervisor"] # None
              /\ failure'["supervisor"].request = failure["supervisor"].request
    BY <1>a, <1>5, AttemptsRead DEF Owner
  <2> QED BY <1>a, <2>1, <2>2 DEF Deciding
<1>6. ASSUME NEW p \in Owner, AbandonTask(p)
      PROVE  Deciding'
  BY <1>a, <1>6 DEF AbandonTask, StepFrom, Deciding, TypeOK, Owner, Failure
<1>7. ASSUME NEW p \in Owner, AbandonSession(p)
      PROVE  Deciding'
  BY <1>a, <1>7 DEF AbandonSession, CancelSession, Deciding, TypeOK, Owner,
         Failure
<1>8. ASSUME NEW p \in Owner, UpdateRequest(p)
      PROVE  Deciding'
  BY <1>a, <1>8 DEF UpdateRequest, SettleRow, Proceed, BuryRequest,
         RequeueRequest, Forget, Deciding, TypeOK, Owner, Failure
<1>9. CASE StartScheduler
  BY <1>a, <1>9 DEF StartScheduler, Deciding
<1>10. CASE BeginTick
  BY <1>a, <1>10 DEF BeginTick, Active, Deciding
<1>11. CASE ReadOrphans
  BY <1>a, <1>11 DEF ReadOrphans, Orphaned, Deciding
<1>12. ASSUME NEW row \in rows, RecoverOrphan(row)
      PROVE  Deciding'
  BY <1>a, <1>12 DEF RecoverOrphan, StepFrom, Deciding, TypeOK, Owner, Failure
<1>13. ASSUME NEW all \in BOOLEAN, RecoveryDone(all)
      PROVE  Deciding'
  BY <1>a, <1>13 DEF RecoveryDone, Deciding
<1>14. ASSUME NEW q \in Request, ReadDecision(q)
      PROVE  Deciding'
  BY <1>a, <1>14 DEF ReadDecision, Decided, Deciding, TypeOK, Owner, Failure
<1>15. CASE NoDecision
  BY <1>a, <1>15 DEF NoDecision, Deciding
<1>16. ASSUME NEW ok \in BOOLEAN, ApplyDecision(ok)
      PROVE  Deciding'
  BY <1>a, <1>16 DEF ApplyDecision, ApplyPatches, CanApply, RejectPatches,
         Deciding, TypeOK, Owner, Failure
<1>17. CASE SettleDecision
  BY <1>a, <1>17 DEF SettleDecision, DecisionStatus, Deciding, TypeOK, Owner,
         Failure
<1>18. ASSUME NEW q \in Request, ClaimAgentRequest(q)
      PROVE  Deciding'
  BY <1>a, <1>18 DEF ClaimAgentRequest, NextClaimable, Claimable, Deciding,
         TypeOK, Owner, Failure
<1>19. CASE NothingToClaim
  BY <1>a, <1>19 DEF NothingToClaim, Deciding
<1>20. CASE BuildFails
  BY <1>a, <1>20 DEF BuildFails, BeginFailure, Deciding, TypeOK, Owner,
         Failure
<1>21. ASSUME NEW r \in Run, MakeRun(r)
      PROVE  Deciding'
  BY <1>a, <1>21 DEF MakeRun, Deciding
<1>22. CASE BindRun
  BY <1>a, <1>22 DEF BindRun, Deciding
<1>23. CASE Submit
  BY <1>a, <1>23 DEF Submit, Deciding
<1>24. CASE SubmissionFails
  BY <1>a, <1>24 DEF SubmissionFails, BeginFailure, Deciding, TypeOK, Owner,
         Failure
<1>25. CASE SubmissionAccepted
  BY <1>a, <1>25 DEF SubmissionAccepted, Deciding
<1>26. CASE BindTask
  BY <1>a, <1>26 DEF BindTask, IsCurrentRun, Deciding, TypeOK, Owner, Failure
<1>27. ASSUME NEW r \in Run, SettleProposal(r)
      PROVE  Deciding'
  BY <1>a, <1>27 DEF SettleProposal, SettleRequest, ResultArrives,
         ResultStatus, Forget, Serving, IsCurrentRun, Active, Deciding,
         TypeOK, Owner, Failure
<1>28. ASSUME NEW r \in Run, SettleResearch(r)
      PROVE  Deciding'
  BY <1>a, <1>28 DEF SettleResearch, SettleRequest, ResultArrives,
         ResultStatus, Forget, Serving, IsCurrentRun, Active, Deciding,
         TypeOK, Owner, Failure
<1>29. ASSUME NEW r \in Run, NEW retryable \in BOOLEAN,
              CheckError(r, retryable)
      PROVE  Deciding'
  BY <1>a, <1>29 DEF CheckError, BeginFailure, IsCurrentRun, Deciding, TypeOK,
         Owner, Failure
<1>30. CASE AcceptProposal
  BY <1>a, <1>30 DEF AcceptProposal, ApplyPatches, CanApply, UserOnly,
         Deciding, TypeOK, Owner, Failure
<1>31. CASE AbortScheduler
  BY <1>a, <1>31 DEF AbortScheduler, ResetScheduler, Deciding, TypeOK, Owner,
         Failure
<1>32. CASE Stop
  BY <1>a, <1>32 DEF Stop, ResetScheduler, Deciding, TypeOK, Owner, Failure
<1>33. ASSUME NEW q \in Request, BackoffElapses(q)
      PROVE  Deciding'
  BY <1>a, <1>33 DEF BackoffElapses, Deciding
<1>34. CASE Accepted \/ WorkerDies \/ RefuseBinding \/ RestartWorker \/
           AcceptFails \/ RejectProposal \/ StartInterface \/
           CleanupOrphanAgentTasks
  BY <1>a, <1>34 DEF Accepted, AcceptCommand, Answer, WorkerDies, LoseWorker,
         RefuseBinding, RestartWorker, AcceptFails, UserOnly, RejectProposal,
         RejectPatches, StartInterface, CleanupOrphanAgentTasks, Deciding
<1>35. CASE MarkInterruptedAgentTasks
  BY <1>a, <1>35 DEF MarkInterruptedAgentTasks, UserOnly, Deciding
<1>36. ASSUME NEW r \in Run,
             PrepareRun(r) \/ RefuseResult(r) \/
             DropStaleTerminal(r) \/ SkipExitedRun(r)
      PROVE  Deciding'
  BY <1>a, <1>36 DEF PrepareRun, RefuseResult, LoseWorker, DropStaleTerminal,
         Forget, SkipExitedRun, Deciding
<1>37. ASSUME NEW r \in Run, NEW o \in {"proposal", "no_change"},
              FinalizeRun(r, o)
      PROVE  Deciding'
  BY <1>a, <1>37 DEF FinalizeRun, Deciding
<1>38. ASSUME NEW r \in Run \cup {None}, ShowProposal(r)
      PROVE  Deciding'
  BY <1>a, <1>38 DEF ShowProposal, UserOnly, Deciding
<1> QED BY <1>1, <1>2, <1>3, <1>4, <1>5, <1>6, <1>7, <1>8, <1>9, <1>10, <1>11,
       <1>12, <1>13, <1>14, <1>15, <1>16, <1>17, <1>18, <1>19, <1>20, <1>21,
       <1>22, <1>23, <1>24, <1>25, <1>26, <1>27, <1>28, <1>29, <1>30, <1>31,
       <1>32, <1>33, <1>34, <1>35, <1>36, <1>37, <1>38
    DEF Next, SchedulerStep, FailureStep, SupervisorStep, RunStep,
           InterfaceStep, Owner, Accepted

LEMMA TypedStep == ASSUME Typed, [Next]_vars PROVE Typed'
BY TypeStep, DispatchedStep, HasRequestStep, DecidingStep DEF Typed

-----------------------------------------------------------------------------
(* What a request's row says, as long as the scheduler is not aborted.      *)

\* A request changes its run only while it is running, and then has no task.
LEMMA NamesStep ==
    ASSUME Typed, TypeOK', Agreement, aborts' = 0, [Next]_vars
    PROVE  \A i \in Request : NamesItsRun(i)'
<1> SUFFICES ASSUME NEW i \in Request PROVE NamesItsRun(i)'
  OBVIOUS
<1>a. /\ TypeOK /\ Dispatched /\ HasRequest /\ Deciding
      /\ RequestInv /\ StageInv /\ BindingInv
      /\ SupervisorFailureInv /\ SchedulerFailureInv
      /\ RecoveryInv /\ DispatchInv
  BY DEF Typed, Agreement
<1>b. NamesItsRun(i) /\ EndedIsForgotten(i) /\ ReviewFits(i)
      /\ DecisionFits(i) /\ ResearchFits(i) /\ AttemptsFit(i)
  BY <1>a DEF RequestInv
<1>1. CASE UNCHANGED vars
  BY <1>a, <1>b, <1>1 DEF vars, NamesItsRun
<1>2. ASSUME NEW q \in Request, NEW m \in {"agent", "research"},
             SubmitRequest(q, m)
      PROVE  NamesItsRun(i)'
  BY <1>a, <1>b, <1>2 DEF SubmitRequest, Stored, NamesItsRun, TypeOK
<1>3. ASSUME NEW q \in Request, NEW a \in {"approve", "reject"},
             DecideAgentRequest(q, a)
      PROVE  NamesItsRun(i)'
  BY <1>a, <1>b, <1>3 DEF DecideAgentRequest, NamesItsRun, TypeOK
<1>4. ASSUME NEW q \in Request, ReviseAgentRequest(q)
      PROVE  NamesItsRun(i)'
  BY <1>a, <1>b, <1>4 DEF ReviseAgentRequest, NamesItsRun, TypeOK
<1>5. ASSUME NEW p \in Owner, UpdateRequest(p)
      PROVE  NamesItsRun(i)'
  BY <1>a, <1>b, <1>5 DEF UpdateRequest, SettleRow, Proceed, BuryRequest,
         RequeueRequest, Forget, NamesItsRun, TypeOK, Owner, Failure
<1>6. CASE SettleDecision
  BY <1>a, <1>b, <1>6 DEF SettleDecision, DecisionStatus, NamesItsRun, TypeOK,
         Deciding
<1>7. ASSUME NEW q \in Request, ClaimAgentRequest(q)
      PROVE  NamesItsRun(i)'
  BY <1>a, <1>b, <1>7 DEF ClaimAgentRequest, NextClaimable, Claimable,
         NamesItsRun, TypeOK
<1>8. ASSUME NEW r \in Run, MakeRun(r)
      PROVE  NamesItsRun(i)'
  BY <1>a, <1>b, <1>8 DEF MakeRun, NamesItsRun, TypeOK
<1>9. CASE BindRun
  BY <1>a, <1>b, <1>9 DEF BindRun, NamesItsRun, TypeOK, DispatchInv, InHand,
         Dispatched, Dispatches
<1>10. CASE BindTask
  BY <1>a, <1>b, <1>10 DEF BindTask, IsCurrentRun, NamesItsRun, TypeOK,
         HasRequest, BindingInv
<1>11. ASSUME NEW r \in Run, SettleProposal(r)
      PROVE  NamesItsRun(i)'
  BY <1>a, <1>b, <1>11 DEF SettleProposal, SettleRequest, ResultArrives,
         ResultStatus, Forget, Serving, IsCurrentRun, Active, NamesItsRun,
         TypeOK, HasRequest, BindingInv
<1>12. ASSUME NEW r \in Run, SettleResearch(r)
      PROVE  NamesItsRun(i)'
  BY <1>a, <1>b, <1>12 DEF SettleResearch, SettleRequest, ResultArrives,
         ResultStatus, Forget, Serving, IsCurrentRun, Active, NamesItsRun,
         TypeOK, HasRequest, BindingInv
<1>13. ASSUME NEW q \in Request,
             BackoffElapses(q) \/ ReadDecision(q)
      PROVE  NamesItsRun(i)'
  BY <1>a, <1>b, <1>13 DEF BackoffElapses, ReadDecision, NamesItsRun
<1>14. ASSUME NEW p \in Owner,
             ReadAttempts(p) \/ AbandonTask(p) \/
             AbandonSession(p)
      PROVE  NamesItsRun(i)'
  BY <1>a, <1>b, <1>14 DEF ReadAttempts, AbandonTask, AbandonSession,
         CancelSession, NamesItsRun
<1>15. CASE StartScheduler \/ BeginTick \/ ReadOrphans \/ NoDecision \/
           NothingToClaim \/ BuildFails \/ Submit \/ SubmissionFails
  BY <1>a, <1>b, <1>15 DEF StartScheduler, BeginTick, ReadOrphans, NoDecision,
         NothingToClaim, BuildFails, BeginFailure, Submit, SubmissionFails,
         NamesItsRun
<1>16. CASE SubmissionAccepted \/ Accepted \/ WorkerDies \/
           RefuseBinding \/ RestartWorker \/ AcceptProposal \/ AcceptFails
           \/ RejectProposal
  BY <1>a, <1>b, <1>16 DEF SubmissionAccepted, Accepted, AcceptCommand, Answer,
         WorkerDies, LoseWorker, RefuseBinding, RestartWorker, AcceptProposal,
         UserOnly, ApplyPatches, AcceptFails, RejectProposal, RejectPatches,
         NamesItsRun
<1>17. CASE StartInterface \/ CleanupOrphanAgentTasks \/
           MarkInterruptedAgentTasks \/ AbortScheduler \/ Stop
  BY <1>a, <1>b, <1>17 DEF StartInterface, UserOnly, CleanupOrphanAgentTasks,
         MarkInterruptedAgentTasks, AbortScheduler, ResetScheduler, Stop,
         NamesItsRun
<1>18. ASSUME NEW row \in rows, RecoverOrphan(row)
      PROVE  NamesItsRun(i)'
  BY <1>a, <1>b, <1>18 DEF RecoverOrphan, NamesItsRun
<1>19. ASSUME NEW all \in BOOLEAN, RecoveryDone(all)
      PROVE  NamesItsRun(i)'
  BY <1>a, <1>b, <1>19 DEF RecoveryDone, NamesItsRun
<1>20. ASSUME NEW ok \in BOOLEAN, ApplyDecision(ok)
      PROVE  NamesItsRun(i)'
  BY <1>a, <1>b, <1>20 DEF ApplyDecision, ApplyPatches, RejectPatches,
         NamesItsRun
<1>21. ASSUME NEW r \in Run,
             PrepareRun(r) \/ RefuseResult(r) \/
             DropStaleTerminal(r) \/ SkipExitedRun(r)
      PROVE  NamesItsRun(i)'
  BY <1>a, <1>b, <1>21 DEF PrepareRun, RefuseResult, LoseWorker,
         DropStaleTerminal, Forget, SkipExitedRun, NamesItsRun
<1>22. ASSUME NEW r \in Run, NEW o \in {"proposal", "no_change"},
              FinalizeRun(r, o)
      PROVE  NamesItsRun(i)'
  BY <1>a, <1>b, <1>22 DEF FinalizeRun, NamesItsRun
<1>23. ASSUME NEW r \in Run, NEW retryable \in BOOLEAN,
              CheckError(r, retryable)
      PROVE  NamesItsRun(i)'
  BY <1>a, <1>b, <1>23 DEF CheckError, BeginFailure, NamesItsRun
<1>24. ASSUME NEW r \in Run \cup {None}, ShowProposal(r)
      PROVE  NamesItsRun(i)'
  BY <1>a, <1>b, <1>24 DEF ShowProposal, UserOnly, NamesItsRun
<1> QED BY <1>1, <1>2, <1>3, <1>4, <1>5, <1>6, <1>7, <1>8, <1>9, <1>10, <1>11,
       <1>12, <1>13, <1>14, <1>15, <1>16, <1>17, <1>18, <1>19, <1>20, <1>21,
       <1>22, <1>23, <1>24
    DEF Next, SchedulerStep, FailureStep, SupervisorStep, RunStep,
           InterfaceStep, Owner, Accepted

\* The supervisor takes a run only for the request that is in hand, and forgets
\* it in the step that settles the request.
LEMMA EndedStep ==
    ASSUME Typed, TypeOK', Agreement, aborts' = 0, [Next]_vars
    PROVE  \A i \in Request : EndedIsForgotten(i)'
<1> SUFFICES ASSUME NEW i \in Request PROVE EndedIsForgotten(i)'
  OBVIOUS
<1>a. /\ TypeOK /\ Dispatched /\ HasRequest /\ Deciding
      /\ RequestInv /\ StageInv /\ BindingInv
      /\ SupervisorFailureInv /\ SchedulerFailureInv
      /\ RecoveryInv /\ DispatchInv
  BY DEF Typed, Agreement
<1>b. NamesItsRun(i) /\ EndedIsForgotten(i) /\ ReviewFits(i)
      /\ DecisionFits(i) /\ ResearchFits(i) /\ AttemptsFit(i)
  BY <1>a DEF RequestInv
<1>1. CASE UNCHANGED vars
  BY <1>a, <1>b, <1>1 DEF vars, EndedIsForgotten, Unsupervised
<1>2. ASSUME NEW q \in Request, NEW m \in {"agent", "research"},
             SubmitRequest(q, m)
      PROVE  EndedIsForgotten(i)'
  BY <1>a, <1>b, <1>2 DEF SubmitRequest, Stored, EndedIsForgotten,
         Unsupervised, TypeOK, NamesItsRun
<1>3. ASSUME NEW q \in Request, NEW a \in {"approve", "reject"},
             DecideAgentRequest(q, a)
      PROVE  EndedIsForgotten(i)'
  BY <1>a, <1>b, <1>3 DEF DecideAgentRequest, EndedIsForgotten, Unsupervised,
         TypeOK, NamesItsRun
<1>4. ASSUME NEW q \in Request, ReviseAgentRequest(q)
      PROVE  EndedIsForgotten(i)'
  BY <1>a, <1>b, <1>4 DEF ReviseAgentRequest, EndedIsForgotten, Unsupervised,
         TypeOK, NamesItsRun
<1>5. ASSUME NEW p \in Owner, UpdateRequest(p)
      PROVE  EndedIsForgotten(i)'
  BY <1>a, <1>b, <1>5 DEF UpdateRequest, SettleRow, Proceed, BuryRequest,
         RequeueRequest, Forget, EndedIsForgotten, Unsupervised, TypeOK,
         Owner, Failure
<1>6. CASE SettleDecision
  BY <1>a, <1>b, <1>6 DEF SettleDecision, DecisionStatus, EndedIsForgotten,
         Unsupervised, TypeOK, Deciding
<1>7. ASSUME NEW q \in Request, ClaimAgentRequest(q)
      PROVE  EndedIsForgotten(i)'
  BY <1>a, <1>b, <1>7 DEF ClaimAgentRequest, NextClaimable, Claimable,
         EndedIsForgotten, Unsupervised, TypeOK, NamesItsRun
<1>8. CASE BindRun
  BY <1>a, <1>b, <1>8 DEF BindRun, EndedIsForgotten, Unsupervised, TypeOK,
         DispatchInv, InHand, Dispatched, Dispatches
<1>9. ASSUME NEW r \in commands, AcceptCommand(r)
      PROVE  EndedIsForgotten(i)'
  BY <1>a, <1>b, <1>9 DEF AcceptCommand, Answer, Serving, EndedIsForgotten,
         Unsupervised, TypeOK, DispatchInv, Bound, InHand, Dispatched,
         Dispatches, NamesItsRun
<1>10. CASE BindTask
  BY <1>a, <1>b, <1>10 DEF BindTask, IsCurrentRun, EndedIsForgotten,
         Unsupervised, TypeOK, HasRequest, BindingInv
<1>11. ASSUME NEW r \in Run, NEW o \in {"proposal", "no_change"},
              FinalizeRun(r, o)
      PROVE  EndedIsForgotten(i)'
  BY <1>a, <1>b, <1>11 DEF FinalizeRun, Serving, EndedIsForgotten,
         Unsupervised, TypeOK, HasRequest, BindingInv
<1>12. ASSUME NEW r \in Run, SettleProposal(r)
      PROVE  EndedIsForgotten(i)'
  BY <1>a, <1>b, <1>12 DEF SettleProposal, SettleRequest, ResultArrives,
         ResultStatus, Forget, Serving, IsCurrentRun, Active,
         EndedIsForgotten, Unsupervised, TypeOK, HasRequest, BindingInv
<1>13. ASSUME NEW r \in Run, SettleResearch(r)
      PROVE  EndedIsForgotten(i)'
  BY <1>a, <1>b, <1>13 DEF SettleResearch, SettleRequest, ResultArrives,
         ResultStatus, Forget, Serving, IsCurrentRun, Active,
         EndedIsForgotten, Unsupervised, TypeOK, HasRequest, BindingInv
<1>14. ASSUME NEW r \in Run, DropStaleTerminal(r)
      PROVE  EndedIsForgotten(i)'
  BY <1>a, <1>b, <1>14 DEF DropStaleTerminal, Forget, Serving, IsCurrentRun,
         EndedIsForgotten, Unsupervised
<1>15. CASE RestartWorker
  BY <1>a, <1>b, <1>15 DEF RestartWorker, Active, EndedIsForgotten,
         Unsupervised, TypeOK
<1>16. CASE Stop
  BY <1>a, <1>b, <1>16 DEF Stop, ResetScheduler, EndedIsForgotten,
         Unsupervised, TypeOK
<1>17. ASSUME NEW q \in Request,
             BackoffElapses(q) \/ ReadDecision(q)
      PROVE  EndedIsForgotten(i)'
  BY <1>a, <1>b, <1>17 DEF BackoffElapses, ReadDecision, EndedIsForgotten,
         Unsupervised
<1>18. ASSUME NEW p \in Owner,
             ReadAttempts(p) \/ AbandonTask(p) \/
             AbandonSession(p)
      PROVE  EndedIsForgotten(i)'
  BY <1>a, <1>b, <1>18 DEF ReadAttempts, AbandonTask, AbandonSession,
         CancelSession, EndedIsForgotten, Unsupervised
<1>19. CASE StartScheduler \/ BeginTick \/ ReadOrphans \/ NoDecision \/
           NothingToClaim \/ BuildFails \/ Submit \/ SubmissionFails
  BY <1>a, <1>b, <1>19 DEF StartScheduler, BeginTick, ReadOrphans, NoDecision,
         NothingToClaim, BuildFails, BeginFailure, Submit, SubmissionFails,
         EndedIsForgotten, Unsupervised
<1>20. CASE SubmissionAccepted \/ WorkerDies \/ RefuseBinding \/
           AcceptProposal \/ AcceptFails \/ RejectProposal \/ StartInterface
           \/ CleanupOrphanAgentTasks
  BY <1>a, <1>b, <1>20 DEF SubmissionAccepted, WorkerDies, LoseWorker,
         RefuseBinding, AcceptProposal, UserOnly, ApplyPatches, AcceptFails,
         RejectProposal, RejectPatches, StartInterface,
         CleanupOrphanAgentTasks, EndedIsForgotten, Unsupervised
<1>21. CASE MarkInterruptedAgentTasks \/ AbortScheduler
  BY <1>a, <1>b, <1>21 DEF MarkInterruptedAgentTasks, UserOnly,
         AbortScheduler, ResetScheduler, EndedIsForgotten, Unsupervised
<1>22. ASSUME NEW row \in rows, RecoverOrphan(row)
      PROVE  EndedIsForgotten(i)'
  BY <1>a, <1>b, <1>22 DEF RecoverOrphan, EndedIsForgotten, Unsupervised
<1>23. ASSUME NEW all \in BOOLEAN, RecoveryDone(all)
      PROVE  EndedIsForgotten(i)'
  BY <1>a, <1>b, <1>23 DEF RecoveryDone, EndedIsForgotten, Unsupervised
<1>24. ASSUME NEW ok \in BOOLEAN, ApplyDecision(ok)
      PROVE  EndedIsForgotten(i)'
  BY <1>a, <1>b, <1>24 DEF ApplyDecision, ApplyPatches, RejectPatches,
         EndedIsForgotten, Unsupervised
<1>25. ASSUME NEW r \in Run,
             MakeRun(r) \/ PrepareRun(r) \/ RefuseResult(r) \/
             SkipExitedRun(r)
      PROVE  EndedIsForgotten(i)'
  BY <1>a, <1>b, <1>25 DEF MakeRun, PrepareRun, RefuseResult, LoseWorker,
         SkipExitedRun, EndedIsForgotten, Unsupervised
<1>26. ASSUME NEW r \in Run, NEW retryable \in BOOLEAN,
              CheckError(r, retryable)
      PROVE  EndedIsForgotten(i)'
  BY <1>a, <1>b, <1>26 DEF CheckError, BeginFailure, EndedIsForgotten,
         Unsupervised
<1>27. ASSUME NEW r \in Run \cup {None}, ShowProposal(r)
      PROVE  EndedIsForgotten(i)'
  BY <1>a, <1>b, <1>27 DEF ShowProposal, UserOnly, EndedIsForgotten,
         Unsupervised
<1> QED BY <1>1, <1>2, <1>3, <1>4, <1>5, <1>6, <1>7, <1>8, <1>9, <1>10, <1>11,
       <1>12, <1>13, <1>14, <1>15, <1>16, <1>17, <1>18, <1>19, <1>20, <1>21,
       <1>22, <1>23, <1>24, <1>25, <1>26, <1>27
    DEF Next, SchedulerStep, FailureStep, SupervisorStep, RunStep,
           InterfaceStep, Owner

\* Whoever closes a task either decides its proposal, or finds it without one,
\* or works on a request that is still running.
LEMMA ReviewStep ==
    ASSUME Typed, TypeOK', Agreement, aborts' = 0, [Next]_vars
    PROVE  \A i \in Request : ReviewFits(i)'
<1> SUFFICES ASSUME NEW i \in Request PROVE ReviewFits(i)'
  OBVIOUS
<1>a. /\ TypeOK /\ Dispatched /\ HasRequest /\ Deciding
      /\ RequestInv /\ StageInv /\ BindingInv
      /\ SupervisorFailureInv /\ SchedulerFailureInv
      /\ RecoveryInv /\ DispatchInv
  BY DEF Typed, Agreement
<1>b. NamesItsRun(i) /\ EndedIsForgotten(i) /\ ReviewFits(i)
      /\ DecisionFits(i) /\ ResearchFits(i) /\ AttemptsFit(i)
  BY <1>a DEF RequestInv
<1>1. CASE UNCHANGED vars
  BY <1>a, <1>b, <1>1 DEF vars, ReviewFits
<1>2. ASSUME NEW q \in Request, NEW m \in {"agent", "research"},
             SubmitRequest(q, m)
      PROVE  ReviewFits(i)'
  BY <1>a, <1>b, <1>2 DEF SubmitRequest, Stored, ReviewFits, TypeOK
<1>3. ASSUME NEW q \in Request, NEW a \in {"approve", "reject"},
             DecideAgentRequest(q, a)
      PROVE  ReviewFits(i)'
  BY <1>a, <1>b, <1>3 DEF DecideAgentRequest, ReviewFits, TypeOK
<1>4. ASSUME NEW q \in Request, ReviseAgentRequest(q)
      PROVE  ReviewFits(i)'
  BY <1>a, <1>b, <1>4 DEF ReviseAgentRequest, ReviewFits, TypeOK
<1>5. ASSUME NEW p \in Owner, AbandonTask(p)
      PROVE  ReviewFits(i)'
  BY <1>a, <1>b, <1>5 DEF AbandonTask, StepFrom, ReviewFits, TypeOK, Owner,
         Failure, SupervisorFailureInv, SchedulerFailureInv, FailureFits,
         NamesItsRun
<1>6. ASSUME NEW p \in Owner, UpdateRequest(p)
      PROVE  ReviewFits(i)'
  BY <1>a, <1>b, <1>6 DEF UpdateRequest, SettleRow, Proceed, BuryRequest,
         RequeueRequest, Forget, ReviewFits, TypeOK, Owner, Failure
<1>7. ASSUME NEW ok \in BOOLEAN, ApplyDecision(ok)
      PROVE  ReviewFits(i)'
  BY <1>a, <1>b, <1>7 DEF ApplyDecision, ApplyPatches, CanApply,
         RejectPatches, ReviewFits, TypeOK, Deciding
<1>8. CASE SettleDecision
  BY <1>a, <1>b, <1>8 DEF SettleDecision, DecisionStatus, ReviewFits, TypeOK,
         Deciding
<1>9. ASSUME NEW q \in Request, ClaimAgentRequest(q)
      PROVE  ReviewFits(i)'
  BY <1>a, <1>b, <1>9 DEF ClaimAgentRequest, NextClaimable, Claimable,
         ReviewFits, TypeOK
<1>10. CASE BindRun
  BY <1>a, <1>b, <1>10 DEF BindRun, ReviewFits, TypeOK, DispatchInv, InHand,
         Dispatched, Dispatches
<1>11. ASSUME NEW r \in Run, PrepareRun(r)
      PROVE  ReviewFits(i)'
  BY <1>a, <1>b, <1>11 DEF PrepareRun, Serving, ReviewFits, TypeOK,
         EndedIsForgotten, Unsupervised
<1>12. CASE BindTask
  BY <1>a, <1>b, <1>12 DEF BindTask, IsCurrentRun, ReviewFits, TypeOK,
         HasRequest, BindingInv
<1>13. ASSUME NEW r \in Run, NEW o \in {"proposal", "no_change"},
              FinalizeRun(r, o)
      PROVE  ReviewFits(i)'
  BY <1>a, <1>b, <1>13 DEF FinalizeRun, Serving, ReviewFits, TypeOK,
         EndedIsForgotten, Unsupervised
<1>14. ASSUME NEW r \in Run, SettleProposal(r)
      PROVE  ReviewFits(i)'
  BY <1>a, <1>b, <1>14 DEF SettleProposal, SettleRequest, ResultArrives,
         ResultStatus, Forget, Serving, IsCurrentRun, Active, ReviewFits,
         TypeOK, HasRequest, StageInv, StageFits, Failing, NamesItsRun
<1>15. ASSUME NEW r \in Run, SettleResearch(r)
      PROVE  ReviewFits(i)'
  BY <1>a, <1>b, <1>15 DEF SettleResearch, SettleRequest, ResultArrives,
         ResultStatus, Forget, Serving, IsCurrentRun, Active, ReviewFits,
         TypeOK, HasRequest, StageInv, StageFits, Failing, NamesItsRun
<1>16. CASE RestartWorker
  BY <1>a, <1>b, <1>16 DEF RestartWorker, Active, ReviewFits, TypeOK
<1>17. CASE AcceptProposal
  BY <1>a, <1>b, <1>17 DEF AcceptProposal, ApplyPatches, CanApply, UserOnly,
         ReviewFits, TypeOK
<1>18. CASE AcceptFails
  BY <1>a, <1>b, <1>18 DEF AcceptFails, UserOnly, ReviewFits, TypeOK
<1>19. CASE RejectProposal
  BY <1>a, <1>b, <1>19 DEF RejectProposal, RejectPatches, UserOnly,
         ReviewFits, TypeOK
<1>20. CASE CleanupOrphanAgentTasks
  BY <1>a, <1>b, <1>20 DEF CleanupOrphanAgentTasks, OrphanProposals, UserOnly,
         ReviewFits, TypeOK
<1>21. CASE MarkInterruptedAgentTasks
  BY <1>a, <1>b, <1>21 DEF MarkInterruptedAgentTasks, UserOnly, ReviewFits,
         TypeOK
<1>22. ASSUME NEW q \in Request,
             BackoffElapses(q) \/ ReadDecision(q)
      PROVE  ReviewFits(i)'
  BY <1>a, <1>b, <1>22 DEF BackoffElapses, ReadDecision, ReviewFits
<1>23. ASSUME NEW p \in Owner,
             ReadAttempts(p) \/ AbandonSession(p)
      PROVE  ReviewFits(i)'
  BY <1>a, <1>b, <1>23 DEF ReadAttempts, AbandonSession, CancelSession,
         ReviewFits
<1>24. CASE StartScheduler \/ BeginTick \/ ReadOrphans \/ NoDecision \/
           NothingToClaim \/ BuildFails \/ Submit \/ SubmissionFails
  BY <1>a, <1>b, <1>24 DEF StartScheduler, BeginTick, ReadOrphans, NoDecision,
         NothingToClaim, BuildFails, BeginFailure, Submit, SubmissionFails,
         ReviewFits
<1>25. CASE SubmissionAccepted \/ Accepted \/ WorkerDies \/
           RefuseBinding \/ StartInterface \/ AbortScheduler \/ Stop
  BY <1>a, <1>b, <1>25 DEF SubmissionAccepted, Accepted, AcceptCommand, Answer,
         WorkerDies, LoseWorker, RefuseBinding, StartInterface, UserOnly,
         AbortScheduler, ResetScheduler, Stop, ReviewFits
<1>26. ASSUME NEW row \in rows, RecoverOrphan(row)
      PROVE  ReviewFits(i)'
  BY <1>a, <1>b, <1>26 DEF RecoverOrphan, ReviewFits
<1>27. ASSUME NEW all \in BOOLEAN, RecoveryDone(all)
      PROVE  ReviewFits(i)'
  BY <1>a, <1>b, <1>27 DEF RecoveryDone, ReviewFits
<1>28. ASSUME NEW r \in Run,
             MakeRun(r) \/ RefuseResult(r) \/ DropStaleTerminal(r)
             \/ SkipExitedRun(r)
      PROVE  ReviewFits(i)'
  BY <1>a, <1>b, <1>28 DEF MakeRun, RefuseResult, LoseWorker,
         DropStaleTerminal, Forget, SkipExitedRun, ReviewFits
<1>29. ASSUME NEW r \in Run, NEW retryable \in BOOLEAN,
              CheckError(r, retryable)
      PROVE  ReviewFits(i)'
  BY <1>a, <1>b, <1>29 DEF CheckError, BeginFailure, ReviewFits
<1>30. ASSUME NEW r \in Run \cup {None}, ShowProposal(r)
      PROVE  ReviewFits(i)'
  BY <1>a, <1>b, <1>30 DEF ShowProposal, UserOnly, ReviewFits
<1> QED BY <1>1, <1>2, <1>3, <1>4, <1>5, <1>6, <1>7, <1>8, <1>9, <1>10, <1>11,
       <1>12, <1>13, <1>14, <1>15, <1>16, <1>17, <1>18, <1>19, <1>20, <1>21,
       <1>22, <1>23, <1>24, <1>25, <1>26, <1>27, <1>28, <1>29, <1>30
    DEF Next, SchedulerStep, FailureStep, SupervisorStep, RunStep,
           InterfaceStep, Owner, Accepted

\* Only a request that was put up for review is decided, and only the scheduler
\* completes it then.
LEMMA DecisionStep ==
    ASSUME Typed, TypeOK', Agreement, aborts' = 0, [Next]_vars
    PROVE  \A i \in Request : DecisionFits(i)'
<1> SUFFICES ASSUME NEW i \in Request PROVE DecisionFits(i)'
  OBVIOUS
<1>a. /\ TypeOK /\ Dispatched /\ HasRequest /\ Deciding
      /\ RequestInv /\ StageInv /\ BindingInv
      /\ SupervisorFailureInv /\ SchedulerFailureInv
      /\ RecoveryInv /\ DispatchInv
  BY DEF Typed, Agreement
<1>b. NamesItsRun(i) /\ EndedIsForgotten(i) /\ ReviewFits(i)
      /\ DecisionFits(i) /\ ResearchFits(i) /\ AttemptsFit(i)
  BY <1>a DEF RequestInv
<1>1. CASE UNCHANGED vars
  BY <1>a, <1>b, <1>1 DEF vars, DecisionFits
<1>2. ASSUME NEW q \in Request, NEW m \in {"agent", "research"},
             SubmitRequest(q, m)
      PROVE  DecisionFits(i)'
  BY <1>a, <1>b, <1>2 DEF SubmitRequest, Stored, DecisionFits, TypeOK
<1>3. ASSUME NEW q \in Request, NEW a \in {"approve", "reject"},
             DecideAgentRequest(q, a)
      PROVE  DecisionFits(i)'
  BY <1>a, <1>b, <1>3 DEF DecideAgentRequest, DecisionFits, TypeOK
<1>4. ASSUME NEW q \in Request, ReviseAgentRequest(q)
      PROVE  DecisionFits(i)'
  BY <1>a, <1>b, <1>4 DEF ReviseAgentRequest, DecisionFits, TypeOK
<1>5. ASSUME NEW p \in Owner, UpdateRequest(p)
      PROVE  DecisionFits(i)'
  BY <1>a, <1>b, <1>5 DEF UpdateRequest, SettleRow, Proceed, BuryRequest,
         RequeueRequest, Forget, DecisionFits, TypeOK, Owner, Failure,
         SupervisorFailureInv, SchedulerFailureInv, FailureFits
<1>6. ASSUME NEW ok \in BOOLEAN, ApplyDecision(ok)
      PROVE  DecisionFits(i)'
  BY <1>a, <1>b, <1>6 DEF ApplyDecision, ApplyPatches, CanApply,
         RejectPatches, DecisionFits, TypeOK, Deciding
<1>7. CASE SettleDecision
  BY <1>a, <1>b, <1>7 DEF SettleDecision, DecisionStatus, DecisionFits,
         TypeOK, Deciding
<1>8. ASSUME NEW q \in Request, ClaimAgentRequest(q)
      PROVE  DecisionFits(i)'
  BY <1>a, <1>b, <1>8 DEF ClaimAgentRequest, NextClaimable, Claimable,
         DecisionFits, TypeOK
<1>9. CASE BindTask
  BY <1>a, <1>b, <1>9 DEF BindTask, IsCurrentRun, DecisionFits, TypeOK,
         HasRequest, BindingInv
<1>10. ASSUME NEW r \in Run, SettleProposal(r)
      PROVE  DecisionFits(i)'
  BY <1>a, <1>b, <1>10 DEF SettleProposal, SettleRequest, ResultArrives,
         ResultStatus, Forget, Serving, IsCurrentRun, Active, DecisionFits,
         TypeOK, HasRequest, BindingInv
<1>11. ASSUME NEW r \in Run, SettleResearch(r)
      PROVE  DecisionFits(i)'
  BY <1>a, <1>b, <1>11 DEF SettleResearch, SettleRequest, ResultArrives,
         ResultStatus, Forget, Serving, IsCurrentRun, Active, DecisionFits,
         TypeOK, HasRequest, BindingInv
<1>12. CASE AcceptProposal
  BY <1>a, <1>b, <1>12 DEF AcceptProposal, ApplyPatches, CanApply, UserOnly,
         DecisionFits, TypeOK
<1>13. ASSUME NEW q \in Request,
             BackoffElapses(q) \/ ReadDecision(q)
      PROVE  DecisionFits(i)'
  BY <1>a, <1>b, <1>13 DEF BackoffElapses, ReadDecision, DecisionFits
<1>14. ASSUME NEW p \in Owner,
             ReadAttempts(p) \/ AbandonTask(p) \/
             AbandonSession(p)
      PROVE  DecisionFits(i)'
  BY <1>a, <1>b, <1>14 DEF ReadAttempts, AbandonTask, AbandonSession,
         CancelSession, DecisionFits
<1>15. CASE StartScheduler \/ BeginTick \/ ReadOrphans \/ NoDecision \/
           NothingToClaim \/ BuildFails \/ BindRun \/ Submit
  BY <1>a, <1>b, <1>15 DEF StartScheduler, BeginTick, ReadOrphans, NoDecision,
         NothingToClaim, BuildFails, BeginFailure, BindRun, Submit,
         DecisionFits
<1>16. CASE SubmissionFails \/ SubmissionAccepted \/ Accepted \/
           WorkerDies \/ RefuseBinding \/ RestartWorker \/ AcceptFails \/
           RejectProposal
  BY <1>a, <1>b, <1>16 DEF SubmissionFails, BeginFailure, SubmissionAccepted,
         Accepted, AcceptCommand, Answer, WorkerDies, LoseWorker, RefuseBinding,
         RestartWorker, AcceptFails, UserOnly, RejectProposal, RejectPatches,
         DecisionFits
<1>17. CASE StartInterface \/ CleanupOrphanAgentTasks \/
           MarkInterruptedAgentTasks \/ AbortScheduler \/ Stop
  BY <1>a, <1>b, <1>17 DEF StartInterface, UserOnly, CleanupOrphanAgentTasks,
         MarkInterruptedAgentTasks, AbortScheduler, ResetScheduler, Stop,
         DecisionFits
<1>18. ASSUME NEW row \in rows, RecoverOrphan(row)
      PROVE  DecisionFits(i)'
  BY <1>a, <1>b, <1>18 DEF RecoverOrphan, DecisionFits
<1>19. ASSUME NEW all \in BOOLEAN, RecoveryDone(all)
      PROVE  DecisionFits(i)'
  BY <1>a, <1>b, <1>19 DEF RecoveryDone, DecisionFits
<1>20. ASSUME NEW r \in Run,
             MakeRun(r) \/ PrepareRun(r) \/ RefuseResult(r) \/
             DropStaleTerminal(r) \/ SkipExitedRun(r)
      PROVE  DecisionFits(i)'
  BY <1>a, <1>b, <1>20 DEF MakeRun, PrepareRun, RefuseResult, LoseWorker,
         DropStaleTerminal, Forget, SkipExitedRun, DecisionFits
<1>21. ASSUME NEW r \in Run, NEW o \in {"proposal", "no_change"},
              FinalizeRun(r, o)
      PROVE  DecisionFits(i)'
  BY <1>a, <1>b, <1>21 DEF FinalizeRun, DecisionFits
<1>22. ASSUME NEW r \in Run, NEW retryable \in BOOLEAN,
              CheckError(r, retryable)
      PROVE  DecisionFits(i)'
  BY <1>a, <1>b, <1>22 DEF CheckError, BeginFailure, DecisionFits
<1>23. ASSUME NEW r \in Run \cup {None}, ShowProposal(r)
      PROVE  DecisionFits(i)'
  BY <1>a, <1>b, <1>23 DEF ShowProposal, UserOnly, DecisionFits
<1> QED BY <1>1, <1>2, <1>3, <1>4, <1>5, <1>6, <1>7, <1>8, <1>9, <1>10, <1>11,
       <1>12, <1>13, <1>14, <1>15, <1>16, <1>17, <1>18, <1>19, <1>20, <1>21,
       <1>22, <1>23
    DEF Next, SchedulerStep, FailureStep, SupervisorStep, RunStep,
           InterfaceStep, Owner, Accepted

\* A session is made before its request names it, and closed before or in the
\* step that ends the request.
LEMMA ResearchStep ==
    ASSUME Typed, TypeOK', Agreement, aborts' = 0, [Next]_vars
    PROVE  \A i \in Request : ResearchFits(i)'
<1> SUFFICES ASSUME NEW i \in Request PROVE ResearchFits(i)'
  OBVIOUS
<1>a. /\ TypeOK /\ Dispatched /\ HasRequest /\ Deciding
      /\ RequestInv /\ StageInv /\ BindingInv
      /\ SupervisorFailureInv /\ SchedulerFailureInv
      /\ RecoveryInv /\ DispatchInv
  BY DEF Typed, Agreement
<1>b. NamesItsRun(i) /\ EndedIsForgotten(i) /\ ReviewFits(i)
      /\ DecisionFits(i) /\ ResearchFits(i) /\ AttemptsFit(i)
  BY <1>a DEF RequestInv
<1>1. CASE UNCHANGED vars
  BY <1>a, <1>b, <1>1 DEF vars, ResearchFits
<1>2. ASSUME NEW q \in Request, NEW m \in {"agent", "research"},
             SubmitRequest(q, m)
      PROVE  ResearchFits(i)'
  BY <1>a, <1>b, <1>2 DEF SubmitRequest, Stored, ResearchFits, TypeOK,
         NamesItsRun
<1>3. ASSUME NEW q \in Request, NEW a \in {"approve", "reject"},
             DecideAgentRequest(q, a)
      PROVE  ResearchFits(i)'
  BY <1>a, <1>b, <1>3 DEF DecideAgentRequest, ResearchFits, TypeOK,
         NamesItsRun
<1>4. ASSUME NEW q \in Request, ReviseAgentRequest(q)
      PROVE  ResearchFits(i)'
  BY <1>a, <1>b, <1>4 DEF ReviseAgentRequest, ResearchFits, TypeOK,
         NamesItsRun
<1>5. ASSUME NEW p \in Owner, AbandonSession(p)
      PROVE  ResearchFits(i)'
  BY <1>a, <1>b, <1>5 DEF AbandonSession, CancelSession, ResearchFits, TypeOK,
         Owner, Failure
<1>6. ASSUME NEW p \in Owner, UpdateRequest(p)
      PROVE  ResearchFits(i)'
  BY <1>a, <1>b, <1>6 DEF UpdateRequest, SettleRow, Proceed, BuryRequest,
         RequeueRequest, Forget, ResearchFits, TypeOK, Owner, Failure,
         SupervisorFailureInv, SchedulerFailureInv, FailureFits, SessionOf
<1>7. CASE SettleDecision
  BY <1>a, <1>b, <1>7 DEF SettleDecision, DecisionStatus, ResearchFits,
         TypeOK, Deciding
<1>8. ASSUME NEW q \in Request, ClaimAgentRequest(q)
      PROVE  ResearchFits(i)'
  BY <1>a, <1>b, <1>8 DEF ClaimAgentRequest, NextClaimable, Claimable,
         ResearchFits, TypeOK, NamesItsRun
<1>9. ASSUME NEW r \in Run, MakeRun(r)
      PROVE  ResearchFits(i)'
  BY <1>a, <1>b, <1>9 DEF MakeRun, ResearchFits, TypeOK, NamesItsRun
<1>10. CASE BindRun
  BY <1>a, <1>b, <1>10 DEF BindRun, ResearchFits, TypeOK, DispatchInv, InHand,
         Dispatched, Dispatches
<1>11. ASSUME NEW r \in Run, SettleProposal(r)
      PROVE  ResearchFits(i)'
  BY <1>a, <1>b, <1>11 DEF SettleProposal, SettleRequest, ResultArrives,
         ResultStatus, Forget, Serving, IsCurrentRun, Active, ResearchFits,
         TypeOK, HasRequest
<1>12. ASSUME NEW r \in Run, SettleResearch(r)
      PROVE  ResearchFits(i)'
  BY <1>a, <1>b, <1>12 DEF SettleResearch, SettleRequest, ResultArrives,
         ResultStatus, Forget, Serving, IsCurrentRun, Active, ResearchFits,
         TypeOK, HasRequest
<1>13. ASSUME NEW q \in Request,
             BackoffElapses(q) \/ ReadDecision(q)
      PROVE  ResearchFits(i)'
  BY <1>a, <1>b, <1>13 DEF BackoffElapses, ReadDecision, ResearchFits
<1>14. ASSUME NEW p \in Owner,
             ReadAttempts(p) \/ AbandonTask(p)
      PROVE  ResearchFits(i)'
  BY <1>a, <1>b, <1>14 DEF ReadAttempts, AbandonTask, ResearchFits
<1>15. CASE StartScheduler \/ BeginTick \/ ReadOrphans \/ NoDecision \/
           NothingToClaim \/ BuildFails \/ Submit \/ SubmissionFails
  BY <1>a, <1>b, <1>15 DEF StartScheduler, BeginTick, ReadOrphans, NoDecision,
         NothingToClaim, BuildFails, BeginFailure, Submit, SubmissionFails,
         ResearchFits
<1>16. CASE SubmissionAccepted \/ Accepted \/ WorkerDies \/ BindTask \/
           RefuseBinding \/ RestartWorker \/ AcceptProposal \/ AcceptFails
  BY <1>a, <1>b, <1>16 DEF SubmissionAccepted, Accepted, AcceptCommand, Answer,
         WorkerDies, LoseWorker, BindTask, RefuseBinding, RestartWorker,
         AcceptProposal, UserOnly, ApplyPatches, AcceptFails, ResearchFits
<1>17. CASE RejectProposal \/ StartInterface \/ CleanupOrphanAgentTasks \/
           MarkInterruptedAgentTasks \/ AbortScheduler \/ Stop
  BY <1>a, <1>b, <1>17 DEF RejectProposal, UserOnly, RejectPatches,
         StartInterface, CleanupOrphanAgentTasks, MarkInterruptedAgentTasks,
         AbortScheduler, ResetScheduler, Stop, ResearchFits
<1>18. ASSUME NEW row \in rows, RecoverOrphan(row)
      PROVE  ResearchFits(i)'
  BY <1>a, <1>b, <1>18 DEF RecoverOrphan, ResearchFits
<1>19. ASSUME NEW all \in BOOLEAN, RecoveryDone(all)
      PROVE  ResearchFits(i)'
  BY <1>a, <1>b, <1>19 DEF RecoveryDone, ResearchFits
<1>20. ASSUME NEW ok \in BOOLEAN, ApplyDecision(ok)
      PROVE  ResearchFits(i)'
  BY <1>a, <1>b, <1>20 DEF ApplyDecision, ApplyPatches, RejectPatches,
         ResearchFits
<1>21. ASSUME NEW r \in Run,
             PrepareRun(r) \/ RefuseResult(r) \/
             DropStaleTerminal(r) \/ SkipExitedRun(r)
      PROVE  ResearchFits(i)'
  BY <1>a, <1>b, <1>21 DEF PrepareRun, RefuseResult, LoseWorker,
         DropStaleTerminal, Forget, SkipExitedRun, ResearchFits
<1>22. ASSUME NEW r \in Run, NEW o \in {"proposal", "no_change"},
              FinalizeRun(r, o)
      PROVE  ResearchFits(i)'
  BY <1>a, <1>b, <1>22 DEF FinalizeRun, ResearchFits
<1>23. ASSUME NEW r \in Run, NEW retryable \in BOOLEAN,
              CheckError(r, retryable)
      PROVE  ResearchFits(i)'
  BY <1>a, <1>b, <1>23 DEF CheckError, BeginFailure, ResearchFits
<1>24. ASSUME NEW r \in Run \cup {None}, ShowProposal(r)
      PROVE  ResearchFits(i)'
  BY <1>a, <1>b, <1>24 DEF ShowProposal, UserOnly, ResearchFits
<1> QED BY <1>1, <1>2, <1>3, <1>4, <1>5, <1>6, <1>7, <1>8, <1>9, <1>10, <1>11,
       <1>12, <1>13, <1>14, <1>15, <1>16, <1>17, <1>18, <1>19, <1>20, <1>21,
       <1>22, <1>23, <1>24
    DEF Next, SchedulerStep, FailureStep, SupervisorStep, RunStep,
           InterfaceStep, Owner, Accepted

\* The attempts a failure has read are those of the row it writes.
LEMMA AttemptsStep ==
    ASSUME Typed, TypeOK', Agreement, aborts' = 0, [Next]_vars
    PROVE  \A i \in Request : AttemptsFit(i)'
<1> SUFFICES ASSUME NEW i \in Request PROVE AttemptsFit(i)'
  OBVIOUS
<1>a. /\ TypeOK /\ Dispatched /\ HasRequest /\ Deciding
      /\ RequestInv /\ StageInv /\ BindingInv
      /\ SupervisorFailureInv /\ SchedulerFailureInv
      /\ RecoveryInv /\ DispatchInv
  BY DEF Typed, Agreement
<1>b. NamesItsRun(i) /\ EndedIsForgotten(i) /\ ReviewFits(i)
      /\ DecisionFits(i) /\ ResearchFits(i) /\ AttemptsFit(i)
  BY <1>a DEF RequestInv
<1>1. CASE UNCHANGED vars
  BY <1>a, <1>b, <1>1 DEF vars, AttemptsFit
<1>2. ASSUME NEW q \in Request, NEW m \in {"agent", "research"},
             SubmitRequest(q, m)
      PROVE  AttemptsFit(i)'
  BY <1>a, <1>b, <1>2 DEF SubmitRequest, Stored, AttemptsFit, TypeOK
<1>3. ASSUME NEW q \in Request, NEW a \in {"approve", "reject"},
             DecideAgentRequest(q, a)
      PROVE  AttemptsFit(i)'
  BY <1>a, <1>b, <1>3 DEF DecideAgentRequest, AttemptsFit, TypeOK
<1>4. ASSUME NEW q \in Request, ReviseAgentRequest(q)
      PROVE  AttemptsFit(i)'
  BY <1>a, <1>b, <1>4 DEF ReviseAgentRequest, AttemptsFit, TypeOK
<1>5. ASSUME NEW p \in Owner, UpdateRequest(p)
      PROVE  AttemptsFit(i)'
  BY <1>a, <1>b, <1>5 DEF UpdateRequest, SettleRow, Proceed, BuryRequest,
         RequeueRequest, Forget, AttemptsFit, TypeOK, Owner, Failure,
         SupervisorFailureInv, SchedulerFailureInv, FailureFits, Exhausted
<1>6. CASE SettleDecision
  BY <1>a, <1>b, <1>6 DEF SettleDecision, DecisionStatus, AttemptsFit, TypeOK,
         Deciding
<1>7. ASSUME NEW q \in Request, ClaimAgentRequest(q)
      PROVE  AttemptsFit(i)'
  BY <1>a, <1>b, <1>7 DEF ClaimAgentRequest, NextClaimable, Claimable,
         AttemptsFit, TypeOK
<1>8. ASSUME NEW r \in Run, SettleProposal(r)
      PROVE  AttemptsFit(i)'
  BY <1>a, <1>b, <1>8 DEF SettleProposal, SettleRequest, ResultArrives,
         ResultStatus, Forget, Serving, IsCurrentRun, Active, AttemptsFit,
         TypeOK, HasRequest
<1>9. ASSUME NEW r \in Run, SettleResearch(r)
      PROVE  AttemptsFit(i)'
  BY <1>a, <1>b, <1>9 DEF SettleResearch, SettleRequest, ResultArrives,
         ResultStatus, Forget, Serving, IsCurrentRun, Active, AttemptsFit,
         TypeOK, HasRequest
<1>10. ASSUME NEW q \in Request,
             BackoffElapses(q) \/ ReadDecision(q)
      PROVE  AttemptsFit(i)'
  BY <1>a, <1>b, <1>10 DEF BackoffElapses, ReadDecision, AttemptsFit
<1>11. ASSUME NEW p \in Owner,
             ReadAttempts(p) \/ AbandonTask(p) \/
             AbandonSession(p)
      PROVE  AttemptsFit(i)'
  BY <1>a, <1>b, <1>11 DEF ReadAttempts, AbandonTask, AbandonSession,
         CancelSession, AttemptsFit
<1>12. CASE StartScheduler \/ BeginTick \/ ReadOrphans \/ NoDecision \/
           NothingToClaim \/ BuildFails \/ BindRun \/ Submit
  BY <1>a, <1>b, <1>12 DEF StartScheduler, BeginTick, ReadOrphans, NoDecision,
         NothingToClaim, BuildFails, BeginFailure, BindRun, Submit,
         AttemptsFit
<1>13. CASE SubmissionFails \/ SubmissionAccepted \/ Accepted \/
           WorkerDies \/ BindTask \/ RefuseBinding \/ RestartWorker \/
           AcceptProposal
  BY <1>a, <1>b, <1>13 DEF SubmissionFails, BeginFailure, SubmissionAccepted,
         Accepted, AcceptCommand, Answer, WorkerDies, LoseWorker, BindTask,
         RefuseBinding, RestartWorker, AcceptProposal, UserOnly, ApplyPatches,
         AttemptsFit
<1>14. CASE AcceptFails \/ RejectProposal \/ StartInterface \/
           CleanupOrphanAgentTasks \/ MarkInterruptedAgentTasks \/
           AbortScheduler \/ Stop
  BY <1>a, <1>b, <1>14 DEF AcceptFails, UserOnly, RejectProposal,
         RejectPatches, StartInterface, CleanupOrphanAgentTasks,
         MarkInterruptedAgentTasks, AbortScheduler, ResetScheduler, Stop,
         AttemptsFit
<1>15. ASSUME NEW row \in rows, RecoverOrphan(row)
      PROVE  AttemptsFit(i)'
  BY <1>a, <1>b, <1>15 DEF RecoverOrphan, AttemptsFit
<1>16. ASSUME NEW all \in BOOLEAN, RecoveryDone(all)
      PROVE  AttemptsFit(i)'
  BY <1>a, <1>b, <1>16 DEF RecoveryDone, AttemptsFit
<1>17. ASSUME NEW ok \in BOOLEAN, ApplyDecision(ok)
      PROVE  AttemptsFit(i)'
  BY <1>a, <1>b, <1>17 DEF ApplyDecision, ApplyPatches, RejectPatches,
         AttemptsFit
<1>18. ASSUME NEW r \in Run,
             MakeRun(r) \/ PrepareRun(r) \/ RefuseResult(r) \/
             DropStaleTerminal(r) \/ SkipExitedRun(r)
      PROVE  AttemptsFit(i)'
  BY <1>a, <1>b, <1>18 DEF MakeRun, PrepareRun, RefuseResult, LoseWorker,
         DropStaleTerminal, Forget, SkipExitedRun, AttemptsFit
<1>19. ASSUME NEW r \in Run, NEW o \in {"proposal", "no_change"},
              FinalizeRun(r, o)
      PROVE  AttemptsFit(i)'
  BY <1>a, <1>b, <1>19 DEF FinalizeRun, AttemptsFit
<1>20. ASSUME NEW r \in Run, NEW retryable \in BOOLEAN,
              CheckError(r, retryable)
      PROVE  AttemptsFit(i)'
  BY <1>a, <1>b, <1>20 DEF CheckError, BeginFailure, AttemptsFit
<1>21. ASSUME NEW r \in Run \cup {None}, ShowProposal(r)
      PROVE  AttemptsFit(i)'
  BY <1>a, <1>b, <1>21 DEF ShowProposal, UserOnly, AttemptsFit
<1> QED BY <1>1, <1>2, <1>3, <1>4, <1>5, <1>6, <1>7, <1>8, <1>9, <1>10, <1>11,
       <1>12, <1>13, <1>14, <1>15, <1>16, <1>17, <1>18, <1>19, <1>20, <1>21
    DEF Next, SchedulerStep, FailureStep, SupervisorStep, RunStep,
           InterfaceStep, Owner, Accepted

LEMMA RequestStep ==
    ASSUME Typed, TypeOK', Agreement, aborts' = 0, [Next]_vars
    PROVE  RequestInv'
BY NamesStep, EndedStep, ReviewStep, DecisionStep, ResearchStep, AttemptsStep
   DEF RequestInv

-----------------------------------------------------------------------------
(* What the supervisor and the scheduler have in hand.                      *)

\* A proposal is closed by its own decision, or by a failure the supervisor is
\* in the middle of.
LEMMA StageStep ==
    ASSUME Typed, TypeOK', Agreement, aborts' = 0, [Next]_vars
    PROVE  StageInv'
<1> SUFFICES ASSUME NEW s \in Run PROVE StageFits(s)'
  BY DEF StageInv
<1>a. /\ TypeOK /\ Dispatched /\ HasRequest /\ Deciding
      /\ RequestInv /\ StageInv /\ BindingInv
      /\ SupervisorFailureInv /\ SchedulerFailureInv
      /\ RecoveryInv /\ DispatchInv
  BY DEF Typed, Agreement
<1>b. StageFits(s)
  BY <1>a DEF StageInv
<1>1. CASE UNCHANGED vars
  BY <1>a, <1>b, <1>1 DEF vars, StageFits, IsCurrentRun, Failing
<1>2. ASSUME NEW q \in Request, NEW m \in {"agent", "research"},
             SubmitRequest(q, m)
      PROVE  StageFits(s)'
  BY <1>a, <1>b, <1>2 DEF SubmitRequest, Stored, StageFits, IsCurrentRun,
         Failing, TypeOK, HasRequest
<1>3. ASSUME NEW q \in Request, NEW a \in {"approve", "reject"},
             DecideAgentRequest(q, a)
      PROVE  StageFits(s)'
  BY <1>a, <1>b, <1>3 DEF DecideAgentRequest, StageFits, IsCurrentRun,
         Failing, TypeOK, HasRequest
<1>4. ASSUME NEW q \in Request, ReviseAgentRequest(q)
      PROVE  StageFits(s)'
  <2>1. /\ status[q] # "running" /\ status'[q] # "running"
        /\ \A p \in Request \ {q} : status'[p] = status[p] /\ task'[p] = task[p]
        /\ UNCHANGED <<run, origin, stage, patches, taskStatus, failure>>
    BY <1>a, <1>4, Revised DEF ReviseAgentRequest
  <2>2. stage[s] # "none" => origin[s] \in Request
    BY <1>a DEF HasRequest
  <2> QED BY <1>b, <2>1, <2>2 DEF StageFits, IsCurrentRun, Failing
<1>5. ASSUME NEW p \in Owner, ReadAttempts(p)
      PROVE  StageFits(s)'
  <2>1. UNCHANGED <<status, run, task, origin, taskStatus, patches, stage>>
    BY <1>5 DEF ReadAttempts
  <2>2. Failing(s) => Failing(s)'
    <3>1. \/ failure'["supervisor"] = failure["supervisor"]
          \/ /\ failure'["supervisor"] # None
             /\ failure'["supervisor"].task = failure["supervisor"].task
      BY <1>a, <1>5, AttemptsRead, NoneIsNoFailure DEF Owner
    <3> QED BY <3>1 DEF Failing
  <2> QED BY <1>b, <2>1, <2>2 DEF StageFits, IsCurrentRun
<1>6. ASSUME NEW p \in Owner, AbandonTask(p)
      PROVE  StageFits(s)'
  <2>1. UNCHANGED <<status, run, task, origin, patches, stage>>
    BY <1>6 DEF AbandonTask
  <2>2. CASE s # failure[p].task
    <3>1. taskStatus'[s] = taskStatus[s]
      BY <1>a, <1>6, <2>2, TaskAbandoned
    <3>2. \/ failure'["supervisor"] = failure["supervisor"]
          \/ /\ failure'["supervisor"] # None
             /\ failure'["supervisor"].task = failure["supervisor"].task
      BY <1>a, <1>6, TaskAbandoned, NoneIsNoFailure DEF Owner
    <3>3. Failing(s) => Failing(s)'
      BY <3>2 DEF Failing
    <3> QED BY <1>b, <2>1, <3>1, <3>3 DEF StageFits, IsCurrentRun
  <2>3. CASE s = failure[p].task /\ p = "supervisor"
    <3>1. Failing(s)'
      BY <1>a, <1>6, <2>3, TaskAbandoned, NoneIsNoFailure DEF Failing
    <3> QED BY <1>b, <2>1, <3>1 DEF StageFits, IsCurrentRun
  <2>4. CASE s = failure[p].task /\ p = "scheduler"
    <3>1. stage[s] = "none"
      BY <1>a, <1>6, <2>4, TaskAbandoned, NoneIsNoRun
         DEF SchedulerFailureInv, FailureFits, Unsupervised
    <3> QED BY <2>1, <3>1 DEF StageFits
  <2> QED BY <2>2, <2>3, <2>4 DEF Owner
<1>7. ASSUME NEW p \in Owner, AbandonSession(p)
      PROVE  StageFits(s)'
  BY <1>a, <1>b, <1>7 DEF AbandonSession, CancelSession, StageFits,
         IsCurrentRun, Failing, TypeOK, Owner, Failure
<1>8. ASSUME NEW p \in Owner, UpdateRequest(p)
      PROVE  StageFits(s)'
  BY <1>a, <1>b, <1>8 DEF UpdateRequest, SettleRow, Proceed, BuryRequest,
         RequeueRequest, Forget, StageFits, IsCurrentRun, Failing, TypeOK,
         HasRequest, SessionOf, SupervisorFailureInv, SchedulerFailureInv,
         FailureFits, Owner, Failure
<1>9. ASSUME NEW row \in rows, RecoverOrphan(row)
      PROVE  StageFits(s)'
  BY <1>a, <1>b, <1>9 DEF RecoverOrphan, StepFrom, StageFits, IsCurrentRun,
         Failing, TypeOK, Owner, Failure
<1>10. ASSUME NEW ok \in BOOLEAN, ApplyDecision(ok)
      PROVE  StageFits(s)'
  BY <1>a, <1>b, <1>10 DEF ApplyDecision, ApplyPatches, CanApply,
         RejectPatches, StageFits, IsCurrentRun, Failing, TypeOK, Deciding,
         HasRequest, RequestInv, NamesItsRun
<1>11. CASE SettleDecision
  BY <1>a, <1>b, <1>11 DEF SettleDecision, DecisionStatus, StageFits,
         IsCurrentRun, Failing, TypeOK, Deciding, HasRequest
<1>12. ASSUME NEW q \in Request, ClaimAgentRequest(q)
      PROVE  StageFits(s)'
  BY <1>a, <1>b, <1>12 DEF ClaimAgentRequest, NextClaimable, Claimable,
         StageFits, IsCurrentRun, Failing, TypeOK, HasRequest,
         EndedIsForgotten, Unsupervised, RequestInv, NamesItsRun
<1>13. CASE BuildFails
  BY <1>a, <1>b, <1>13 DEF BuildFails, BeginFailure, StageFits, IsCurrentRun,
         Failing, TypeOK, Owner
<1>14. ASSUME NEW r \in Run, MakeRun(r)
      PROVE  StageFits(s)'
  BY <1>a, <1>b, <1>14 DEF MakeRun, StageFits, IsCurrentRun, Failing, TypeOK,
         HasRequest, RequestInv, NamesItsRun
<1>15. CASE BindRun
  BY <1>a, <1>b, <1>15 DEF BindRun, StageFits, IsCurrentRun, Failing, TypeOK,
         HasRequest, Unsupervised, DispatchInv, Bound, InHand, Unnamed,
         Dispatched, Dispatches
<1>16. CASE SubmissionFails
  BY <1>a, <1>b, <1>16 DEF SubmissionFails, BeginFailure, StageFits,
         IsCurrentRun, Failing, TypeOK, Owner
<1>17. ASSUME NEW r \in commands, AcceptCommand(r)
      PROVE  StageFits(s)'
  BY <1>a, <1>b, <1>17 DEF AcceptCommand, Answer, Serving, StageFits,
         IsCurrentRun, Failing, TypeOK
<1>18. ASSUME NEW r \in Run, PrepareRun(r)
      PROVE  StageFits(s)'
  BY <1>a, <1>b, <1>18 DEF PrepareRun, Serving, StageFits, IsCurrentRun,
         Failing, TypeOK, HasRequest, BindingInv
<1>19. CASE BindTask
  BY <1>a, <1>b, <1>19 DEF BindTask, IsCurrentRun, StageFits, Failing, TypeOK,
         HasRequest, BindingInv
<1>20. ASSUME NEW r \in Run, NEW o \in {"proposal", "no_change"},
              FinalizeRun(r, o)
      PROVE  StageFits(s)'
  BY <1>a, <1>b, <1>20 DEF FinalizeRun, Serving, StageFits, IsCurrentRun,
         Failing, TypeOK, HasRequest, BindingInv
<1>21. ASSUME NEW r \in Run, SettleProposal(r)
      PROVE  StageFits(s)'
  BY <1>a, <1>b, <1>21 DEF SettleProposal, SettleRequest, ResultArrives,
         ResultStatus, Forget, Serving, IsCurrentRun, Active, StageFits,
         Failing, TypeOK, HasRequest, BindingInv
<1>22. ASSUME NEW r \in Run, SettleResearch(r)
      PROVE  StageFits(s)'
  BY <1>a, <1>b, <1>22 DEF SettleResearch, SettleRequest, ResultArrives,
         ResultStatus, Forget, Serving, IsCurrentRun, Active, StageFits,
         Failing, TypeOK, HasRequest, BindingInv
<1>23. ASSUME NEW r \in Run, DropStaleTerminal(r)
      PROVE  StageFits(s)'
  BY <1>a, <1>b, <1>23 DEF DropStaleTerminal, Forget, Serving, IsCurrentRun,
         StageFits, Failing, TypeOK, HasRequest, BindingInv
<1>24. ASSUME NEW r \in Run, NEW retryable \in BOOLEAN,
              CheckError(r, retryable)
      PROVE  StageFits(s)'
  BY <1>a, <1>b, <1>24 DEF CheckError, BeginFailure, IsCurrentRun, StageFits,
         Failing, TypeOK, HasRequest, Owner, Failure
<1>25. CASE RestartWorker
  BY <1>a, <1>b, <1>25 DEF RestartWorker, Active, StageFits, IsCurrentRun,
         Failing, TypeOK
<1>26. CASE AcceptProposal
  BY <1>a, <1>b, <1>26 DEF AcceptProposal, ApplyPatches, CanApply, UserOnly,
         StageFits, IsCurrentRun, Failing, TypeOK
<1>27. CASE AcceptFails
  BY <1>a, <1>b, <1>27 DEF AcceptFails, UserOnly, StageFits, IsCurrentRun,
         Failing, TypeOK
<1>28. CASE RejectProposal
  BY <1>a, <1>b, <1>28 DEF RejectProposal, RejectPatches, UserOnly, StageFits,
         IsCurrentRun, Failing, TypeOK
<1>29. CASE CleanupOrphanAgentTasks
  BY <1>a, <1>b, <1>29 DEF CleanupOrphanAgentTasks, OrphanProposals, UserOnly,
         StageFits, IsCurrentRun, Failing, TypeOK, HasRequest, RequestInv,
         NamesItsRun
<1>30. CASE MarkInterruptedAgentTasks
  BY <1>a, <1>b, <1>30 DEF MarkInterruptedAgentTasks, UserOnly, StageFits,
         IsCurrentRun, Failing, TypeOK
<1>31. CASE AbortScheduler
  BY <1>a, <1>31 DEF AbortScheduler, TypeOK
<1>32. CASE Stop
  BY <1>a, <1>b, <1>32 DEF Stop, ResetScheduler, StageFits, IsCurrentRun,
         Failing, TypeOK, Owner
<1>33. ASSUME NEW q \in Request,
             BackoffElapses(q) \/ ReadDecision(q)
      PROVE  StageFits(s)'
  BY <1>a, <1>b, <1>33 DEF BackoffElapses, ReadDecision, StageFits,
         IsCurrentRun, Failing
<1>34. CASE StartScheduler \/ BeginTick \/ ReadOrphans \/ NoDecision \/
           NothingToClaim \/ Submit \/ SubmissionAccepted \/ WorkerDies
  BY <1>a, <1>b, <1>34 DEF StartScheduler, BeginTick, ReadOrphans, NoDecision,
         NothingToClaim, Submit, SubmissionAccepted, WorkerDies, LoseWorker,
         StageFits, IsCurrentRun, Failing
<1>35. CASE RefuseBinding \/ StartInterface
  BY <1>a, <1>b, <1>35 DEF RefuseBinding, LoseWorker, StartInterface,
         UserOnly, StageFits, IsCurrentRun, Failing
<1>36. ASSUME NEW all \in BOOLEAN, RecoveryDone(all)
      PROVE  StageFits(s)'
  BY <1>a, <1>b, <1>36 DEF RecoveryDone, StageFits, IsCurrentRun, Failing
<1>37. ASSUME NEW r \in Run,
             RefuseResult(r) \/ SkipExitedRun(r)
      PROVE  StageFits(s)'
  BY <1>a, <1>b, <1>37 DEF RefuseResult, LoseWorker, SkipExitedRun, StageFits,
         IsCurrentRun, Failing
<1>38. ASSUME NEW r \in Run \cup {None}, ShowProposal(r)
      PROVE  StageFits(s)'
  BY <1>a, <1>b, <1>38 DEF ShowProposal, UserOnly, StageFits, IsCurrentRun,
         Failing
<1> QED BY <1>1, <1>2, <1>3, <1>4, <1>5, <1>6, <1>7, <1>8, <1>9, <1>10, <1>11,
       <1>12, <1>13, <1>14, <1>15, <1>16, <1>17, <1>18, <1>19, <1>20, <1>21,
       <1>22, <1>23, <1>24, <1>25, <1>26, <1>27, <1>28, <1>29, <1>30, <1>31,
       <1>32, <1>33, <1>34, <1>35, <1>36, <1>37, <1>38
    DEF Next, SchedulerStep, FailureStep, SupervisorStep, RunStep,
           InterfaceStep, Owner

\* While a task is stored and not bound the supervisor does nothing else.
LEMMA BindingStep ==
    ASSUME Typed, TypeOK', BindingInv, [Next]_vars
    PROVE  BindingInv'
<1>a. TypeOK /\ Dispatched /\ HasRequest /\ Deciding /\ BindingInv
  BY DEF Typed
<1>1. CASE UNCHANGED vars
  BY <1>a, <1>1 DEF vars, BindingInv
<1>2. ASSUME NEW p \in Owner, ReadAttempts(p)
      PROVE  BindingInv'
  BY <1>a, <1>2 DEF ReadAttempts, StepFrom, BindingInv, TypeOK, Owner
<1>3. ASSUME NEW p \in Owner, AbandonTask(p)
      PROVE  BindingInv'
  BY <1>a, <1>3 DEF AbandonTask, StepFrom, BindingInv, TypeOK, Owner
<1>4. ASSUME NEW p \in Owner, AbandonSession(p)
      PROVE  BindingInv'
  BY <1>a, <1>4 DEF AbandonSession, CancelSession, BindingInv, TypeOK, Owner
<1>5. ASSUME NEW p \in Owner, UpdateRequest(p)
      PROVE  BindingInv'
  BY <1>a, <1>5 DEF UpdateRequest, SettleRow, Proceed, BuryRequest,
         RequeueRequest, Forget, BindingInv, TypeOK, Owner
<1>6. ASSUME NEW row \in rows, RecoverOrphan(row)
      PROVE  BindingInv'
  BY <1>a, <1>6 DEF RecoverOrphan, StepFrom, BindingInv, TypeOK, Owner
<1>7. CASE BuildFails
  BY <1>a, <1>7 DEF BuildFails, BeginFailure, BindingInv, TypeOK, Owner
<1>8. CASE SubmissionFails
  BY <1>a, <1>8 DEF SubmissionFails, BeginFailure, BindingInv, TypeOK, Owner
<1>9. ASSUME NEW r \in commands, AcceptCommand(r)
      PROVE  BindingInv'
  BY <1>a, <1>9 DEF AcceptCommand, Answer, Serving, BindingInv, TypeOK, Owner
<1>10. CASE WorkerDies
  BY <1>a, <1>10 DEF WorkerDies, LoseWorker, Serving, Active, BindingInv
<1>11. ASSUME NEW r \in Run, PrepareRun(r)
      PROVE  BindingInv'
  BY <1>a, <1>11 DEF PrepareRun, Serving, BindingInv, TypeOK, Owner
<1>12. CASE BindTask
  BY <1>a, <1>12 DEF BindTask, IsCurrentRun, BindingInv, TypeOK, Owner
<1>13. CASE RefuseBinding
  BY <1>a, <1>13 DEF RefuseBinding, LoseWorker, Active, BindingInv
<1>14. ASSUME NEW r \in Run, NEW o \in {"proposal", "no_change"},
              FinalizeRun(r, o)
      PROVE  BindingInv'
  BY <1>a, <1>14 DEF FinalizeRun, Serving, BindingInv, TypeOK, Owner
<1>15. ASSUME NEW r \in Run, SettleProposal(r)
      PROVE  BindingInv'
  BY <1>a, <1>15 DEF SettleProposal, SettleRequest, ResultArrives,
         ResultStatus, Forget, Serving, IsCurrentRun, Active, BindingInv,
         TypeOK, Owner
<1>16. ASSUME NEW r \in Run, SettleResearch(r)
      PROVE  BindingInv'
  BY <1>a, <1>16 DEF SettleResearch, SettleRequest, ResultArrives,
         ResultStatus, Forget, Serving, IsCurrentRun, Active, BindingInv,
         TypeOK, Owner
<1>17. ASSUME NEW r \in Run, RefuseResult(r)
      PROVE  BindingInv'
  BY <1>a, <1>17 DEF RefuseResult, LoseWorker, ResultArrives, Serving, Active,
         BindingInv
<1>18. ASSUME NEW r \in Run, DropStaleTerminal(r)
      PROVE  BindingInv'
  BY <1>a, <1>18 DEF DropStaleTerminal, Forget, Serving, IsCurrentRun,
         BindingInv, TypeOK, Owner
<1>19. ASSUME NEW r \in Run, NEW retryable \in BOOLEAN,
              CheckError(r, retryable)
      PROVE  BindingInv'
  BY <1>a, <1>19 DEF CheckError, BeginFailure, IsCurrentRun, BindingInv,
         TypeOK, Owner
<1>20. CASE RestartWorker
  BY <1>a, <1>20 DEF RestartWorker, Active, BindingInv, TypeOK, Owner
<1>21. CASE AbortScheduler
  BY <1>a, <1>21 DEF AbortScheduler, BindingInv, TypeOK, Owner
<1>22. CASE Stop
  BY <1>a, <1>22 DEF Stop, ResetScheduler, BindingInv, TypeOK, Owner
<1>23. ASSUME NEW q \in Request, NEW m \in {"agent", "research"},
              SubmitRequest(q, m)
      PROVE  BindingInv'
  BY <1>a, <1>23 DEF SubmitRequest, BindingInv
<1>24. ASSUME NEW q \in Request, NEW a \in {"approve", "reject"},
              DecideAgentRequest(q, a)
      PROVE  BindingInv'
  BY <1>a, <1>24 DEF DecideAgentRequest, BindingInv
<1>25. ASSUME NEW q \in Request,
             ReviseAgentRequest(q) \/ BackoffElapses(q) \/
             ReadDecision(q) \/ ClaimAgentRequest(q)
      PROVE  BindingInv'
  BY <1>a, <1>25 DEF ReviseAgentRequest, BackoffElapses, ReadDecision,
         ClaimAgentRequest, BindingInv
<1>26. CASE StartScheduler \/ BeginTick \/ ReadOrphans \/ NoDecision \/
           SettleDecision \/ NothingToClaim \/ BindRun \/ Submit
  BY <1>a, <1>26 DEF StartScheduler, BeginTick, ReadOrphans, NoDecision,
         SettleDecision, NothingToClaim, BindRun, Submit, BindingInv
<1>27. CASE SubmissionAccepted \/ AcceptProposal \/ AcceptFails \/
           RejectProposal \/ StartInterface \/ CleanupOrphanAgentTasks \/
           MarkInterruptedAgentTasks
  BY <1>a, <1>27 DEF SubmissionAccepted, AcceptProposal, UserOnly,
         ApplyPatches, AcceptFails, RejectProposal, RejectPatches,
         StartInterface, CleanupOrphanAgentTasks, MarkInterruptedAgentTasks,
         BindingInv
<1>28. ASSUME NEW all \in BOOLEAN, RecoveryDone(all)
      PROVE  BindingInv'
  BY <1>a, <1>28 DEF RecoveryDone, BindingInv
<1>29. ASSUME NEW ok \in BOOLEAN, ApplyDecision(ok)
      PROVE  BindingInv'
  BY <1>a, <1>29 DEF ApplyDecision, ApplyPatches, RejectPatches, BindingInv
<1>30. ASSUME NEW r \in Run,
             MakeRun(r) \/ SkipExitedRun(r)
      PROVE  BindingInv'
  BY <1>a, <1>30 DEF MakeRun, SkipExitedRun, BindingInv
<1>31. ASSUME NEW r \in Run \cup {None}, ShowProposal(r)
      PROVE  BindingInv'
  BY <1>a, <1>31 DEF ShowProposal, UserOnly, BindingInv
<1> QED BY <1>1, <1>2, <1>3, <1>4, <1>5, <1>6, <1>7, <1>8, <1>9, <1>10, <1>11,
       <1>12, <1>13, <1>14, <1>15, <1>16, <1>17, <1>18, <1>19, <1>20, <1>21,
       <1>22, <1>23, <1>24, <1>25, <1>26, <1>27, <1>28, <1>29, <1>30, <1>31
    DEF Next, SchedulerStep, FailureStep, SupervisorStep, RunStep,
           InterfaceStep, Owner

\* Nobody takes a running request from a supervisor that is failing it.
LEMMA SupervisorFailureStep ==
    ASSUME Typed, TypeOK', Agreement, aborts' = 0, [Next]_vars
    PROVE  SupervisorFailureInv'
<1>a. /\ TypeOK /\ Dispatched /\ HasRequest /\ Deciding
      /\ RequestInv /\ StageInv /\ BindingInv
      /\ SupervisorFailureInv /\ SchedulerFailureInv
      /\ RecoveryInv /\ DispatchInv
  BY DEF Typed, Agreement
<1>1. CASE UNCHANGED vars
  BY <1>a, <1>1 DEF vars, SupervisorFailureInv, FailureFits, SessionOf
<1>2. ASSUME NEW q \in Request, NEW m \in {"agent", "research"},
             SubmitRequest(q, m)
      PROVE  SupervisorFailureInv'
  BY <1>a, <1>2 DEF SubmitRequest, Stored, SupervisorFailureInv, FailureFits,
         SessionOf, TypeOK, Owner, Failure
<1>3. ASSUME NEW q \in Request, NEW a \in {"approve", "reject"},
             DecideAgentRequest(q, a)
      PROVE  SupervisorFailureInv'
  BY <1>a, <1>3 DEF DecideAgentRequest, SupervisorFailureInv, FailureFits,
         SessionOf, TypeOK, Owner, Failure
<1>4. ASSUME NEW q \in Request, ReviseAgentRequest(q)
      PROVE  SupervisorFailureInv'
  <2>1. /\ status[q] # "running"
        /\ \A p \in Request \ {q} : status'[p] = status[p] /\ task'[p] = task[p]
        /\ UNCHANGED <<mode, run, origin, stage, session, attempts, failure>>
    BY <1>a, <1>4, Revised DEF ReviseAgentRequest
  <2>2. failure["supervisor"] # None => failure["supervisor"].request \in Request
    BY <1>a, FailuresAreOfRequests
  <2> QED BY <1>a, <2>1, <2>2 DEF SupervisorFailureInv, FailureFits, SessionOf
<1>5. ASSUME NEW p \in Owner, ReadAttempts(p)
      PROVE  SupervisorFailureInv'
  <2>1. UNCHANGED <<status, mode, run, task, attempts, origin,
                  session, stage>>
    BY <1>5 DEF ReadAttempts, requestVars, runVars, schedulerVars,
                channelVars, supervisorVars
  <2>2. CASE p = "supervisor"
    <3>1. /\ failure["supervisor"] # None
          /\ failure'["supervisor"].request = failure["supervisor"].request
          /\ failure'["supervisor"].task = failure["supervisor"].task
          /\ failure'["supervisor"].session = failure["supervisor"].session
      BY <1>a, <1>5, <2>2, AttemptsRead
    <3>2. failure'["supervisor"].attempts = attempts[failure["supervisor"].request]
      BY <1>a, <1>5, <2>2, AttemptsRead
    <3>3. failure'["supervisor"].step =
              StepFrom(failure["supervisor"].task, failure["supervisor"].session)
      BY <1>a, <1>5, <2>2, AttemptsRead
    <3> QED BY <1>a, <2>1, <3>1, <3>2, <3>3 DEF StepFrom, SupervisorFailureInv, FailureFits, SessionOf
  <2>3. CASE p # "supervisor"
    <3>1. failure'["supervisor"] = failure["supervisor"]
      BY <1>a, <1>5, <2>3, AttemptsRead DEF Owner
    <3> QED BY <1>a, <2>1, <3>1 DEF SupervisorFailureInv, FailureFits, SessionOf
  <2> QED BY <2>2, <2>3
<1>6. ASSUME NEW p \in Owner, AbandonTask(p)
      PROVE  SupervisorFailureInv'
  BY <1>a, <1>6 DEF AbandonTask, StepFrom, SupervisorFailureInv, FailureFits,
         SessionOf, TypeOK, Owner, Failure
<1>7. ASSUME NEW p \in Owner, AbandonSession(p)
      PROVE  SupervisorFailureInv'
  BY <1>a, <1>7 DEF AbandonSession, CancelSession, SupervisorFailureInv,
         FailureFits, SessionOf, TypeOK, Owner, Failure
<1>8. ASSUME NEW p \in Owner, UpdateRequest(p)
      PROVE  SupervisorFailureInv'
  <2>1. CASE p = "supervisor"
    BY <1>a, <1>8, <2>1, RequestSettled DEF SupervisorFailureInv
  <2>2. CASE p = "scheduler"
    <3>1. UNCHANGED <<mode, attempts, origin, session, stage>>
      BY <1>8, <2>2 DEF UpdateRequest, Proceed
    <3>2. failure'["supervisor"] = failure["supervisor"]
      BY <1>a, <1>8, <2>2, RequestSettled DEF Owner
    <3> SUFFICES ASSUME failure["supervisor"] # None
                 PROVE  SupervisorFailureInv'
      BY <3>2 DEF SupervisorFailureInv
    <3> DEFINE q == failure["supervisor"].request
    <3>3. q \in Request /\ q # failure["scheduler"].request
      BY <1>a, <1>8, <2>2, FailuresAreOfRequests, FailuresAreSupervised,
         RequestSettled DEF SchedulerFailureInv
    <3>4. status'[q] = status[q] /\ run'[q] = run[q]
      BY <1>a, <1>8, <2>2, <3>3, RequestSettled
    <3> QED BY <1>a, <3>1, <3>2, <3>4
            DEF SupervisorFailureInv, FailureFits, SessionOf
  <2> QED BY <2>1, <2>2 DEF Owner
<1>9. ASSUME NEW row \in rows, RecoverOrphan(row)
      PROVE  SupervisorFailureInv'
  BY <1>a, <1>9 DEF RecoverOrphan, StepFrom, SupervisorFailureInv,
         FailureFits, SessionOf, TypeOK, Owner, Failure
<1>10. CASE SettleDecision
  BY <1>a, <1>10 DEF SettleDecision, DecisionStatus, SupervisorFailureInv,
         FailureFits, SessionOf, TypeOK, Deciding, Failure, Owner
<1>11. ASSUME NEW q \in Request, ClaimAgentRequest(q)
      PROVE  SupervisorFailureInv'
  BY <1>a, <1>11 DEF ClaimAgentRequest, NextClaimable, Claimable,
         SupervisorFailureInv, FailureFits, SessionOf, TypeOK, Owner, Failure
<1>12. CASE BuildFails
  BY <1>a, <1>12 DEF BuildFails, BeginFailure, SupervisorFailureInv,
         FailureFits, SessionOf, TypeOK, Owner, Failure, DispatchInv, Bound,
         InHand, Unsupervised, Unnamed, Dispatched, Dispatches
<1>13. ASSUME NEW r \in Run, MakeRun(r)
      PROVE  SupervisorFailureInv'
  BY <1>a, <1>13 DEF MakeRun, SupervisorFailureInv, FailureFits, SessionOf,
         TypeOK, Failure, Owner, DispatchInv, Bound, InHand, Unsupervised,
         Unnamed, Dispatched, Dispatches, RequestInv, NamesItsRun
<1>14. CASE BindRun
  BY <1>a, <1>14 DEF BindRun, SupervisorFailureInv, FailureFits, SessionOf,
         TypeOK, Failure, Owner, DispatchInv, Bound, InHand, Unsupervised,
         Unnamed, Dispatched, Dispatches, RequestInv, NamesItsRun
<1>15. CASE SubmissionFails
  BY <1>a, <1>15 DEF SubmissionFails, BeginFailure, SupervisorFailureInv,
         FailureFits, SessionOf, TypeOK, Owner, Failure, DispatchInv, Bound,
         InHand, Unsupervised, Unnamed, Dispatched, Dispatches
<1>16. ASSUME NEW r \in commands, AcceptCommand(r)
      PROVE  SupervisorFailureInv'
  BY <1>a, <1>16 DEF AcceptCommand, Answer, Serving, SupervisorFailureInv,
         FailureFits, SessionOf, TypeOK, Failure, Owner, DispatchInv, Bound,
         InHand, Unsupervised, Unnamed, Dispatched, Dispatches
<1>17. CASE BindTask
  BY <1>a, <1>17 DEF BindTask, IsCurrentRun, SupervisorFailureInv,
         FailureFits, SessionOf, TypeOK, HasRequest, BindingInv, Failure,
         Owner
<1>18. ASSUME NEW r \in Run, NEW o \in {"proposal", "no_change"},
              FinalizeRun(r, o)
      PROVE  SupervisorFailureInv'
  BY <1>a, <1>18 DEF FinalizeRun, Serving, SupervisorFailureInv, FailureFits,
         SessionOf, TypeOK, HasRequest, BindingInv, Failure, Owner
<1>19. ASSUME NEW r \in Run, SettleProposal(r)
      PROVE  SupervisorFailureInv'
  BY <1>a, <1>19 DEF SettleProposal, SettleRequest, ResultArrives,
         ResultStatus, Forget, Serving, IsCurrentRun, Active,
         SupervisorFailureInv, FailureFits, SessionOf, TypeOK, HasRequest,
         BindingInv, Failure, Owner
<1>20. ASSUME NEW r \in Run, SettleResearch(r)
      PROVE  SupervisorFailureInv'
  BY <1>a, <1>20 DEF SettleResearch, SettleRequest, ResultArrives,
         ResultStatus, Forget, Serving, IsCurrentRun, Active,
         SupervisorFailureInv, FailureFits, SessionOf, TypeOK, HasRequest,
         BindingInv, Failure, Owner
<1>21. ASSUME NEW r \in Run, DropStaleTerminal(r)
      PROVE  SupervisorFailureInv'
  BY <1>a, <1>21 DEF DropStaleTerminal, Forget, Serving, IsCurrentRun,
         SupervisorFailureInv, FailureFits, SessionOf, TypeOK, HasRequest,
         BindingInv, Failure, Owner
<1>22. ASSUME NEW r \in Run, NEW retryable \in BOOLEAN,
              CheckError(r, retryable)
      PROVE  SupervisorFailureInv'
  BY <1>a, <1>22 DEF CheckError, BeginFailure, IsCurrentRun,
         SupervisorFailureInv, FailureFits, SessionOf, TypeOK, HasRequest,
         Active, Failure, Owner, RequestInv, NamesItsRun
<1>23. CASE RestartWorker
  BY <1>a, <1>23 DEF RestartWorker, Active, SupervisorFailureInv, FailureFits,
         SessionOf, TypeOK, HasRequest, BindingInv, Failure, Owner
<1>24. CASE AbortScheduler
  BY <1>a, <1>24 DEF AbortScheduler, TypeOK
<1>25. CASE Stop
  BY <1>a, <1>25 DEF Stop, ResetScheduler, SupervisorFailureInv, FailureFits,
         SessionOf, TypeOK, Owner
<1>26. ASSUME NEW q \in Request,
             BackoffElapses(q) \/ ReadDecision(q)
      PROVE  SupervisorFailureInv'
  BY <1>a, <1>26 DEF BackoffElapses, ReadDecision, SupervisorFailureInv,
         FailureFits, SessionOf
<1>27. CASE StartScheduler \/ BeginTick \/ ReadOrphans \/ NoDecision \/
           NothingToClaim \/ Submit \/ SubmissionAccepted \/ WorkerDies
  BY <1>a, <1>27 DEF StartScheduler, BeginTick, ReadOrphans, NoDecision,
         NothingToClaim, Submit, SubmissionAccepted, WorkerDies, LoseWorker,
         SupervisorFailureInv, FailureFits, SessionOf
<1>28. CASE RefuseBinding \/ AcceptProposal \/ AcceptFails \/ RejectProposal
           \/ StartInterface \/ CleanupOrphanAgentTasks \/
           MarkInterruptedAgentTasks
  BY <1>a, <1>28 DEF RefuseBinding, LoseWorker, AcceptProposal, UserOnly,
         ApplyPatches, AcceptFails, RejectProposal, RejectPatches,
         StartInterface, CleanupOrphanAgentTasks, MarkInterruptedAgentTasks,
         SupervisorFailureInv, FailureFits, SessionOf
<1>29. ASSUME NEW all \in BOOLEAN, RecoveryDone(all)
      PROVE  SupervisorFailureInv'
  BY <1>a, <1>29 DEF RecoveryDone, SupervisorFailureInv, FailureFits,
         SessionOf
<1>30. ASSUME NEW ok \in BOOLEAN, ApplyDecision(ok)
      PROVE  SupervisorFailureInv'
  BY <1>a, <1>30 DEF ApplyDecision, ApplyPatches, RejectPatches,
         SupervisorFailureInv, FailureFits, SessionOf
<1>31. ASSUME NEW r \in Run,
             PrepareRun(r) \/ RefuseResult(r) \/ SkipExitedRun(r)
      PROVE  SupervisorFailureInv'
  BY <1>a, <1>31 DEF PrepareRun, RefuseResult, LoseWorker, SkipExitedRun,
         SupervisorFailureInv, FailureFits, SessionOf
<1>32. ASSUME NEW r \in Run \cup {None}, ShowProposal(r)
      PROVE  SupervisorFailureInv'
  BY <1>a, <1>32 DEF ShowProposal, UserOnly, SupervisorFailureInv,
         FailureFits, SessionOf
<1> QED BY <1>1, <1>2, <1>3, <1>4, <1>5, <1>6, <1>7, <1>8, <1>9, <1>10, <1>11,
       <1>12, <1>13, <1>14, <1>15, <1>16, <1>17, <1>18, <1>19, <1>20, <1>21,
       <1>22, <1>23, <1>24, <1>25, <1>26, <1>27, <1>28, <1>29, <1>30, <1>31,
       <1>32
    DEF Next, SchedulerStep, FailureStep, SupervisorStep, RunStep,
           InterfaceStep, Owner

\* The scheduler fails requests only that no supervised run is behind.
LEMMA SchedulerFailureStep ==
    ASSUME Typed, TypeOK', Agreement, aborts' = 0, [Next]_vars
    PROVE  SchedulerFailureInv'
<1>a. /\ TypeOK /\ Dispatched /\ HasRequest /\ Deciding
      /\ RequestInv /\ StageInv /\ BindingInv
      /\ SupervisorFailureInv /\ SchedulerFailureInv
      /\ RecoveryInv /\ DispatchInv
  BY DEF Typed, Agreement
<1>1. CASE UNCHANGED vars
  BY <1>a, <1>1 DEF vars, SchedulerFailureInv, FailureFits, SessionOf,
         Unsupervised
<1>2. ASSUME NEW q \in Request, NEW m \in {"agent", "research"},
             SubmitRequest(q, m)
      PROVE  SchedulerFailureInv'
  BY <1>a, <1>2 DEF SubmitRequest, Stored, SchedulerFailureInv, FailureFits,
         SessionOf, Unsupervised, TypeOK, Owner, Failure
<1>3. ASSUME NEW q \in Request, NEW a \in {"approve", "reject"},
             DecideAgentRequest(q, a)
      PROVE  SchedulerFailureInv'
  BY <1>a, <1>3 DEF DecideAgentRequest, SchedulerFailureInv, FailureFits,
         SessionOf, Unsupervised, TypeOK, Owner, Failure
<1>4. ASSUME NEW q \in Request, ReviseAgentRequest(q)
      PROVE  SchedulerFailureInv'
  <2>1. /\ status[q] # "running"
        /\ \A p \in Request \ {q} : status'[p] = status[p] /\ task'[p] = task[p]
        /\ UNCHANGED <<mode, run, origin, stage, session, attempts, failure, pc,
                       dispatch, rows>>
    BY <1>a, <1>4, Revised DEF ReviseAgentRequest
  <2>2. failure["scheduler"] # None => failure["scheduler"].request \in Request
    BY <1>a, FailuresAreOfRequests
  <2> QED BY <1>a, <2>1, <2>2
          DEF SchedulerFailureInv, FailureFits, SessionOf, Unsupervised
<1>5. ASSUME NEW p \in Owner, ReadAttempts(p)
      PROVE  SchedulerFailureInv'
  <2>1. UNCHANGED <<status, mode, run, task, attempts, origin,
                  session, stage, pc, rows, dispatch>>
    BY <1>5 DEF ReadAttempts, requestVars, runVars, schedulerVars,
                channelVars, supervisorVars
  <2>2. CASE p = "scheduler"
    <3>1. /\ failure["scheduler"] # None
          /\ failure'["scheduler"].request = failure["scheduler"].request
          /\ failure'["scheduler"].task = failure["scheduler"].task
          /\ failure'["scheduler"].session = failure["scheduler"].session
      BY <1>a, <1>5, <2>2, AttemptsRead
    <3>2. failure'["scheduler"].attempts = attempts[failure["scheduler"].request]
      BY <1>a, <1>5, <2>2, AttemptsRead
    <3>3. failure'["scheduler"].step =
              StepFrom(failure["scheduler"].task, failure["scheduler"].session)
      BY <1>a, <1>5, <2>2, AttemptsRead
    <3> QED BY <1>a, <2>1, <3>1, <3>2, <3>3 DEF StepFrom, SchedulerFailureInv, FailureFits, SessionOf, Unsupervised
  <2>3. CASE p # "scheduler"
    <3>1. failure'["scheduler"] = failure["scheduler"]
      BY <1>a, <1>5, <2>3, AttemptsRead DEF Owner
    <3> QED BY <1>a, <2>1, <3>1 DEF SchedulerFailureInv, FailureFits, SessionOf, Unsupervised
  <2> QED BY <2>2, <2>3
<1>6. ASSUME NEW p \in Owner, AbandonTask(p)
      PROVE  SchedulerFailureInv'
  <2>1. UNCHANGED <<status, mode, run, task, attempts, origin, session, stage,
                    pc, rows, dispatch>>
    BY <1>6 DEF AbandonTask
  <2>2. CASE p = "scheduler"
    <3>1. /\ failure["scheduler"] # None /\ failure["scheduler"].step = "task"
          /\ failure'["scheduler"].request = failure["scheduler"].request
          /\ failure'["scheduler"].task = failure["scheduler"].task
          /\ failure'["scheduler"].session = failure["scheduler"].session
          /\ failure'["scheduler"].attempts = failure["scheduler"].attempts
      BY <1>a, <1>6, <2>2, TaskAbandoned
    <3>2. failure'["scheduler"].step = StepFrom(None, failure["scheduler"].session)
      BY <1>a, <1>6, <2>2, TaskAbandoned
    <3> QED BY <1>a, <2>1, <3>1, <3>2
            DEF StepFrom, SchedulerFailureInv, FailureFits, SessionOf,
                Unsupervised
  <2>3. CASE p # "scheduler"
    <3>1. failure'["scheduler"] = failure["scheduler"]
      BY <1>a, <1>6, <2>3, TaskAbandoned DEF Owner
    <3> QED BY <1>a, <2>1, <3>1
            DEF SchedulerFailureInv, FailureFits, SessionOf, Unsupervised
  <2> QED BY <2>2, <2>3
<1>7. ASSUME NEW p \in Owner, AbandonSession(p)
      PROVE  SchedulerFailureInv'
  BY <1>a, <1>7 DEF AbandonSession, CancelSession, SchedulerFailureInv,
         FailureFits, SessionOf, Unsupervised, TypeOK, Owner, Failure
<1>8. ASSUME NEW p \in Owner, UpdateRequest(p)
      PROVE  SchedulerFailureInv'
  <2>1. CASE p = "scheduler"
    BY <1>a, <1>8, <2>1, RequestSettled DEF SchedulerFailureInv
  <2>2. CASE p = "supervisor"
    <3>1. UNCHANGED <<mode, attempts, origin, session, rows, pc, dispatch>>
      BY <1>8, <2>2 DEF UpdateRequest, Proceed
    <3>2. failure'["scheduler"] = failure["scheduler"]
      BY <1>a, <1>8, <2>2, RequestSettled DEF Owner
    <3> SUFFICES ASSUME failure["scheduler"] # None
                 PROVE  SchedulerFailureInv'
      BY <3>2 DEF SchedulerFailureInv
    <3> DEFINE q == failure["scheduler"].request
    <3>3. q \in Request /\ Unsupervised(q) /\ failure["supervisor"] # None
      BY <1>a, <1>8, <2>2, FailuresAreOfRequests, RequestSettled
         DEF SchedulerFailureInv
    <3>4. status'[q] = status[q] /\ run'[q] = run[q]
      BY <1>a, <1>8, <2>2, <3>3, FailuresAreSupervised, RequestSettled
    <3>5. run[q] # None => run[q] \in Run
      BY <1>a, <3>3, TypeParts DEF RequestTyped
    <3>6. Unsupervised(q)'
      BY <1>a, <1>8, <3>2, <3>3, <3>4, <3>5, RequestSettled DEF Unsupervised
    <3> QED BY <1>a, <3>1, <3>2, <3>4, <3>6
            DEF SchedulerFailureInv, FailureFits, SessionOf
  <2> QED BY <2>1, <2>2 DEF Owner
<1>9. CASE StartScheduler
  BY <1>a, <1>9 DEF StartScheduler, SchedulerFailureInv, FailureFits,
         SessionOf, Unsupervised, TypeOK, Owner, Failure, Deciding
<1>10. CASE BeginTick
  BY <1>a, <1>10 DEF BeginTick, Active, SchedulerFailureInv, FailureFits,
         SessionOf, Unsupervised, TypeOK, Owner, Failure, Deciding
<1>11. CASE ReadOrphans
  BY <1>a, <1>11 DEF ReadOrphans, Orphaned, SchedulerFailureInv, FailureFits,
         SessionOf, Unsupervised, TypeOK, Owner, Failure, Deciding
<1>12. ASSUME NEW row \in rows, RecoverOrphan(row)
      PROVE  SchedulerFailureInv'
  BY <1>a, <1>12 DEF RecoverOrphan, StepFrom, SchedulerFailureInv,
         FailureFits, SessionOf, Unsupervised, TypeOK, Owner, Failure, Row,
         RecoveryInv, RowFits, RequestInv, NamesItsRun
<1>13. ASSUME NEW all \in BOOLEAN, RecoveryDone(all)
      PROVE  SchedulerFailureInv'
  BY <1>a, <1>13 DEF RecoveryDone, SchedulerFailureInv, FailureFits,
         SessionOf, Unsupervised, TypeOK, Owner, Failure, Deciding
<1>14. ASSUME NEW q \in Request, ReadDecision(q)
      PROVE  SchedulerFailureInv'
  BY <1>a, <1>14 DEF ReadDecision, Decided, SchedulerFailureInv, FailureFits,
         SessionOf, Unsupervised, TypeOK, Owner, Failure, Deciding
<1>15. CASE NoDecision
  BY <1>a, <1>15 DEF NoDecision, SchedulerFailureInv, FailureFits, SessionOf,
         Unsupervised, TypeOK, Owner, Failure, Deciding
<1>16. ASSUME NEW ok \in BOOLEAN, ApplyDecision(ok)
      PROVE  SchedulerFailureInv'
  BY <1>a, <1>16 DEF ApplyDecision, ApplyPatches, CanApply, RejectPatches,
         SchedulerFailureInv, FailureFits, SessionOf, Unsupervised, TypeOK,
         Owner, Failure, Deciding
<1>17. CASE SettleDecision
  BY <1>a, <1>17 DEF SettleDecision, DecisionStatus, SchedulerFailureInv,
         FailureFits, SessionOf, Unsupervised, TypeOK, Owner, Failure,
         Deciding
<1>18. ASSUME NEW q \in Request, ClaimAgentRequest(q)
      PROVE  SchedulerFailureInv'
  BY <1>a, <1>18 DEF ClaimAgentRequest, NextClaimable, Claimable,
         SchedulerFailureInv, FailureFits, SessionOf, Unsupervised, TypeOK,
         Owner, Failure, Deciding
<1>19. CASE NothingToClaim
  BY <1>a, <1>19 DEF NothingToClaim, SchedulerFailureInv, FailureFits,
         SessionOf, Unsupervised, TypeOK, Owner, Failure, Deciding
<1>20. CASE BuildFails
  BY <1>a, <1>20 DEF BuildFails, BeginFailure, SchedulerFailureInv,
         FailureFits, SessionOf, Unsupervised, TypeOK, Owner, Failure,
         DispatchInv, Bound, InHand, Unnamed, Dispatched, Dispatches,
         RecoveryInv
<1>21. ASSUME NEW r \in Run, MakeRun(r)
      PROVE  SchedulerFailureInv'
  BY <1>a, <1>21 DEF MakeRun, SchedulerFailureInv, FailureFits, SessionOf,
         Unsupervised, TypeOK, Owner, Failure, Deciding
<1>22. CASE BindRun
  BY <1>a, <1>22 DEF BindRun, SchedulerFailureInv, FailureFits, SessionOf,
         Unsupervised, TypeOK, Owner, Failure, Deciding
<1>23. CASE Submit
  BY <1>a, <1>23 DEF Submit, SchedulerFailureInv, FailureFits, SessionOf,
         Unsupervised, TypeOK, Owner, Failure, Deciding
<1>24. CASE SubmissionFails
  BY <1>a, <1>24 DEF SubmissionFails, BeginFailure, SchedulerFailureInv,
         FailureFits, SessionOf, Unsupervised, TypeOK, Owner, Failure,
         DispatchInv, Bound, InHand, Unnamed, Dispatched, Dispatches,
         RecoveryInv
<1>25. CASE SubmissionAccepted
  BY <1>a, <1>25 DEF SubmissionAccepted, SchedulerFailureInv, FailureFits,
         SessionOf, Unsupervised, TypeOK, Owner, Failure, Deciding
<1>26. ASSUME NEW r \in commands, AcceptCommand(r)
      PROVE  SchedulerFailureInv'
  BY <1>a, <1>26 DEF AcceptCommand, Answer, Serving, SchedulerFailureInv,
         FailureFits, SessionOf, Unsupervised, TypeOK, Owner, Failure,
         Deciding, DispatchInv, Bound, InHand, Unnamed, Dispatched, Dispatches
<1>27. CASE BindTask
  BY <1>a, <1>27 DEF BindTask, IsCurrentRun, SchedulerFailureInv, FailureFits,
         SessionOf, Unsupervised, TypeOK, HasRequest, BindingInv, Failure,
         Owner
<1>28. ASSUME NEW r \in Run, NEW o \in {"proposal", "no_change"},
              FinalizeRun(r, o)
      PROVE  SchedulerFailureInv'
  BY <1>a, <1>28 DEF FinalizeRun, Serving, SchedulerFailureInv, FailureFits,
         SessionOf, Unsupervised, TypeOK, HasRequest, BindingInv, Failure,
         Owner
<1>29. ASSUME NEW r \in Run, SettleProposal(r)
      PROVE  SchedulerFailureInv'
  BY <1>a, <1>29 DEF SettleProposal, SettleRequest, ResultArrives,
         ResultStatus, Forget, Serving, IsCurrentRun, Active,
         SchedulerFailureInv, FailureFits, SessionOf, Unsupervised, TypeOK,
         HasRequest, BindingInv, Failure, Owner
<1>30. ASSUME NEW r \in Run, SettleResearch(r)
      PROVE  SchedulerFailureInv'
  BY <1>a, <1>30 DEF SettleResearch, SettleRequest, ResultArrives,
         ResultStatus, Forget, Serving, IsCurrentRun, Active,
         SchedulerFailureInv, FailureFits, SessionOf, Unsupervised, TypeOK,
         HasRequest, BindingInv, Failure, Owner
<1>31. ASSUME NEW r \in Run, DropStaleTerminal(r)
      PROVE  SchedulerFailureInv'
  BY <1>a, <1>31 DEF DropStaleTerminal, Forget, Serving, IsCurrentRun,
         SchedulerFailureInv, FailureFits, SessionOf, Unsupervised, TypeOK,
         HasRequest, BindingInv, Failure, Owner
<1>32. ASSUME NEW r \in Run, NEW retryable \in BOOLEAN,
              CheckError(r, retryable)
      PROVE  SchedulerFailureInv'
  BY <1>a, <1>32 DEF CheckError, BeginFailure, IsCurrentRun,
         SchedulerFailureInv, FailureFits, SessionOf, Unsupervised, TypeOK,
         HasRequest, Active, Failure, Owner, RequestInv, NamesItsRun
<1>33. CASE RestartWorker
  BY <1>a, <1>33 DEF RestartWorker, Active, SchedulerFailureInv, FailureFits,
         SessionOf, Unsupervised, TypeOK, HasRequest, BindingInv, Failure,
         Owner
<1>34. CASE AbortScheduler
  BY <1>a, <1>34 DEF AbortScheduler, TypeOK
<1>35. CASE Stop
  BY <1>a, <1>35 DEF Stop, ResetScheduler, SchedulerFailureInv, FailureFits,
         SessionOf, Unsupervised, TypeOK, Owner
<1>36. ASSUME NEW q \in Request, BackoffElapses(q)
      PROVE  SchedulerFailureInv'
  BY <1>a, <1>36 DEF BackoffElapses, SchedulerFailureInv, FailureFits,
         SessionOf, Unsupervised
<1>37. CASE WorkerDies \/ RefuseBinding \/ AcceptProposal \/ AcceptFails \/
           RejectProposal \/ StartInterface \/ CleanupOrphanAgentTasks \/
           MarkInterruptedAgentTasks
  BY <1>a, <1>37 DEF WorkerDies, LoseWorker, RefuseBinding, AcceptProposal,
         UserOnly, ApplyPatches, AcceptFails, RejectProposal, RejectPatches,
         StartInterface, CleanupOrphanAgentTasks, MarkInterruptedAgentTasks,
         SchedulerFailureInv, FailureFits, SessionOf, Unsupervised
<1>38. ASSUME NEW r \in Run,
             PrepareRun(r) \/ RefuseResult(r) \/ SkipExitedRun(r)
      PROVE  SchedulerFailureInv'
  BY <1>a, <1>38 DEF PrepareRun, RefuseResult, LoseWorker, SkipExitedRun,
         SchedulerFailureInv, FailureFits, SessionOf, Unsupervised
<1>39. ASSUME NEW r \in Run \cup {None}, ShowProposal(r)
      PROVE  SchedulerFailureInv'
  BY <1>a, <1>39 DEF ShowProposal, UserOnly, SchedulerFailureInv, FailureFits,
         SessionOf, Unsupervised
<1> QED BY <1>1, <1>2, <1>3, <1>4, <1>5, <1>6, <1>7, <1>8, <1>9, <1>10, <1>11,
       <1>12, <1>13, <1>14, <1>15, <1>16, <1>17, <1>18, <1>19, <1>20, <1>21,
       <1>22, <1>23, <1>24, <1>25, <1>26, <1>27, <1>28, <1>29, <1>30, <1>31,
       <1>32, <1>33, <1>34, <1>35, <1>36, <1>37, <1>38, <1>39
    DEF Next, SchedulerStep, FailureStep, SupervisorStep, RunStep,
           InterfaceStep, Owner

\* What recovery has read cannot change: the supervisor has not heard of it.
LEMMA RecoveryStep ==
    ASSUME Typed, TypeOK', Agreement, aborts' = 0, [Next]_vars
    PROVE  RecoveryInv'
<1>a. /\ TypeOK /\ Dispatched /\ HasRequest /\ Deciding
      /\ RequestInv /\ StageInv /\ BindingInv
      /\ SupervisorFailureInv /\ SchedulerFailureInv
      /\ RecoveryInv /\ DispatchInv
  BY DEF Typed, Agreement
<1>1. CASE UNCHANGED vars
  BY <1>a, <1>1 DEF vars, RecoveryInv, RowFits, Unsupervised, Active
<1>2. ASSUME NEW q \in Request, NEW m \in {"agent", "research"},
             SubmitRequest(q, m)
      PROVE  RecoveryInv'
  BY <1>a, <1>2 DEF SubmitRequest, Stored, RecoveryInv, RowFits, Unsupervised,
         Active, TypeOK, Row
<1>3. ASSUME NEW q \in Request, NEW a \in {"approve", "reject"},
             DecideAgentRequest(q, a)
      PROVE  RecoveryInv'
  BY <1>a, <1>3 DEF DecideAgentRequest, RecoveryInv, RowFits, Unsupervised,
         Active, TypeOK, Row
<1>4. ASSUME NEW q \in Request, ReviseAgentRequest(q)
      PROVE  RecoveryInv'
  BY <1>a, <1>4 DEF ReviseAgentRequest, RecoveryInv, RowFits, Unsupervised,
         Active, TypeOK, Row
<1>5. ASSUME NEW p \in Owner, UpdateRequest(p)
      PROVE  RecoveryInv'
  <2>1. UNCHANGED <<rows, seen, attempts>>
    BY <1>5 DEF UpdateRequest
  <2>2. pc' = pc \/ (pc = "failing" /\ pc' = "tick")
    <3>1. Proceed(p)
      BY <1>5 DEF UpdateRequest
    <3> QED BY <3>1 DEF Proceed
  <2>3. ASSUME NEW row \in rows PROVE RowFits(row)'
    <3>1. RowFits(row) /\ row.request \in Request
      BY <1>a, TypeParts DEF RecoveryInv, SchedulerTyped, Row
    <3>2. row.request # failure[p].request
      <4>1. CASE p = "supervisor"
        BY <1>a, <1>5, <3>1, <4>1, FailuresAreSupervised, RequestSettled
           DEF RowFits
      <4>2. CASE p = "scheduler"
        BY <1>a, <1>5, <2>3, <4>2, RequestSettled DEF SchedulerFailureInv
      <4> QED BY <4>1, <4>2 DEF Owner
    <3>3. /\ status'[row.request] = status[row.request]
          /\ run'[row.request] = run[row.request]
          /\ task'[row.request] = task[row.request]
      BY <1>a, <1>5, <3>1, <3>2, RequestSettled
    <3>4. run[row.request] # None => run[row.request] \in Run
      BY <1>a, <3>1, TypeParts DEF RequestTyped
    <3>5. Unsupervised(row.request)'
      BY <1>a, <1>5, <3>1, <3>3, <3>4, RequestSettled
         DEF RowFits, Unsupervised
    <3> QED BY <2>1, <3>1, <3>3, <3>5 DEF RowFits
  <2>4. Active' \subseteq Active
    BY <1>a, <1>5, RequestSettled DEF Active
  <2> QED BY <1>a, <2>1, <2>2, <2>3, <2>4 DEF RecoveryInv
<1>6. CASE StartScheduler
  BY <1>a, <1>6 DEF StartScheduler, RecoveryInv, RowFits, Unsupervised,
         Active, TypeOK, Row
<1>7. CASE BeginTick
  BY <1>a, <1>7 DEF BeginTick, Active, RecoveryInv, RowFits, Unsupervised,
         TypeOK, Row
<1>8. CASE ReadOrphans
  BY <1>a, <1>8 DEF ReadOrphans, Orphaned, RecoveryInv, RowFits, Unsupervised,
         Active, TypeOK, Row
<1>9. ASSUME NEW row \in rows, RecoverOrphan(row)
      PROVE  RecoveryInv'
  BY <1>a, <1>9 DEF RecoverOrphan, StepFrom, RecoveryInv, RowFits,
         Unsupervised, Active, TypeOK, Row
<1>10. ASSUME NEW all \in BOOLEAN, RecoveryDone(all)
      PROVE  RecoveryInv'
  BY <1>a, <1>10 DEF RecoveryDone, RecoveryInv, RowFits, Unsupervised, Active,
         TypeOK, Row
<1>11. ASSUME NEW q \in Request, ReadDecision(q)
      PROVE  RecoveryInv'
  BY <1>a, <1>11 DEF ReadDecision, Decided, RecoveryInv, RowFits,
         Unsupervised, Active, TypeOK, Row
<1>12. CASE NoDecision
  BY <1>a, <1>12 DEF NoDecision, RecoveryInv, RowFits, Unsupervised, Active,
         TypeOK, Row
<1>13. ASSUME NEW ok \in BOOLEAN, ApplyDecision(ok)
      PROVE  RecoveryInv'
  BY <1>a, <1>13 DEF ApplyDecision, ApplyPatches, CanApply, RejectPatches,
         RecoveryInv, RowFits, Unsupervised, Active, TypeOK, Row
<1>14. CASE SettleDecision
  BY <1>a, <1>14 DEF SettleDecision, DecisionStatus, RecoveryInv, RowFits,
         Unsupervised, Active, TypeOK, Row, Deciding
<1>15. ASSUME NEW q \in Request, ClaimAgentRequest(q)
      PROVE  RecoveryInv'
  BY <1>a, <1>15 DEF ClaimAgentRequest, NextClaimable, Claimable, RecoveryInv,
         RowFits, Unsupervised, Active, TypeOK, Row
<1>16. CASE NothingToClaim
  BY <1>a, <1>16 DEF NothingToClaim, RecoveryInv, RowFits, Unsupervised,
         Active, TypeOK, Row
<1>17. CASE BuildFails
  BY <1>a, <1>17 DEF BuildFails, BeginFailure, RecoveryInv, RowFits,
         Unsupervised, Active, TypeOK, Row
<1>18. ASSUME NEW r \in Run, MakeRun(r)
      PROVE  RecoveryInv'
  BY <1>a, <1>18 DEF MakeRun, RecoveryInv, RowFits, Unsupervised, Active,
         TypeOK, Row
<1>19. CASE BindRun
  BY <1>a, <1>19 DEF BindRun, RecoveryInv, RowFits, Unsupervised, Active,
         TypeOK, Row
<1>20. CASE Submit
  BY <1>a, <1>20 DEF Submit, RecoveryInv, RowFits, Unsupervised, Active,
         TypeOK, Row
<1>21. CASE SubmissionFails
  BY <1>a, <1>21 DEF SubmissionFails, BeginFailure, RecoveryInv, RowFits,
         Unsupervised, Active, TypeOK, Row
<1>22. CASE SubmissionAccepted
  BY <1>a, <1>22 DEF SubmissionAccepted, RecoveryInv, RowFits, Unsupervised,
         Active, TypeOK, Row
<1>23. ASSUME NEW r \in commands, AcceptCommand(r)
      PROVE  RecoveryInv'
  BY <1>a, <1>23 DEF AcceptCommand, Answer, Serving, RecoveryInv, RowFits,
         Unsupervised, Active, TypeOK, Row, DispatchInv, Bound, InHand,
         Unnamed, Dispatched, Dispatches
<1>24. CASE BindTask
  BY <1>a, <1>24 DEF BindTask, IsCurrentRun, RecoveryInv, RowFits,
         Unsupervised, Active, TypeOK, Row, HasRequest, BindingInv
<1>25. ASSUME NEW r \in Run, NEW o \in {"proposal", "no_change"},
              FinalizeRun(r, o)
      PROVE  RecoveryInv'
  BY <1>a, <1>25 DEF FinalizeRun, Serving, RecoveryInv, RowFits, Unsupervised,
         Active, TypeOK, Row, HasRequest, BindingInv
<1>26. ASSUME NEW r \in Run, SettleProposal(r)
      PROVE  RecoveryInv'
  BY <1>a, <1>26 DEF SettleProposal, SettleRequest, ResultArrives,
         ResultStatus, Forget, Serving, IsCurrentRun, Active, RecoveryInv,
         RowFits, Unsupervised, TypeOK, Row, HasRequest, BindingInv
<1>27. ASSUME NEW r \in Run, SettleResearch(r)
      PROVE  RecoveryInv'
  BY <1>a, <1>27 DEF SettleResearch, SettleRequest, ResultArrives,
         ResultStatus, Forget, Serving, IsCurrentRun, Active, RecoveryInv,
         RowFits, Unsupervised, TypeOK, Row, HasRequest, BindingInv
<1>28. ASSUME NEW r \in Run, DropStaleTerminal(r)
      PROVE  RecoveryInv'
  BY <1>a, <1>28 DEF DropStaleTerminal, Forget, Serving, IsCurrentRun,
         RecoveryInv, RowFits, Unsupervised, Active, TypeOK, Row, HasRequest,
         BindingInv
<1>29. CASE RestartWorker
  BY <1>a, <1>29 DEF RestartWorker, Active, RecoveryInv, RowFits,
         Unsupervised, TypeOK, Row
<1>30. CASE AbortScheduler
  BY <1>a, <1>30 DEF AbortScheduler, TypeOK
<1>31. CASE Stop
  BY <1>a, <1>31 DEF Stop, ResetScheduler, RecoveryInv, RowFits, Unsupervised,
         Active, TypeOK, Row
<1>32. ASSUME NEW q \in Request, BackoffElapses(q)
      PROVE  RecoveryInv'
  BY <1>a, <1>32 DEF BackoffElapses, RecoveryInv, RowFits, Unsupervised,
         Active
<1>33. ASSUME NEW p \in Owner,
             ReadAttempts(p) \/ AbandonTask(p) \/
             AbandonSession(p)
      PROVE  RecoveryInv'
  BY <1>a, <1>33 DEF ReadAttempts, AbandonTask, AbandonSession, CancelSession,
         RecoveryInv, RowFits, Unsupervised, Active
<1>34. CASE WorkerDies \/ RefuseBinding \/ AcceptProposal \/ AcceptFails \/
           RejectProposal \/ StartInterface \/ CleanupOrphanAgentTasks \/
           MarkInterruptedAgentTasks
  BY <1>a, <1>34 DEF WorkerDies, LoseWorker, RefuseBinding, AcceptProposal,
         UserOnly, ApplyPatches, AcceptFails, RejectProposal, RejectPatches,
         StartInterface, CleanupOrphanAgentTasks, MarkInterruptedAgentTasks,
         RecoveryInv, RowFits, Unsupervised, Active
<1>35. ASSUME NEW r \in Run,
             PrepareRun(r) \/ RefuseResult(r) \/ SkipExitedRun(r)
      PROVE  RecoveryInv'
  BY <1>a, <1>35 DEF PrepareRun, RefuseResult, LoseWorker, SkipExitedRun,
         RecoveryInv, RowFits, Unsupervised, Active
<1>36. ASSUME NEW r \in Run, NEW retryable \in BOOLEAN,
              CheckError(r, retryable)
      PROVE  RecoveryInv'
  BY <1>a, <1>36 DEF CheckError, BeginFailure, RecoveryInv, RowFits,
         Unsupervised, Active
<1>37. ASSUME NEW r \in Run \cup {None}, ShowProposal(r)
      PROVE  RecoveryInv'
  BY <1>a, <1>37 DEF ShowProposal, UserOnly, RecoveryInv, RowFits,
         Unsupervised, Active
<1> QED BY <1>1, <1>2, <1>3, <1>4, <1>5, <1>6, <1>7, <1>8, <1>9, <1>10, <1>11,
       <1>12, <1>13, <1>14, <1>15, <1>16, <1>17, <1>18, <1>19, <1>20, <1>21,
       <1>22, <1>23, <1>24, <1>25, <1>26, <1>27, <1>28, <1>29, <1>30, <1>31,
       <1>32, <1>33, <1>34, <1>35, <1>36, <1>37
    DEF Next, SchedulerStep, FailureStep, SupervisorStep, RunStep,
           InterfaceStep, Owner

\* A claimed request stays as the scheduler left it until the supervisor has
\* taken its run.
LEMMA DispatchStep ==
    ASSUME Typed, TypeOK', Agreement, aborts' = 0, [Next]_vars
    PROVE  DispatchInv'
<1>a. /\ TypeOK /\ Dispatched /\ HasRequest /\ Deciding
      /\ RequestInv /\ StageInv /\ BindingInv
      /\ SupervisorFailureInv /\ SchedulerFailureInv
      /\ RecoveryInv /\ DispatchInv
  BY DEF Typed, Agreement
<1>1. CASE UNCHANGED vars
  BY <1>a, <1>1 DEF vars, DispatchInv, Bound, InHand, Unsupervised, Unnamed,
         Dispatched, Dispatches
<1>2. ASSUME NEW q \in Request, NEW m \in {"agent", "research"},
             SubmitRequest(q, m)
      PROVE  DispatchInv'
  BY <1>a, <1>2 DEF SubmitRequest, Stored, DispatchInv, Bound, InHand,
         Unsupervised, Unnamed, Dispatched, Dispatches, TypeOK
<1>3. ASSUME NEW q \in Request, NEW a \in {"approve", "reject"},
             DecideAgentRequest(q, a)
      PROVE  DispatchInv'
  BY <1>a, <1>3 DEF DecideAgentRequest, DispatchInv, Bound, InHand,
         Unsupervised, Unnamed, Dispatched, Dispatches, TypeOK
<1>4. ASSUME NEW q \in Request, ReviseAgentRequest(q)
      PROVE  DispatchInv'
  BY <1>a, <1>4 DEF ReviseAgentRequest, DispatchInv, Bound, InHand,
         Unsupervised, Unnamed, Dispatched, Dispatches, TypeOK
<1>5. ASSUME NEW p \in Owner, UpdateRequest(p)
      PROVE  DispatchInv'
  <2>1. UNCHANGED <<mode, commands>>
    BY <1>5 DEF UpdateRequest
  <2>2. CASE p = "scheduler"
    <3>1. pc \in {"rows", "failing"}
      BY <1>a, <1>5, <2>2, RequestSettled DEF Deciding
    <3>2. CASE pc = "failing"
      <4>1. pc' = "tick" /\ reply' = "none"
        BY <1>5, <2>2, <3>2 DEF UpdateRequest, Proceed
      <4> QED BY <1>a, <2>1, <3>2, <4>1 DEF DispatchInv, Bound
    <3>3. CASE pc = "rows"
      <4>1. UNCHANGED <<pc, reply>>
        BY <1>5, <2>2, <3>3 DEF UpdateRequest, Proceed
      <4> QED BY <1>a, <2>1, <3>3, <4>1 DEF DispatchInv, Bound
    <3> QED BY <3>1, <3>2, <3>3
  <2>3. CASE p = "supervisor"
    <3> DEFINE q == dispatch.request
    <3>1. UNCHANGED <<pc, dispatch, reply>>
      BY <1>5, <2>3 DEF UpdateRequest, Proceed
    <3>2. ASSUME q \in Request, InHand(q)
          PROVE  InHand(q)' /\ run'[q] = run[q]
      <4>1. q # failure[p].request
        BY <1>a, <1>5, <2>3, <3>2, FailuresAreSupervised, RequestSettled
           DEF InHand
      <4>2. status'[q] = status[q] /\ run'[q] = run[q] /\ task'[q] = task[q]
        BY <1>a, <1>5, <3>2, <4>1, RequestSettled
      <4>3. run[q] # None => run[q] \in Run
        BY <1>a, <3>2, TypeParts DEF RequestTyped
      <4>4. Unsupervised(q)'
        BY <1>a, <1>5, <3>1, <3>2, <4>2, <4>3, RequestSettled
           DEF InHand, Unsupervised
      <4> QED BY <3>1, <3>2, <4>2, <4>4 DEF InHand
    <3>3. pc = "session" /\ stage[dispatch.run] = "none"
              => stage'[dispatch.run] = "none"
      BY <1>a, <1>5, RequestSettled DEF Dispatched, Dispatches
    <3>4. pc \in {"claimed", "session"} \/ Bound => q \in Request
      BY <1>a DEF Dispatched, Dispatches, Bound
    <3> HIDE DEF q
    <3>5. (Bound' <=> Bound) /\ (Unnamed(q) /\ run'[q] = run[q] => Unnamed(q)')
      BY <2>1, <3>1 DEF Bound, Unnamed, q
    <3> QED BY <1>a, <2>1, <3>1, <3>2, <3>3, <3>4, <3>5
            DEF DispatchInv, q
  <2> QED BY <2>2, <2>3 DEF Owner
<1>6. CASE StartScheduler
  BY <1>a, <1>6 DEF StartScheduler, DispatchInv, Bound, InHand, Unsupervised,
         Unnamed, Dispatched, Dispatches, TypeOK
<1>7. CASE BeginTick
  BY <1>a, <1>7 DEF BeginTick, Active, DispatchInv, Bound, InHand,
         Unsupervised, Unnamed, Dispatched, Dispatches, TypeOK
<1>8. CASE ReadOrphans
  BY <1>a, <1>8 DEF ReadOrphans, Orphaned, DispatchInv, Bound, InHand,
         Unsupervised, Unnamed, Dispatched, Dispatches, TypeOK
<1>9. ASSUME NEW all \in BOOLEAN, RecoveryDone(all)
      PROVE  DispatchInv'
  BY <1>a, <1>9 DEF RecoveryDone, DispatchInv, Bound, InHand, Unsupervised,
         Unnamed, Dispatched, Dispatches, TypeOK
<1>10. ASSUME NEW q \in Request, ReadDecision(q)
      PROVE  DispatchInv'
  BY <1>a, <1>10 DEF ReadDecision, Decided, DispatchInv, Bound, InHand,
         Unsupervised, Unnamed, Dispatched, Dispatches, TypeOK
<1>11. CASE NoDecision
  BY <1>a, <1>11 DEF NoDecision, DispatchInv, Bound, InHand, Unsupervised,
         Unnamed, Dispatched, Dispatches, TypeOK
<1>12. ASSUME NEW ok \in BOOLEAN, ApplyDecision(ok)
      PROVE  DispatchInv'
  BY <1>a, <1>12 DEF ApplyDecision, ApplyPatches, CanApply, RejectPatches,
         DispatchInv, Bound, InHand, Unsupervised, Unnamed, Dispatched,
         Dispatches, TypeOK
<1>13. CASE SettleDecision
  BY <1>a, <1>13 DEF SettleDecision, DecisionStatus, DispatchInv, Bound,
         InHand, Unsupervised, Unnamed, Dispatched, Dispatches, TypeOK,
         Deciding
<1>14. ASSUME NEW q \in Request, ClaimAgentRequest(q)
      PROVE  DispatchInv'
  BY <1>a, <1>14 DEF ClaimAgentRequest, NextClaimable, Claimable, DispatchInv,
         Bound, InHand, Unsupervised, Unnamed, Dispatched, Dispatches, TypeOK,
         EndedIsForgotten, ResearchFits, RequestInv, NamesItsRun
<1>15. CASE NothingToClaim
  BY <1>a, <1>15 DEF NothingToClaim, DispatchInv, Bound, InHand, Unsupervised,
         Unnamed, Dispatched, Dispatches, TypeOK
<1>16. CASE BuildFails
  BY <1>a, <1>16 DEF BuildFails, BeginFailure, DispatchInv, Bound, InHand,
         Unsupervised, Unnamed, Dispatched, Dispatches, TypeOK
<1>17. ASSUME NEW r \in Run, MakeRun(r)
      PROVE  DispatchInv'
  BY <1>a, <1>17 DEF MakeRun, DispatchInv, Bound, InHand, Unsupervised,
         Unnamed, Dispatched, Dispatches, TypeOK, HasRequest, RequestInv,
         NamesItsRun
<1>18. CASE BindRun
  BY <1>a, <1>18 DEF BindRun, DispatchInv, Bound, InHand, Unsupervised,
         Unnamed, Dispatched, Dispatches, TypeOK, RequestInv, NamesItsRun
<1>19. CASE Submit
  BY <1>a, <1>19 DEF Submit, DispatchInv, Bound, InHand, Unsupervised,
         Unnamed, Dispatched, Dispatches, TypeOK
<1>20. CASE SubmissionFails
  BY <1>a, <1>20 DEF SubmissionFails, BeginFailure, DispatchInv, Bound,
         InHand, Unsupervised, Unnamed, Dispatched, Dispatches, TypeOK
<1>21. CASE SubmissionAccepted
  BY <1>a, <1>21 DEF SubmissionAccepted, DispatchInv, Bound, InHand,
         Unsupervised, Unnamed, Dispatched, Dispatches, TypeOK
<1>22. ASSUME NEW r \in commands, AcceptCommand(r)
      PROVE  DispatchInv'
  BY <1>a, <1>22 DEF AcceptCommand, Answer, Serving, DispatchInv, Bound,
         InHand, Unsupervised, Unnamed, Dispatched, Dispatches, TypeOK
<1>23. CASE BindTask
  BY <1>a, <1>23 DEF BindTask, IsCurrentRun, DispatchInv, Bound, InHand,
         Unsupervised, Unnamed, Dispatched, Dispatches, TypeOK, HasRequest,
         BindingInv
<1>24. ASSUME NEW r \in Run, NEW o \in {"proposal", "no_change"},
              FinalizeRun(r, o)
      PROVE  DispatchInv'
  BY <1>a, <1>24 DEF FinalizeRun, Serving, DispatchInv, Bound, InHand,
         Unsupervised, Unnamed, Dispatched, Dispatches, TypeOK, HasRequest,
         BindingInv
<1>25. ASSUME NEW r \in Run, SettleProposal(r)
      PROVE  DispatchInv'
  BY <1>a, <1>25 DEF SettleProposal, SettleRequest, ResultArrives,
         ResultStatus, Forget, Serving, IsCurrentRun, Active, DispatchInv,
         Bound, InHand, Unsupervised, Unnamed, Dispatched, Dispatches, TypeOK,
         HasRequest, BindingInv
<1>26. ASSUME NEW r \in Run, SettleResearch(r)
      PROVE  DispatchInv'
  BY <1>a, <1>26 DEF SettleResearch, SettleRequest, ResultArrives,
         ResultStatus, Forget, Serving, IsCurrentRun, Active, DispatchInv,
         Bound, InHand, Unsupervised, Unnamed, Dispatched, Dispatches, TypeOK,
         HasRequest, BindingInv
<1>27. ASSUME NEW r \in Run, DropStaleTerminal(r)
      PROVE  DispatchInv'
  BY <1>a, <1>27 DEF DropStaleTerminal, Forget, Serving, IsCurrentRun,
         DispatchInv, Bound, InHand, Unsupervised, Unnamed, Dispatched,
         Dispatches, TypeOK, HasRequest, BindingInv
<1>28. CASE RestartWorker
  BY <1>a, <1>28 DEF RestartWorker, Active, DispatchInv, Bound, InHand,
         Unsupervised, Unnamed, Dispatched, Dispatches, TypeOK
<1>29. CASE AbortScheduler
  BY <1>a, <1>29 DEF AbortScheduler, TypeOK
<1>30. CASE Stop
  BY <1>a, <1>30 DEF Stop, ResetScheduler, DispatchInv, Bound, InHand,
         Unsupervised, Unnamed, Dispatched, Dispatches, TypeOK
<1>31. ASSUME NEW q \in Request, BackoffElapses(q)
      PROVE  DispatchInv'
  BY <1>a, <1>31 DEF BackoffElapses, DispatchInv, Bound, InHand, Unsupervised,
         Unnamed, Dispatched, Dispatches
<1>32. ASSUME NEW p \in Owner,
             ReadAttempts(p) \/ AbandonTask(p) \/
             AbandonSession(p)
      PROVE  DispatchInv'
  BY <1>a, <1>32 DEF ReadAttempts, AbandonTask, AbandonSession, CancelSession,
         DispatchInv, Bound, InHand, Unsupervised, Unnamed, Dispatched,
         Dispatches
<1>33. ASSUME NEW row \in rows, RecoverOrphan(row)
      PROVE  DispatchInv'
  BY <1>a, <1>33 DEF RecoverOrphan, DispatchInv, Bound, InHand, Unsupervised,
         Unnamed, Dispatched, Dispatches
<1>34. CASE WorkerDies \/ RefuseBinding \/ AcceptProposal \/ AcceptFails \/
           RejectProposal \/ StartInterface \/ CleanupOrphanAgentTasks \/
           MarkInterruptedAgentTasks
  BY <1>a, <1>34 DEF WorkerDies, LoseWorker, RefuseBinding, AcceptProposal,
         UserOnly, ApplyPatches, AcceptFails, RejectProposal, RejectPatches,
         StartInterface, CleanupOrphanAgentTasks, MarkInterruptedAgentTasks,
         DispatchInv, Bound, InHand, Unsupervised, Unnamed, Dispatched,
         Dispatches
<1>35. ASSUME NEW r \in Run,
             PrepareRun(r) \/ RefuseResult(r) \/ SkipExitedRun(r)
      PROVE  DispatchInv'
  BY <1>a, <1>35 DEF PrepareRun, RefuseResult, LoseWorker, SkipExitedRun,
         DispatchInv, Bound, InHand, Unsupervised, Unnamed, Dispatched,
         Dispatches
<1>36. ASSUME NEW r \in Run, NEW retryable \in BOOLEAN,
              CheckError(r, retryable)
      PROVE  DispatchInv'
  BY <1>a, <1>36 DEF CheckError, BeginFailure, DispatchInv, Bound, InHand,
         Unsupervised, Unnamed, Dispatched, Dispatches
<1>37. ASSUME NEW r \in Run \cup {None}, ShowProposal(r)
      PROVE  DispatchInv'
  BY <1>a, <1>37 DEF ShowProposal, UserOnly, DispatchInv, Bound, InHand,
         Unsupervised, Unnamed, Dispatched, Dispatches
<1> QED BY <1>1, <1>2, <1>3, <1>4, <1>5, <1>6, <1>7, <1>8, <1>9, <1>10, <1>11,
       <1>12, <1>13, <1>14, <1>15, <1>16, <1>17, <1>18, <1>19, <1>20, <1>21,
       <1>22, <1>23, <1>24, <1>25, <1>26, <1>27, <1>28, <1>29, <1>30, <1>31,
       <1>32, <1>33, <1>34, <1>35, <1>36, <1>37
    DEF Next, SchedulerStep, FailureStep, SupervisorStep, RunStep,
           InterfaceStep, Owner

-----------------------------------------------------------------------------
(* The invariant is inductive.                                             *)

LEMMA AbortsGrow ==
    ASSUME TypeOK, [Next]_vars
    PROVE  aborts' = 0 => aborts = 0
<1>1. CASE UNCHANGED vars
  BY <1>1 DEF vars
<1>2. CASE AbortScheduler
  BY <1>2 DEF AbortScheduler, ResetScheduler, TypeOK
<1>3. ASSUME NEW q \in Request, NEW m \in {"agent", "research"},
             SubmitRequest(q, m)
      PROVE  aborts' = 0 => aborts = 0
  BY <1>3 DEF SubmitRequest
<1>4. ASSUME NEW q \in Request, NEW a \in {"approve", "reject"},
             DecideAgentRequest(q, a)
      PROVE  aborts' = 0 => aborts = 0
  BY <1>4 DEF DecideAgentRequest
<1>5. ASSUME NEW q \in Request,
             ReviseAgentRequest(q) \/ BackoffElapses(q) \/
             ReadDecision(q) \/ ClaimAgentRequest(q)
      PROVE  aborts' = 0 => aborts = 0
  BY <1>5 DEF ReviseAgentRequest, BackoffElapses, ReadDecision,
         ClaimAgentRequest
<1>6. ASSUME NEW p \in Owner,
             ReadAttempts(p) \/ AbandonTask(p) \/
             AbandonSession(p) \/ UpdateRequest(p)
      PROVE  aborts' = 0 => aborts = 0
  BY <1>6 DEF ReadAttempts, AbandonTask, AbandonSession, CancelSession,
         UpdateRequest, SettleRow, Proceed, BuryRequest, RequeueRequest,
         Forget
<1>7. CASE StartScheduler \/ BeginTick \/ ReadOrphans \/ NoDecision \/
           SettleDecision \/ NothingToClaim \/ BuildFails \/ BindRun \/
           Submit \/ SubmissionFails \/ SubmissionAccepted \/ Accepted
  BY <1>7 DEF StartScheduler, BeginTick, ReadOrphans, NoDecision,
         SettleDecision, NothingToClaim, BuildFails, BeginFailure, BindRun,
         Submit, SubmissionFails, SubmissionAccepted, Accepted,
         AcceptCommand, Answer
<1>8. CASE WorkerDies \/ BindTask \/ RefuseBinding \/ RestartWorker \/
           AcceptProposal \/ AcceptFails \/ RejectProposal \/ StartInterface
           \/ CleanupOrphanAgentTasks \/ MarkInterruptedAgentTasks \/ Stop
  BY <1>8 DEF WorkerDies, LoseWorker, BindTask, RefuseBinding, RestartWorker,
         AcceptProposal, UserOnly, ApplyPatches, AcceptFails, RejectProposal,
         RejectPatches, StartInterface, CleanupOrphanAgentTasks,
         MarkInterruptedAgentTasks, Stop, ResetScheduler
<1>9. ASSUME NEW row \in rows, RecoverOrphan(row)
      PROVE  aborts' = 0 => aborts = 0
  BY <1>9 DEF RecoverOrphan
<1>10. ASSUME NEW all \in BOOLEAN, RecoveryDone(all)
      PROVE  aborts' = 0 => aborts = 0
  BY <1>10 DEF RecoveryDone
<1>11. ASSUME NEW ok \in BOOLEAN, ApplyDecision(ok)
      PROVE  aborts' = 0 => aborts = 0
  BY <1>11 DEF ApplyDecision, ApplyPatches, RejectPatches
<1>12. ASSUME NEW r \in Run,
             MakeRun(r) \/ PrepareRun(r) \/ SettleProposal(r) \/
             SettleResearch(r) \/ RefuseResult(r) \/
             DropStaleTerminal(r) \/ SkipExitedRun(r)
      PROVE  aborts' = 0 => aborts = 0
  BY <1>12 DEF MakeRun, PrepareRun, SettleProposal, SettleRequest, Forget,
         SettleResearch, RefuseResult, LoseWorker, DropStaleTerminal,
         SkipExitedRun
<1>13. ASSUME NEW r \in Run, NEW o \in {"proposal", "no_change"},
              FinalizeRun(r, o)
      PROVE  aborts' = 0 => aborts = 0
  BY <1>13 DEF FinalizeRun
<1>14. ASSUME NEW r \in Run, NEW retryable \in BOOLEAN,
              CheckError(r, retryable)
      PROVE  aborts' = 0 => aborts = 0
  BY <1>14 DEF CheckError, BeginFailure
<1>15. ASSUME NEW r \in Run \cup {None}, ShowProposal(r)
      PROVE  aborts' = 0 => aborts = 0
  BY <1>15 DEF ShowProposal, UserOnly
<1> QED BY <1>1, <1>2, <1>3, <1>4, <1>5, <1>6, <1>7, <1>8, <1>9, <1>10, <1>11,
       <1>12, <1>13, <1>14, <1>15
    DEF Next, SchedulerStep, FailureStep, SupervisorStep, RunStep,
           InterfaceStep, Owner, Accepted

LEMMA InitInv == Init => IInv
<1> SUFFICES ASSUME Init PROVE Agreement
  BY InitType DEF IInv
<1> USE DEF Init, SchedulerOff, SupervisorIdle
<1>1. RequestInv
  BY DEF RequestInv, NamesItsRun, EndedIsForgotten, Unsupervised, ReviewFits,
         DecisionFits, ResearchFits, AttemptsFit
<1>2. StageInv /\ BindingInv /\ SupervisorFailureInv /\ SchedulerFailureInv
  BY DEF StageInv, StageFits, BindingInv, SupervisorFailureInv,
         SchedulerFailureInv, Owner
<1>3. RecoveryInv /\ DispatchInv
  BY DEF RecoveryInv, DispatchInv, Bound
<1> QED BY <1>1, <1>2, <1>3 DEF Agreement

LEMMA InvStep == ASSUME IInv, [Next]_vars PROVE IInv'
<1>1. Typed /\ TypeOK
  BY DEF IInv, Typed
<1>2. Typed' /\ TypeOK'
  BY <1>1, TypedStep DEF Typed
<1>3. ASSUME aborts' = 0 PROVE Agreement'
  <2>1. Agreement
    BY <1>1, <1>3, AbortsGrow DEF IInv
  <2>2. RequestInv' /\ StageInv' /\ BindingInv'
    BY <1>1, <1>2, <1>3, <2>1, RequestStep, StageStep, BindingStep DEF Agreement
  <2>3. SupervisorFailureInv' /\ SchedulerFailureInv'
    BY <1>1, <1>2, <1>3, <2>1, SupervisorFailureStep, SchedulerFailureStep
  <2>4. RecoveryInv' /\ DispatchInv'
    BY <1>1, <1>2, <1>3, <2>1, RecoveryStep, DispatchStep
  <2> QED BY <2>2, <2>3, <2>4 DEF Agreement
<1> QED BY <1>2, <1>3 DEF IInv

-----------------------------------------------------------------------------
(* Who has a running request, also when the scheduler is replaced alone.    *)
(* Both may then work on one request, and the invariant above is lost; what *)
(* is left is that nobody lets go of a request before somebody else has it. *)

\* A run belongs to the request that names it.
RunsAreNamed ==
    \A q \in Request :
        /\ run[q] # None => origin[run[q]] = q
        /\ status[q] = "absent" => run[q] = None

\* The supervisor knows no run of a request that waits for a claim or for its
\* requester.
WaitingIsForgotten ==
    \A q \in Request :
        status[q] \in {"queued", "awaiting_review"} => Unsupervised(q)

\* The supervisor does not know this run, and no request waits with it.
Fresh(r) ==
    /\ stage[r] = "none"
    /\ \A q \in Request :
          status[q] \in {"queued", "awaiting_review"} => run[q] # r

\* So is each run on its way to the supervisor, also when the scheduler that
\* sent it was replaced meanwhile.
SentIsFresh ==
    /\ pc \in {"session", "bound"} =>
          Fresh(dispatch.run) /\ dispatch.run \notin commands
    /\ \A r \in commands : Fresh(r)

\* The scheduler waits for the run its request names, until it is answered.
Sent == pc = "submitted" /\ dispatch.run \in commands

SentIsNamed ==
    /\ (pc = "bound" \/ Sent) /\ status[dispatch.request] = "running" =>
          run[dispatch.request] = dispatch.run
    /\ Sent => reply = "none"
    /\ reply # "none" => pc \in {"submitted", "failing"}

\* The runs of a dead worker that are no longer to be settled are not current.
ExitsAreSettled ==
    exiting => \A r \in Active \ exitRuns : ~IsCurrentRun(r)

FailureIsOfItsRun ==
    failure["supervisor"] # None =>
        /\ failure["supervisor"].task \in Run
        /\ origin[failure["supervisor"].task] = failure["supervisor"].request

RecoveryIsDue ==
    /\ pc = "off" => ~recovered
    /\ rows # {} => pc = "rows"

HeldInv ==
    /\ RunsAreNamed /\ WaitingIsForgotten /\ SentIsFresh /\ SentIsNamed
    /\ BindingInv /\ ExitsAreSettled /\ FailureIsOfItsRun /\ RecoveryIsDue
    /\ RunningIsHeld

-----------------------------------------------------------------------------
(* The steps, by what they do to a request that somebody holds.             *)

\* The row keeps its meaning for the holders of the request: it neither starts
\* nor stops to run, and it waits for no run that could not wait for it before.
SameRows ==
    /\ UNCHANGED <<run, origin>>
    /\ \A q \in Request :
          /\ status'[q] = "running" <=> status[q] = "running"
          /\ status'[q] \in {"queued", "awaiting_review"} =>
                status[q] \in {"absent", "queued", "awaiting_review"}
          /\ status'[q] = "absent" => status[q] = "absent"

\* The supervisor knows the same runs, and waits for the same.
SameRuns ==
    /\ UNCHANGED <<exiting, exitRuns, commands, reply>>
    /\ \A r \in Run : stage'[r] = "none" <=> stage[r] = "none"

\* No failure is settled; the supervisor may begin with that of a run.
SameFailures ==
    /\ \A p \in Owner : failure[p] # None =>
          failure'[p] # None /\ failure'[p].request = failure[p].request
    /\ FailureIsOfItsRun => FailureIsOfItsRun'

\* The scheduler has nothing in hand, and recovery is behind it.
Idle == {"decide", "apply", "settle", "claim"}

SamePlace ==
    /\ UNCHANGED <<dispatch, rows, seen, recovered>>
    /\ \/ pc' = pc
       \/ /\ pc \in Idle \/ (pc = "tick" /\ recovered)
          /\ pc' \in Idle \cup {"tick"}

Quiet == SameRows /\ SameRuns /\ SameFailures /\ SamePlace

\* The supervisor ends a current run with its request.
Ends(r) ==
    /\ Serving /\ stage[r] # "none" /\ IsCurrentRun(r)
    /\ SettleRequest(r)
    /\ UNCHANGED origin

Recovers ==
    \/ BeginTick /\ ~recovered
    \/ ReadOrphans
    \/ \E row \in rows : RecoverOrphan(row)
    \/ \E all \in BOOLEAN : RecoveryDone(all)

Hands ==
    \/ \E q \in Request : ClaimAgentRequest(q)
    \/ BuildFails
    \/ \E r \in Run : MakeRun(r)
    \/ BindRun \/ Submit \/ SubmissionFails \/ SubmissionAccepted

Supervises ==
    \/ \E r \in commands : AcceptCommand(r)
    \/ \E r \in Run : Ends(r) \/ DropStaleTerminal(r) \/ SkipExitedRun(r)
    \/ LoseWorker \/ RestartWorker

Loud ==
    \/ \E p \in Owner : UpdateRequest(p)
    \/ Recovers \/ Hands \/ Supervises
    \/ StartScheduler \/ AbortScheduler \/ Stop

LEMMA StepKinds ==
    ASSUME Typed, TypeOK', BindingInv, [Next]_vars
    PROVE  Quiet \/ Loud
<1>a. /\ TypeOK /\ Dispatched /\ HasRequest /\ Deciding
      /\ RequestTyped /\ RunTyped /\ SchedulerTyped /\ SupervisorTyped
  BY TypeParts DEF Typed
<1>b. ASSUME UNCHANGED <<status, run, origin>> PROVE SameRows
  BY <1>b DEF SameRows
<1>c. ASSUME UNCHANGED <<stage, exiting, exitRuns, commands, reply>>
      PROVE  SameRuns
  BY <1>c DEF SameRuns
<1>d. ASSUME UNCHANGED <<failure, origin>> PROVE SameFailures
  BY <1>d DEF SameFailures, FailureIsOfItsRun
<1>e. ASSUME UNCHANGED <<pc, dispatch, rows, seen, recovered>> PROVE SamePlace
  BY <1>e DEF SamePlace
<1>1. CASE UNCHANGED vars
  BY <1>b, <1>c, <1>d, <1>e, <1>1 DEF vars, Quiet
<1>2. ASSUME NEW q \in Request, NEW m \in {"agent", "research"},
             SubmitRequest(q, m)
      PROVE  Quiet
  <2>1. SameRows
    BY <1>a, <1>2 DEF SubmitRequest, SameRows, RequestTyped
  <2> QED BY <1>c, <1>d, <1>e, <1>2, <2>1 DEF SubmitRequest, Quiet
<1>3. ASSUME NEW q \in Request, NEW a \in {"approve", "reject"},
             DecideAgentRequest(q, a)
      PROVE  Quiet
  <2>1. SameRows
    BY <1>a, <1>3 DEF DecideAgentRequest, SameRows, RequestTyped
  <2> QED BY <1>c, <1>d, <1>e, <1>3, <2>1 DEF DecideAgentRequest, Quiet
<1>4. ASSUME NEW q \in Request, ReviseAgentRequest(q)
      PROVE  Quiet
  <2>1. SameRows
    BY <1>a, <1>4 DEF ReviseAgentRequest, SameRows, RequestTyped
  <2> QED BY <1>c, <1>d, <1>e, <1>4, <2>1 DEF ReviseAgentRequest, Quiet
<1>5. ASSUME NEW q \in Request, BackoffElapses(q)
      PROVE  Quiet
  BY <1>b, <1>c, <1>d, <1>e, <1>5 DEF BackoffElapses, Quiet
<1>6. ASSUME NEW p \in Owner, ReadAttempts(p)
      PROVE  Quiet
  <2>1. /\ failure[p] # None /\ failure'[p] # None
        /\ failure'[p].request = failure[p].request
        /\ failure'[p].task = failure[p].task
        /\ \A o \in Owner \ {p} : failure'[o] = failure[o]
    BY <1>a, <1>6, AttemptsRead
  <2>2. UNCHANGED origin
    BY <1>6 DEF ReadAttempts
  <2>3. SameFailures
    BY <2>1, <2>2 DEF SameFailures, FailureIsOfItsRun, Owner
  <2> QED BY <1>b, <1>c, <1>e, <1>6, <2>3 DEF ReadAttempts, Quiet
<1>7. ASSUME NEW p \in Owner, AbandonTask(p)
      PROVE  Quiet
  <2>1. /\ failure[p] # None /\ failure'[p] # None
        /\ failure'[p].request = failure[p].request
        /\ failure'[p].task = failure[p].task
        /\ \A o \in Owner \ {p} : failure'[o] = failure[o]
    BY <1>a, <1>7, TaskAbandoned
  <2>2. UNCHANGED origin
    BY <1>7 DEF AbandonTask
  <2>3. SameFailures
    BY <2>1, <2>2 DEF SameFailures, FailureIsOfItsRun, Owner
  <2> QED BY <1>b, <1>c, <1>e, <1>7, <2>3 DEF AbandonTask, Quiet
<1>8. ASSUME NEW p \in Owner, AbandonSession(p)
      PROVE  Quiet
  <2>1. failure[p] # None /\ failure[p] \in Failure
    BY <1>a, <1>8 DEF AbandonSession, SupervisorTyped
  <2>2. failure' = [failure EXCEPT ![p] = [failure[p] EXCEPT !.step = "row"]]
    BY <1>a, <1>8 DEF AbandonSession, SupervisorTyped
  <2>3. /\ failure'[p].request = failure[p].request
        /\ failure'[p].task = failure[p].task
        /\ failure'[p] # None
        /\ \A o \in Owner \ {p} : failure'[o] = failure[o]
    BY <1>a, <2>1, <2>2 DEF SupervisorTyped, Failure
  <2>4. SameFailures
    BY <1>8, <2>1, <2>3
       DEF SameFailures, FailureIsOfItsRun, AbandonSession, Owner
  <2> QED BY <1>b, <1>c, <1>e, <1>8, <2>4 DEF AbandonSession, Quiet
<1>9. CASE BeginTick /\ recovered
  <2>1. SamePlace
    BY <1>9 DEF BeginTick, SamePlace, Idle
  <2> QED BY <1>b, <1>c, <1>d, <1>9, <2>1 DEF BeginTick, Quiet
<1>10. ASSUME NEW q \in Request, ReadDecision(q)
       PROVE  Quiet
  <2>1. SamePlace
    BY <1>10 DEF ReadDecision, SamePlace, Idle
  <2> QED BY <1>b, <1>c, <1>d, <1>10, <2>1 DEF ReadDecision, Quiet
<1>11. CASE NoDecision
  <2>1. SamePlace
    BY <1>11 DEF NoDecision, SamePlace, Idle
  <2> QED BY <1>b, <1>c, <1>d, <1>11, <2>1 DEF NoDecision, Quiet
<1>12. ASSUME NEW ok \in BOOLEAN, ApplyDecision(ok)
       PROVE  Quiet
  <2>1. SamePlace
    BY <1>12 DEF ApplyDecision, SamePlace, Idle
  <2>2. UNCHANGED origin
    BY <1>12 DEF ApplyDecision, ApplyPatches, RejectPatches
  <2> QED BY <1>b, <1>c, <1>d, <1>12, <2>1, <2>2 DEF ApplyDecision, Quiet
<1>13. CASE SettleDecision
  <2>1. SamePlace
    BY <1>13 DEF SettleDecision, SamePlace, Idle
  <2>2. SameRows
    BY <1>a, <1>13
       DEF SettleDecision, DecisionStatus, SameRows, Deciding, RequestTyped
  <2> QED BY <1>c, <1>d, <1>13, <2>1, <2>2 DEF SettleDecision, Quiet
<1>14. CASE NothingToClaim
  <2>1. SamePlace
    BY <1>14 DEF NothingToClaim, SamePlace, Idle
  <2> QED BY <1>b, <1>c, <1>d, <1>14, <2>1 DEF NothingToClaim, Quiet
<1>15. ASSUME NEW r \in Run, PrepareRun(r)
       PROVE  Quiet
  BY <1>b, <1>c, <1>d, <1>e, <1>15 DEF PrepareRun, Quiet
<1>16. CASE BindTask
  <2>1. SameRuns
    BY <1>a, <1>16 DEF BindTask, BindingInv, SameRuns, SupervisorTyped
  <2> QED BY <1>b, <1>d, <1>e, <1>16, <2>1 DEF BindTask, Quiet
<1>17. ASSUME NEW r \in Run, NEW o \in {"proposal", "no_change"},
              FinalizeRun(r, o)
       PROVE  Quiet
  <2>1. SameRuns
    BY <1>a, <1>17 DEF FinalizeRun, SameRuns, SupervisorTyped
  <2> QED BY <1>b, <1>d, <1>e, <1>17, <2>1 DEF FinalizeRun, Quiet
<1>18. ASSUME NEW r \in Run, SettleProposal(r) \/ SettleResearch(r)
       PROVE  Ends(r)
  BY <1>18 DEF SettleProposal, SettleResearch, ResultArrives, Active, Ends
<1>19. ASSUME NEW r \in Run, NEW retryable \in BOOLEAN,
              CheckError(r, retryable)
       PROVE  Quiet
  <2> DEFINE kind == IF retryable THEN "retryable" ELSE "permanent"
             s == IF mode[origin[r]] = "research" THEN r ELSE None
             f == [request |-> origin[r], task |-> r, session |-> s,
                   attempts |-> 0, kind |-> kind, step |-> "read"]
  <2>1. /\ failure["supervisor"] = None
        /\ failure' = [failure EXCEPT !["supervisor"] = f]
    BY <1>19 DEF CheckError, BeginFailure
  <2> HIDE DEF kind, s
  <2>2. failure'["supervisor"] = f /\ failure'["scheduler"] = failure["scheduler"]
    BY <1>a, <2>1 DEF SupervisorTyped, Owner
  <2>3. SameFailures
    BY <1>19, <2>1, <2>2
       DEF SameFailures, FailureIsOfItsRun, CheckError, Owner
  <2> QED BY <1>b, <1>c, <1>e, <1>19, <2>3 DEF CheckError, Quiet
<1>20. ASSUME NEW r \in Run, RefuseResult(r)
       PROVE  LoseWorker
  BY <1>20 DEF RefuseResult
<1>21. ASSUME NEW r \in Run \cup {None}, ShowProposal(r)
       PROVE  Quiet
  BY <1>b, <1>c, <1>d, <1>e, <1>21 DEF ShowProposal, UserOnly, Quiet
<1>22. CASE AcceptProposal \/ AcceptFails \/ RejectProposal
  BY <1>b, <1>c, <1>d, <1>e, <1>22
     DEF AcceptProposal, AcceptFails, RejectProposal, ApplyPatches,
         RejectPatches, UserOnly, Quiet
<1>23. CASE StartInterface \/ CleanupOrphanAgentTasks \/
           MarkInterruptedAgentTasks
  BY <1>b, <1>c, <1>d, <1>e, <1>23
     DEF StartInterface, CleanupOrphanAgentTasks, MarkInterruptedAgentTasks,
         UserOnly, Quiet
<1>24. CASE WorkerDies \/ RefuseBinding
  BY <1>24 DEF WorkerDies, RefuseBinding, Loud, Supervises
<1>25. CASE \E p \in Owner : UpdateRequest(p)
  BY <1>25 DEF Loud
<1>26. CASE SchedulerStep
  BY <1>6, <1>7, <1>8, <1>9, <1>10, <1>11, <1>12, <1>13, <1>14, <1>26
     DEF SchedulerStep, FailureStep, Owner, Loud, Recovers, Hands
<1>27. CASE SupervisorStep
  BY <1>6, <1>7, <1>8, <1>16, <1>24, <1>27
     DEF SupervisorStep, FailureStep, Owner, Loud, Supervises
<1>28. ASSUME NEW r \in Run, RunStep(r)
       PROVE  Quiet \/ Loud
  BY <1>15, <1>17, <1>18, <1>19, <1>20, <1>28 DEF RunStep, Loud, Supervises
<1>29. CASE InterfaceStep
  BY <1>21, <1>22, <1>23, <1>29 DEF InterfaceStep
<1> QED BY <1>1, <1>2, <1>3, <1>4, <1>5, <1>24, <1>26, <1>27, <1>28, <1>29
        DEF Next, Loud

LEMMA QuietHeld ==
    ASSUME Typed, TypeOK', HeldInv, BindingInv', Quiet
    PROVE  HeldInv'
<1>a. /\ TypeOK /\ HasRequest
      /\ RequestTyped /\ RunTyped /\ SchedulerTyped /\ SupervisorTyped
      /\ RequestTyped' /\ RunTyped' /\ SchedulerTyped' /\ SupervisorTyped'
  BY TypeParts DEF Typed
<1>b. /\ RunsAreNamed /\ WaitingIsForgotten /\ SentIsFresh /\ SentIsNamed
      /\ ExitsAreSettled /\ FailureIsOfItsRun /\ RecoveryIsDue
      /\ RunningIsHeld
  BY DEF HeldInv
<1>c. SameRows /\ SameRuns /\ SameFailures /\ SamePlace
  BY DEF Quiet
<1>1. RunsAreNamed'
  BY <1>b, <1>c DEF RunsAreNamed, SameRows
<1>2. WaitingIsForgotten'
  <2> SUFFICES ASSUME NEW q \in Request,
                      status'[q] \in {"queued", "awaiting_review"},
                      run'[q] # None
               PROVE  stage'[run'[q]] = "none"
    BY DEF WaitingIsForgotten, Unsupervised
  <2>1. run'[q] = run[q] /\ run[q] \in Run
    BY <1>a, <1>c DEF SameRows, RequestTyped
  <2>2. status[q] \in {"queued", "awaiting_review"}
    BY <1>b, <1>c, <2>1 DEF SameRows, RunsAreNamed
  <2>3. stage[run[q]] = "none"
    BY <1>b, <2>1, <2>2 DEF WaitingIsForgotten, Unsupervised
  <2> QED BY <1>c, <2>1, <2>3 DEF SameRuns
<1>3. SentIsFresh'
  <2>1. ASSUME NEW r \in Run, Fresh(r) PROVE Fresh(r)'
    <3>1. stage'[r] = "none"
      BY <1>c, <2>1 DEF Fresh, SameRuns
    <3>2. ASSUME NEW q \in Request,
                 status'[q] \in {"queued", "awaiting_review"}
          PROVE  run'[q] # r
      BY <1>b, <1>c, <2>1, <3>2 DEF Fresh, SameRows, RunsAreNamed
    <3> QED BY <3>1, <3>2 DEF Fresh
  <2>2. pc' \in {"session", "bound"} =>
            pc' = pc /\ dispatch' = dispatch /\ dispatch.run \in Run
    BY <1>c DEF SamePlace, Idle, Typed, Dispatched
  <2>3. commands' = commands /\ commands \subseteq Run
    BY <1>a, <1>c DEF SameRuns, SchedulerTyped
  <2> QED BY <1>b, <2>1, <2>2, <2>3 DEF SentIsFresh
<1>4. SentIsNamed'
  <2>1. UNCHANGED <<run, dispatch, commands, reply>>
    BY <1>c DEF SameRows, SameRuns, SamePlace
  <2>2. ASSUME pc \in {"bound", "submitted", "failing"}
               \/ pc' \in {"bound", "submitted", "failing"}
        PROVE  pc' = pc
    BY <1>c, <2>2 DEF SamePlace, Idle
  <2>3. pc \in {"bound", "submitted"} =>
            (status'[dispatch.request] = "running" <=>
                status[dispatch.request] = "running")
    BY <1>c DEF SameRows, Typed, Dispatched, Dispatches
  <2> QED BY <1>b, <2>1, <2>2, <2>3 DEF SentIsNamed, Sent
<1>5. ExitsAreSettled'
  <2>1. Active' = Active
    BY <1>c DEF SameRuns, Active
  <2>2. ASSUME NEW r \in Active, ~IsCurrentRun(r) PROVE ~IsCurrentRun(r)'
    BY <1>a, <1>c, <2>2 DEF IsCurrentRun, SameRows, HasRequest, Active
  <2> QED BY <1>b, <1>c, <2>1, <2>2 DEF ExitsAreSettled, SameRuns
<1>6. FailureIsOfItsRun'
  BY <1>b, <1>c DEF SameFailures
<1>7. RecoveryIsDue'
  BY <1>b, <1>c DEF RecoveryIsDue, SamePlace, Idle
<1>8. RunningIsHeld'
  <2> SUFFICES ASSUME NEW q \in Request, status'[q] = "running"
               PROVE  Held(q)'
    BY DEF RunningIsHeld
  <2>1. Held(q) /\ run'[q] = run[q]
    BY <1>b, <1>c DEF RunningIsHeld, SameRows
  <2>2. CASE Dispatching(q)
    BY <1>c, <2>2 DEF Held, Dispatching, SamePlace, Idle, SameRuns
  <2>3. CASE run[q] # None /\ stage[run[q]] # "none"
    <3>1. run[q] \in Run
      BY <1>a, <2>3 DEF RequestTyped
    <3> QED BY <1>c, <2>1, <2>3, <3>1 DEF Held, SameRuns
  <2>4. CASE \E p \in Owner : failure[p] # None /\ failure[p].request = q
    BY <1>c, <2>4 DEF Held, SameFailures
  <2>5. CASE AwaitsRecovery(q)
    BY <1>c, <2>1, <2>5 DEF Held, AwaitsRecovery, SamePlace, Idle
  <2> QED BY <2>1, <2>2, <2>3, <2>4, <2>5 DEF Held
<1> QED BY <1>1, <1>2, <1>3, <1>4, <1>5, <1>6, <1>7, <1>8 DEF HeldInv

\* The rows of the requests change in few steps.
RowsOf == <<status, run, origin>>

Writes ==
    \/ \E p \in Owner : UpdateRequest(p)
    \/ \E q \in Request : ClaimAgentRequest(q)
    \/ \E r \in Run : MakeRun(r) \/ Ends(r)
    \/ BindRun

LEMMA FewWrite ==
    ASSUME Loud
    PROVE  Writes \/ UNCHANGED RowsOf
BY DEF Loud, Recovers, Hands, Supervises, Writes, RowsOf, BeginTick,
       ReadOrphans, RecoverOrphan, RecoveryDone, BuildFails, Submit,
       SubmissionFails, SubmissionAccepted, AcceptCommand, DropStaleTerminal,
       SkipExitedRun, LoseWorker, RestartWorker, StartScheduler,
       AbortScheduler, Stop

\* Only a claim makes a request run, and only the scheduler that has claimed it
\* names its run.
LEMMA RunsByClaim ==
    ASSUME Typed, Loud, NEW q \in Request, status'[q] = "running"
    PROVE  \/ ClaimAgentRequest(q) /\ run'[q] = run[q]
           \/ /\ status[q] = "running"
              /\ \/ run'[q] = run[q]
                 \/ BindRun /\ q = dispatch.request /\ run'[q] = dispatch.run
<1>a. /\ TypeOK /\ Dispatched /\ HasRequest /\ RequestTyped
  BY TypeParts DEF Typed
<1>1. ASSUME NEW p \in Owner, UpdateRequest(p)
      PROVE  status[q] = "running" /\ run'[q] = run[q]
  BY <1>a, <1>1, RequestSettled, SettledRow
<1>2. ASSUME NEW i \in Request, ClaimAgentRequest(i)
      PROVE  run'[q] = run[q] /\ (q = i \/ status[q] = "running")
  BY <1>a, <1>2 DEF ClaimAgentRequest, RequestTyped
<1>3. ASSUME NEW r \in Run, MakeRun(r)
      PROVE  UNCHANGED <<status, run>>
  BY <1>3 DEF MakeRun
<1>4. ASSUME NEW r \in Run, Ends(r)
      PROVE  status[q] = "running" /\ run'[q] = run[q]
  BY <1>a, <1>4 DEF Ends, SettleRequest, ResultStatus, RequestTyped, HasRequest
<1>5. CASE BindRun
  BY <1>a, <1>5 DEF BindRun, RequestTyped
<1>6. CASE UNCHANGED RowsOf
  BY <1>6 DEF RowsOf
<1> QED BY <1>1, <1>2, <1>3, <1>4, <1>5, <1>6, FewWrite DEF Writes

LEMMA NamedStep ==
    ASSUME Typed, RunsAreNamed, Loud
    PROVE  RunsAreNamed'
<1>a. /\ TypeOK /\ Dispatched /\ HasRequest /\ RequestTyped /\ RunTyped
  BY TypeParts DEF Typed
<1>1. ASSUME NEW p \in Owner, UpdateRequest(p)
      PROVE  RunsAreNamed'
  <2>1. UNCHANGED origin
    BY <1>1 DEF UpdateRequest
  <2> QED BY <1>a, <1>1, <2>1, RequestSettled, SettledRow DEF RunsAreNamed
<1>2. ASSUME NEW q \in Request, ClaimAgentRequest(q)
      PROVE  RunsAreNamed'
  BY <1>a, <1>2 DEF ClaimAgentRequest, RequestTyped, RunsAreNamed
<1>3. ASSUME NEW r \in Run, MakeRun(r)
      PROVE  RunsAreNamed'
  BY <1>a, <1>3 DEF MakeRun, RequestTyped, RunTyped, RunsAreNamed
<1>4. ASSUME NEW r \in Run, Ends(r)
      PROVE  RunsAreNamed'
  BY <1>a, <1>4
     DEF Ends, SettleRequest, ResultStatus, RequestTyped, RunsAreNamed
<1>5. CASE BindRun
  BY <1>a, <1>5
     DEF BindRun, RequestTyped, Dispatched, Dispatches, RunsAreNamed
<1>6. CASE UNCHANGED RowsOf
  BY <1>6 DEF RowsOf, RunsAreNamed
<1> QED BY <1>1, <1>2, <1>3, <1>4, <1>5, <1>6, FewWrite DEF Writes

\* A request that waits waited before, or its run has just ended, or it was
\* queued again without one.
LEMMA WaitsAgain ==
    ASSUME Typed, Loud, NEW q \in Request,
           status'[q] \in {"queued", "awaiting_review"}
    PROVE  \/ status[q] \in {"queued", "awaiting_review"} /\ run'[q] = run[q]
           \/ run'[q] = None
           \/ \E r \in Run : Ends(r) /\ run'[q] = r
<1>a. /\ TypeOK /\ Dispatched /\ HasRequest /\ RequestTyped /\ RunTyped
  BY TypeParts DEF Typed
<1>1. ASSUME NEW p \in Owner, UpdateRequest(p)
      PROVE  \/ status[q] \in {"queued", "awaiting_review"} /\ run'[q] = run[q]
             \/ run'[q] = None
  <2>1. CASE q = failure[p].request
    BY <1>a, <1>1, <2>1, SettledRow
  <2>2. CASE q # failure[p].request
    BY <1>a, <1>1, <2>2, RequestSettled
  <2> QED BY <2>1, <2>2
<1>2. ASSUME NEW i \in Request, ClaimAgentRequest(i)
      PROVE  status[q] \in {"queued", "awaiting_review"} /\ run'[q] = run[q]
  BY <1>a, <1>2 DEF ClaimAgentRequest, RequestTyped
<1>3. ASSUME NEW r \in Run, MakeRun(r)
      PROVE  status[q] \in {"queued", "awaiting_review"} /\ run'[q] = run[q]
  BY <1>3 DEF MakeRun
<1>4. ASSUME NEW r \in Run, Ends(r)
      PROVE  \/ status[q] \in {"queued", "awaiting_review"} /\ run'[q] = run[q]
             \/ run'[q] = r
  BY <1>a, <1>4
     DEF Ends, SettleRequest, ResultStatus, IsCurrentRun, RequestTyped
<1>5. CASE BindRun
  BY <1>a, <1>5 DEF BindRun, RequestTyped
<1>6. CASE UNCHANGED RowsOf
  BY <1>6 DEF RowsOf
<1> QED BY <1>1, <1>2, <1>3, <1>4, <1>5, <1>6, FewWrite DEF Writes

\* The supervisor hears of a run only through its channel.
LEMMA HeardOf ==
    ASSUME Typed, Loud, NEW r \in Run
    PROVE  \/ stage'[r] = stage[r]
           \/ stage'[r] = "none"
           \/ r \in commands /\ AcceptCommand(r)
<1>a. TypeOK /\ SupervisorTyped /\ SchedulerTyped
  BY TypeParts DEF Typed
<1>1. ASSUME NEW p \in Owner, UpdateRequest(p)
      PROVE  stage'[r] \in {stage[r], "none"}
  BY <1>a, <1>1, RequestSettled
<1>2. ASSUME NEW c \in commands, AcceptCommand(c)
      PROVE  stage'[r] = stage[r] \/ r = c
  BY <1>a, <1>2 DEF AcceptCommand, SupervisorTyped
<1>3. ASSUME NEW c \in Run, Ends(c) \/ DropStaleTerminal(c)
      PROVE  stage'[r] \in {stage[r], "none"}
  BY <1>a, <1>3
     DEF Ends, SettleRequest, DropStaleTerminal, Forget, SupervisorTyped
<1>4. CASE RestartWorker \/ Stop
  BY <1>4 DEF RestartWorker, Stop
<1>5. CASE LoseWorker \/ StartScheduler \/ AbortScheduler
           \/ \E c \in Run : SkipExitedRun(c)
  BY <1>5 DEF LoseWorker, StartScheduler, AbortScheduler, SkipExitedRun
<1>6. CASE Recovers
  BY <1>6 DEF Recovers, BeginTick, ReadOrphans, RecoverOrphan, RecoveryDone
<1>7. CASE Hands
  BY <1>7 DEF Hands, ClaimAgentRequest, BuildFails, MakeRun, BindRun, Submit,
              SubmissionFails, SubmissionAccepted
<1>8. CASE Supervises
  BY <1>2, <1>3, <1>4, <1>5, <1>8 DEF Supervises
<1> QED BY <1>1, <1>4, <1>5, <1>6, <1>7, <1>8 DEF Loud

LEMMA ForgottenStep ==
    ASSUME Typed, TypeOK', HeldInv, Loud
    PROVE  WaitingIsForgotten'
<1>a. /\ TypeOK /\ RequestTyped /\ RequestTyped' /\ SupervisorTyped
  BY TypeParts DEF Typed
<1>b. WaitingIsForgotten /\ SentIsFresh
  BY DEF HeldInv
<1> SUFFICES ASSUME NEW q \in Request,
                    status'[q] \in {"queued", "awaiting_review"},
                    run'[q] # None
             PROVE  stage'[run'[q]] = "none"
  BY DEF WaitingIsForgotten, Unsupervised
<1>1. run'[q] \in Run
  BY <1>a DEF RequestTyped
<1>2. ASSUME NEW r \in Run, Ends(r), run'[q] = r
      PROVE  stage'[r] = "none"
  BY <1>a, <1>2 DEF Ends, SettleRequest, Forget, SupervisorTyped
<1>3. CASE status[q] \in {"queued", "awaiting_review"} /\ run'[q] = run[q]
  <2>1. stage[run[q]] = "none"
    BY <1>b, <1>3 DEF WaitingIsForgotten, Unsupervised
  <2>2. run[q] \notin commands
    BY <1>b, <1>3 DEF SentIsFresh, Fresh
  <2> QED BY <1>1, <1>3, <2>1, <2>2, HeardOf
<1> QED BY <1>2, <1>3, WaitsAgain

LEMMA StaysFresh ==
    ASSUME Typed, TypeOK', Loud, NEW r \in Run, Fresh(r),
           ~(r \in commands /\ AcceptCommand(r))
    PROVE  Fresh(r)'
<1>1. stage'[r] = "none"
  BY HeardOf DEF Fresh
<1>2. ASSUME NEW q \in Request, status'[q] \in {"queued", "awaiting_review"}
      PROVE  run'[q] # r
  <2>1. ASSUME NEW c \in Run, Ends(c) PROVE c # r
    BY <2>1 DEF Ends, Fresh
  <2> QED BY <1>2, <2>1, WaitsAgain DEF Fresh
<1> QED BY <1>1, <1>2 DEF Fresh

\* The scheduler keeps what it has in hand, or lets go of it.
LEMMA PlaceKept ==
    ASSUME Typed, Loud, pc' \in {"session", "bound", "submitted"}
    PROVE  \/ UNCHANGED <<pc, dispatch>> /\ commands' \subseteq commands
           \/ \E r \in Run : MakeRun(r)
           \/ BindRun \/ Submit
<1>a. TypeOK /\ SchedulerTyped /\ Deciding
  BY TypeParts DEF Typed
<1>1. ASSUME NEW p \in Owner, UpdateRequest(p)
      PROVE  UNCHANGED <<pc, dispatch>> /\ commands' \subseteq commands
  BY <1>1 DEF UpdateRequest, Proceed
<1>2. CASE Recovers
  BY <1>2 DEF Recovers, BeginTick, ReadOrphans, RecoverOrphan, RecoveryDone
<1>3. CASE Hands
  BY <1>3 DEF Hands, ClaimAgentRequest, BuildFails, SubmissionFails,
              SubmissionAccepted
<1>4. CASE Supervises
  BY <1>4 DEF Supervises, AcceptCommand, Ends, SettleRequest,
              DropStaleTerminal, SkipExitedRun, LoseWorker, RestartWorker
<1>5. CASE StartScheduler \/ AbortScheduler \/ Stop
  BY <1>5 DEF StartScheduler, AbortScheduler, Stop, ResetScheduler
<1> QED BY <1>1, <1>2, <1>3, <1>4, <1>5 DEF Loud

\* Only Submit puts a run into the channel.
LEMMA CommandsOf ==
    ASSUME Typed, Loud
    PROVE  commands' \subseteq commands \/ Submit
<1>1. CASE Recovers \/ Hands
  BY <1>1 DEF Recovers, BeginTick, ReadOrphans, RecoverOrphan, RecoveryDone,
              Hands, ClaimAgentRequest, BuildFails, MakeRun, BindRun,
              SubmissionFails, SubmissionAccepted
<1>2. CASE Supervises
  BY <1>2 DEF Supervises, AcceptCommand, Ends, SettleRequest,
              DropStaleTerminal, SkipExitedRun, LoseWorker, RestartWorker
<1>3. CASE StartScheduler \/ AbortScheduler \/ Stop
  BY <1>3 DEF StartScheduler, AbortScheduler, Stop
<1>4. ASSUME NEW p \in Owner, UpdateRequest(p)
      PROVE  commands' \subseteq commands
  BY <1>4 DEF UpdateRequest
<1> QED BY <1>1, <1>2, <1>3, <1>4 DEF Loud

LEMMA SentFreshStep ==
    ASSUME Typed, TypeOK', HeldInv, Loud
    PROVE  SentIsFresh'
<1>a. /\ TypeOK /\ Dispatched /\ HasRequest
      /\ RequestTyped /\ RunTyped /\ SchedulerTyped /\ SchedulerTyped'
  BY TypeParts DEF Typed
<1>b. RunsAreNamed /\ SentIsFresh
  BY DEF HeldInv
<1>1. ASSUME NEW r \in commands' PROVE Fresh(r)'
  <2>1. CASE Submit
    <3>1. r \in Run /\ Fresh(r) /\ UNCHANGED <<stage, status, run>>
      BY <1>a, <1>b, <1>1, <2>1
         DEF Submit, SentIsFresh, SchedulerTyped, Dispatched
    <3> QED BY <3>1 DEF Fresh
  <2>2. CASE r \in commands
    <3>1. r \in Run /\ Fresh(r)
      BY <1>a, <1>b, <2>2 DEF SentIsFresh, SchedulerTyped
    <3>2. ~AcceptCommand(r)
      BY <1>1 DEF AcceptCommand
    <3> QED BY <3>1, <3>2, StaysFresh
  <2> QED BY <1>1, <2>1, <2>2, CommandsOf
<1>2. ASSUME pc' \in {"session", "bound"}
      PROVE  Fresh(dispatch.run)' /\ dispatch'.run \notin commands'
  <2>1. CASE UNCHANGED <<pc, dispatch>> /\ commands' \subseteq commands
    <3>1. PICK r \in Run : r = dispatch.run /\ Fresh(r) /\ r \notin commands
      BY <1>a, <1>b, <1>2, <2>1 DEF SentIsFresh, Dispatched
    <3>2. Fresh(r)'
      BY <3>1, StaysFresh
    <3>3. dispatch'.run = r
      BY <2>1, <3>1
    <3> QED BY <2>1, <3>1, <3>2, <3>3 DEF Fresh
  <2>2. ASSUME NEW r \in Run, MakeRun(r)
        PROVE  Fresh(dispatch.run)' /\ dispatch'.run \notin commands'
    <3>1. /\ dispatch'.run = r /\ origin[r] = None
          /\ UNCHANGED <<stage, status, run, commands>>
      BY <1>a, <2>2 DEF MakeRun, Dispatched, Dispatches
    <3>2. stage[r] = "none" /\ r \notin commands
      BY <1>a, <3>1 DEF HasRequest
    <3>3. \A q \in Request : run[q] # r
      BY <1>a, <1>b, <3>1 DEF RunsAreNamed
    <3> QED BY <3>1, <3>2, <3>3 DEF Fresh
  <2>3. CASE BindRun
    <3>1. /\ dispatch' = dispatch
          /\ UNCHANGED <<stage, status, commands>>
          /\ \A q \in Request : status[q] # "running" => run'[q] = run[q]
      BY <1>a, <2>3 DEF BindRun, RequestTyped
    <3>2. Fresh(dispatch.run) /\ dispatch.run \notin commands
      BY <1>b, <2>3 DEF SentIsFresh, BindRun
    <3> QED BY <3>1, <3>2 DEF Fresh
  <2>4. CASE Submit
    BY <1>2, <2>4 DEF Submit
  <2> QED BY <1>2, <2>1, <2>2, <2>3, <2>4, PlaceKept
<1> QED BY <1>1, <1>2 DEF SentIsFresh

LEMMA SentNamedStep ==
    ASSUME Typed, TypeOK', HeldInv, Loud
    PROVE  SentIsNamed'
<1>a. /\ TypeOK /\ Dispatched /\ Deciding
      /\ RequestTyped /\ SchedulerTyped /\ SchedulerTyped'
  BY TypeParts DEF Typed
<1>b. SentIsFresh /\ SentIsNamed /\ RunsAreNamed
  BY DEF HeldInv
<1>1. ASSUME pc' = "bound" \/ Sent', status'[dispatch'.request] = "running"
      PROVE  run'[dispatch'.request] = dispatch'.run
  <2> DEFINE q == dispatch.request
  <2>1. CASE UNCHANGED <<pc, dispatch>> /\ commands' \subseteq commands
    <3>1. q \in Request /\ status'[q] = "running"
      BY <1>a, <1>1, <2>1 DEF Sent, Dispatched, Dispatches
    <3>2. pc = "bound" \/ Sent
      BY <1>1, <2>1 DEF Sent
    <3>3. ~ClaimAgentRequest(q) /\ ~BindRun
      BY <2>1, <3>2 DEF Sent, ClaimAgentRequest, BindRun
    <3>4. status[q] = "running" /\ run'[q] = run[q]
      BY <3>1, <3>3, RunsByClaim
    <3> QED BY <1>b, <2>1, <3>2, <3>4 DEF SentIsNamed
  <2>2. CASE BindRun
    BY <1>a, <1>1, <2>2 DEF BindRun, RequestTyped, Dispatched, Dispatches
  <2>3. CASE Submit
    BY <1>b, <1>1, <2>3 DEF Submit, SentIsNamed
  <2>4. CASE \E r \in Run : MakeRun(r)
    BY <1>1, <2>4 DEF MakeRun, Sent
  <2> QED BY <1>1, <2>1, <2>2, <2>3, <2>4, PlaceKept DEF Sent
<1>2. ASSUME reply' # "none" PROVE pc' \in {"submitted", "failing"}
  <2>1. ASSUME NEW p \in Owner, UpdateRequest(p)
        PROVE  pc' \in {"submitted", "failing"}
    BY <1>b, <1>2, <2>1 DEF UpdateRequest, Proceed, SentIsNamed
  <2>2. CASE Recovers
    BY <1>b, <1>2, <2>2 DEF SentIsNamed, Recovers, BeginTick, ReadOrphans,
           RecoverOrphan, RecoveryDone
  <2>3. CASE Hands
    BY <1>b, <1>2, <2>3 DEF SentIsNamed, Hands, ClaimAgentRequest, BuildFails,
           MakeRun, BindRun, Submit, SubmissionFails, SubmissionAccepted
  <2>4. ASSUME NEW r \in commands, AcceptCommand(r)
        PROVE  pc' \in {"submitted", "failing"}
    BY <1>b, <1>2, <2>4 DEF SentIsNamed, AcceptCommand, Answer
  <2>5. CASE Supervises
    BY <1>b, <1>2, <2>4, <2>5 DEF SentIsNamed, Supervises, Ends,
           SettleRequest, DropStaleTerminal, SkipExitedRun, LoseWorker,
           RestartWorker
  <2>6. CASE StartScheduler \/ AbortScheduler \/ Stop
    BY <1>b, <1>2, <2>6 DEF SentIsNamed, StartScheduler, AbortScheduler, Stop,
           ResetScheduler
  <2> QED BY <2>1, <2>2, <2>3, <2>5, <2>6 DEF Loud
<1>3. ASSUME Sent' PROVE reply' = "none"
  <2>1. ASSUME NEW p \in Owner, UpdateRequest(p)
        PROVE  reply' = "none"
    BY <1>b, <1>3, <2>1 DEF UpdateRequest, Proceed, SentIsNamed, Sent
  <2>2. CASE Recovers
    BY <1>b, <1>3, <2>2 DEF SentIsNamed, Sent, Recovers, BeginTick,
           ReadOrphans, RecoverOrphan, RecoveryDone
  <2>3. CASE Hands
    BY <1>b, <1>3, <2>3 DEF SentIsNamed, Sent, Hands, ClaimAgentRequest,
           BuildFails, MakeRun, BindRun, Submit, SubmissionFails,
           SubmissionAccepted
  <2>4. ASSUME NEW r \in commands, AcceptCommand(r)
        PROVE  reply' = "none"
    BY <1>b, <1>3, <2>4 DEF SentIsNamed, Sent, AcceptCommand, Answer
  <2>5. CASE Supervises
    BY <1>b, <1>3, <2>4, <2>5 DEF SentIsNamed, Sent, Supervises, Ends,
           SettleRequest, DropStaleTerminal, SkipExitedRun, LoseWorker,
           RestartWorker
  <2>6. CASE StartScheduler \/ AbortScheduler \/ Stop
    BY <1>3, <2>6 DEF Sent, StartScheduler, AbortScheduler, Stop,
           ResetScheduler
  <2> QED BY <2>1, <2>2, <2>3, <2>5, <2>6 DEF Loud
<1> QED BY <1>1, <1>2, <1>3 DEF SentIsNamed

LEMMA ExitsStep ==
    ASSUME Typed, TypeOK', HeldInv, Loud
    PROVE  ExitsAreSettled'
<1>a. /\ TypeOK /\ Dispatched /\ HasRequest
      /\ RequestTyped /\ RunTyped /\ SupervisorTyped
  BY TypeParts DEF Typed
<1>b. /\ WaitingIsForgotten /\ SentIsFresh /\ ExitsAreSettled
      /\ FailureIsOfItsRun
  BY DEF HeldInv
\* A run that is not current becomes current only when nobody knows it.
<1>1. ASSUME NEW r \in Active, IsCurrentRun(r)'
      PROVE  IsCurrentRun(r)
  <2>1. r \in Run /\ stage[r] # "none" /\ origin[r] \in Request
    BY <1>a DEF Active, HasRequest
  <2>2. origin'[r] = origin[r]
    <3>1. ASSUME NEW c \in Run, MakeRun(c) PROVE origin'[r] = origin[r]
      BY <1>a, <2>1, <3>1 DEF MakeRun, RunTyped
    <3>2. CASE UNCHANGED origin
      BY <3>2
    <3>3. UNCHANGED origin \/ \E c \in Run : MakeRun(c)
      BY FewWrite DEF Writes, RowsOf, UpdateRequest, ClaimAgentRequest, Ends,
                      BindRun
    <3> QED BY <3>1, <3>2, <3>3
  <2> DEFINE q == origin[r]
  <2>3. status'[q] = "running" /\ run'[q] = r
    BY <1>1, <2>2 DEF IsCurrentRun
  <2>4. CASE ClaimAgentRequest(q) /\ run'[q] = run[q]
    <3>1. status[q] = "queued"
      BY <2>4 DEF ClaimAgentRequest, NextClaimable, Claimable
    <3> QED BY <1>b, <2>1, <2>3, <2>4, <3>1
            DEF WaitingIsForgotten, Unsupervised
  <2>5. CASE BindRun /\ run'[q] = dispatch.run
    BY <1>b, <2>1, <2>3, <2>5 DEF BindRun, SentIsFresh, Fresh
  <2>6. CASE status[q] = "running" /\ run'[q] = run[q]
    BY <2>3, <2>6 DEF IsCurrentRun
  <2> QED BY <2>1, <2>3, <2>4, <2>5, <2>6, RunsByClaim
<1>2. ASSUME NEW p \in Owner, UpdateRequest(p)
      PROVE  ExitsAreSettled'
  <2>1. CASE exiting
    <3>1. exiting' = exiting /\ UNCHANGED <<stage, origin>>
      BY <1>2, <2>1 DEF UpdateRequest, Proceed
    <3>2. Active' = Active
      BY <3>1 DEF Active
    <3>3. exitRuns' = exitRuns \/ (p = "supervisor"
              /\ exitRuns' = exitRuns \ {failure["supervisor"].task})
      BY <1>2, <2>1 DEF UpdateRequest, Proceed, Owner
    <3>4. ASSUME NEW r \in Active, r \notin exitRuns PROVE ~IsCurrentRun(r)'
      BY <1>1, <1>b, <2>1, <3>4 DEF ExitsAreSettled
    <3>5. ASSUME NEW r \in Active, p = "supervisor", r = failure[p].task
          PROVE  ~IsCurrentRun(r)'
      <4>1. failure[p] # None /\ origin[r] = failure[p].request
        BY <1>2, <1>a, <1>b, <3>5, RequestSettled DEF FailureIsOfItsRun
      <4>2. origin[r] \in Request
        BY <1>a DEF HasRequest, Active
      <4>3. status'[origin[r]] # "running"
        BY <1>a, <1>2, <3>5, <4>1, <4>2, SettledRow
      <4> QED BY <3>1, <4>3 DEF IsCurrentRun
    <3> QED BY <3>1, <3>2, <3>3, <3>4, <3>5 DEF ExitsAreSettled
  <2>2. CASE ~exiting
    BY <1>2, <2>2 DEF UpdateRequest, ExitsAreSettled
  <2> QED BY <2>1, <2>2
<1>3. ASSUME UNCHANGED <<stage, exiting, exitRuns>>
      PROVE  ExitsAreSettled'
  BY <1>1, <1>b, <1>3 DEF ExitsAreSettled, Active
<1>4. CASE Recovers
  BY <1>3, <1>4 DEF Recovers, BeginTick, ReadOrphans, RecoverOrphan,
                    RecoveryDone
<1>5. CASE Hands
  BY <1>3, <1>5 DEF Hands, ClaimAgentRequest, BuildFails, MakeRun, BindRun,
                    Submit, SubmissionFails, SubmissionAccepted
<1>6. CASE Supervises
  <2>1. ASSUME NEW r \in commands, AcceptCommand(r) PROVE ExitsAreSettled'
    BY <2>1 DEF AcceptCommand, Serving, ExitsAreSettled
  <2>2. ASSUME NEW r \in Run, Ends(r) \/ DropStaleTerminal(r)
        PROVE  ExitsAreSettled'
    BY <2>2 DEF Ends, SettleRequest, DropStaleTerminal, Serving,
                ExitsAreSettled
  <2>3. ASSUME NEW r \in Run, SkipExitedRun(r) PROVE ExitsAreSettled'
    BY <1>b, <2>3 DEF SkipExitedRun, ExitsAreSettled, Active, IsCurrentRun
  <2>4. CASE LoseWorker
    BY <2>4 DEF LoseWorker, ExitsAreSettled, Active
  <2>5. CASE RestartWorker
    BY <2>5 DEF RestartWorker, ExitsAreSettled
  <2> QED BY <1>6, <2>1, <2>2, <2>3, <2>4, <2>5 DEF Supervises
<1>7. CASE StartScheduler \/ AbortScheduler
  BY <1>3, <1>7 DEF StartScheduler, AbortScheduler
<1>8. CASE Stop
  BY <1>8 DEF Stop, ExitsAreSettled
<1> QED BY <1>2, <1>4, <1>5, <1>6, <1>7, <1>8 DEF Loud

LEMMA FailureOfRunStep ==
    ASSUME Typed, FailureIsOfItsRun, Loud
    PROVE  FailureIsOfItsRun'
<1>a. TypeOK /\ RunTyped /\ SupervisorTyped /\ "supervisor" \in Owner
  BY TypeParts DEF Typed, Owner
<1>1. ASSUME NEW p \in Owner, UpdateRequest(p)
      PROVE  FailureIsOfItsRun'
  <2>1. UNCHANGED origin
    BY <1>1 DEF UpdateRequest
  <2> QED BY <1>a, <1>1, <2>1, RequestSettled DEF FailureIsOfItsRun
<1>2. ASSUME NEW r \in Run, MakeRun(r)
      PROVE  FailureIsOfItsRun'
  BY <1>a, <1>2, FailuresAreOfRequests
     DEF MakeRun, RunTyped, FailureIsOfItsRun
<1>3. ASSUME UNCHANGED <<failure, origin>>
      PROVE  FailureIsOfItsRun'
  BY <1>3 DEF FailureIsOfItsRun
<1>4. ASSUME NEW f, failure' = [failure EXCEPT !["scheduler"] = f],
             UNCHANGED origin
      PROVE  FailureIsOfItsRun'
  BY <1>a, <1>4 DEF FailureIsOfItsRun, SupervisorTyped
<1>5. CASE Recovers
  BY <1>3, <1>4, <1>5 DEF Recovers, BeginTick, ReadOrphans, RecoverOrphan,
                          RecoveryDone
<1>6. CASE Hands
  BY <1>2, <1>3, <1>4, <1>6
     DEF Hands, ClaimAgentRequest, BuildFails, BeginFailure, BindRun, Submit,
         SubmissionFails, SubmissionAccepted
<1>7. CASE Supervises
  BY <1>3, <1>7 DEF Supervises, AcceptCommand, Ends, SettleRequest,
         DropStaleTerminal, SkipExitedRun, LoseWorker, RestartWorker
<1>8. CASE StartScheduler \/ AbortScheduler
  BY <1>3, <1>4, <1>8 DEF StartScheduler, AbortScheduler
<1>9. CASE Stop
  BY <1>9 DEF Stop, FailureIsOfItsRun, Owner
<1> QED BY <1>1, <1>5, <1>6, <1>7, <1>8, <1>9 DEF Loud

LEMMA RecoveryDueStep ==
    ASSUME Typed, RecoveryIsDue, Loud
    PROVE  RecoveryIsDue'
<1>1. ASSUME NEW p \in Owner, UpdateRequest(p)
      PROVE  RecoveryIsDue'
  BY <1>1 DEF UpdateRequest, Proceed, RecoveryIsDue
<1>2. CASE Recovers
  BY <1>2 DEF Recovers, BeginTick, ReadOrphans, RecoverOrphan, RecoveryDone,
              RecoveryIsDue
<1>3. CASE Hands
  BY <1>3 DEF Hands, ClaimAgentRequest, BuildFails, MakeRun, BindRun, Submit,
              SubmissionFails, SubmissionAccepted, RecoveryIsDue
<1>4. CASE Supervises
  BY <1>4 DEF Supervises, AcceptCommand, Ends, SettleRequest,
         DropStaleTerminal, SkipExitedRun, LoseWorker, RestartWorker,
         RecoveryIsDue
<1>5. CASE StartScheduler \/ AbortScheduler \/ Stop
  BY <1>5 DEF StartScheduler, AbortScheduler, Stop, ResetScheduler,
              RecoveryIsDue
<1> QED BY <1>1, <1>2, <1>3, <1>4, <1>5 DEF Loud

LEMMA UpdateHolds ==
    ASSUME Typed, HeldInv, NEW p \in Owner, UpdateRequest(p),
           NEW q \in Request, Held(q), q # failure[p].request
    PROVE  Held(q)'
<1>a. /\ TypeOK /\ HasRequest /\ Deciding /\ RequestTyped /\ SupervisorTyped
  BY TypeParts DEF Typed
<1>b. RunsAreNamed /\ FailureIsOfItsRun /\ RecoveryIsDue
  BY DEF HeldInv
<1>1. /\ run'[q] = run[q]
      /\ \A o \in Owner \ {p} : failure'[o] = failure[o]
      /\ failure[p] # None
  BY <1>a, RequestSettled
<1>2. /\ UNCHANGED <<recovered, seen, rows, commands>>
      /\ p = "supervisor" => UNCHANGED <<pc, dispatch, reply>>
      /\ p = "scheduler" => pc \in {"rows", "failing"}
      /\ p = "scheduler" /\ pc = "rows" => UNCHANGED <<pc, dispatch, reply>>
      /\ p \in {"scheduler", "supervisor"}
  BY <1>a, <1>1 DEF UpdateRequest, Proceed, Deciding, Owner
<1>3. CASE Dispatching(q)
  <2>1. p = "supervisor"
    BY <1>2, <1>3 DEF Dispatching
  <2> QED BY <1>2, <1>3, <2>1 DEF Held, Dispatching
<1>4. CASE run[q] # None /\ stage[run[q]] # "none"
  <2>1. run[q] \in Run /\ origin[run[q]] = q
    BY <1>a, <1>b, <1>4 DEF RequestTyped, RunsAreNamed
  <2>2. p = "supervisor" => run[q] # failure[p].task
    BY <1>b, <1>1, <2>1 DEF FailureIsOfItsRun
  <2>3. stage'[run[q]] = stage[run[q]]
    BY <1>a, <2>1, <2>2, RequestSettled
  <2> QED BY <1>1, <1>4, <2>3 DEF Held
<1>5. CASE \E o \in Owner : failure[o] # None /\ failure[o].request = q
  BY <1>1, <1>5 DEF Held
<1>6. CASE AwaitsRecovery(q)
  <2>1. CASE p = "supervisor" \/ pc = "rows"
    BY <1>1, <1>2, <1>6, <2>1 DEF Held, AwaitsRecovery
  <2>2. CASE p = "scheduler" /\ pc = "failing"
    BY <1>b, <1>6, <2>2 DEF AwaitsRecovery, RecoveryIsDue
  <2> QED BY <1>2, <2>1, <2>2
<1> QED BY <1>3, <1>4, <1>5, <1>6 DEF Held

\* Recovery finds every request that nobody else has, and leaves none before
\* it has settled it.
LEMMA RecoveryHolds ==
    ASSUME Typed, HeldInv, Recovers,
           NEW q \in Request, status[q] = "running"
    PROVE  Held(q)'
<1>a. /\ TypeOK /\ RequestTyped /\ SchedulerTyped /\ SupervisorTyped
  BY TypeParts DEF Typed
<1>b. RecoveryIsDue /\ Held(q)
  BY DEF HeldInv, RunningIsHeld
<1>1. CASE BeginTick /\ ~recovered
  <2>1. /\ pc' = "orphans" /\ seen' = Active
        /\ UNCHANGED <<run, stage>>
    BY <1>1 DEF BeginTick
  <2>2. run[q] \in Active => run[q] # None /\ stage[run[q]] # "none"
    BY DEF Active
  <2> QED BY <2>1, <2>2 DEF Held, AwaitsRecovery
<1>2. CASE ReadOrphans
  <2>1. CASE Orphaned(q)
    <3> DEFINE row == [request |-> q, run |-> run[q], task |-> task[q],
                       attempts |-> attempts[q]]
    <3>1. row \in rows' /\ row.request = q
      BY <1>2, <2>1 DEF ReadOrphans
    <3> QED BY <3>1 DEF Held, AwaitsRecovery
  <2>2. CASE ~Orphaned(q)
    <3>1. ~AwaitsRecovery(q) /\ ~Dispatching(q)
      BY <1>b, <1>2, <2>2
         DEF ReadOrphans, Orphaned, RecoveryIsDue, AwaitsRecovery, Dispatching
    <3> QED BY <1>b, <1>2, <3>1 DEF ReadOrphans, Held
  <2> QED BY <2>1, <2>2
<1>3. ASSUME NEW row \in rows, RecoverOrphan(row)
      PROVE  Held(q)'
  <2>1. /\ pc = "rows" /\ failure["scheduler"] = None
        /\ rows' = rows \ {row}
        /\ UNCHANGED <<pc, run, stage>>
    BY <1>3 DEF RecoverOrphan
  <2>2. /\ failure'["scheduler"] # None
        /\ failure'["scheduler"].request = row.request
        /\ failure'["supervisor"] = failure["supervisor"]
    <3> DEFINE s == IF mode[row.request] = "research" THEN row.run ELSE None
               f == [request |-> row.request, task |-> row.task,
                     session |-> s, attempts |-> row.attempts,
                     kind |-> "recovery", step |-> StepFrom(row.task, s)]
    <3>1. failure' = [failure EXCEPT !["scheduler"] = f]
      BY <1>3 DEF RecoverOrphan
    <3>2. row \in Row
      BY <1>a DEF SchedulerTyped
    <3>3. /\ s \in Run \cup {None}
          /\ StepFrom(row.task, s) \in {"task", "session", "row"}
      BY <3>2 DEF Row, StepFrom
    <3> HIDE DEF s
    <3>4. f \in Failure
      BY <3>2, <3>3 DEF Row, Failure
    <3>5. f # None /\ f.request = row.request
      BY <3>4
    <3> HIDE DEF f
    <3> QED BY <1>a, <3>1, <3>5 DEF SupervisorTyped, Owner
  <2>3. CASE q = row.request
    BY <2>2, <2>3 DEF Held, Owner
  <2>4. CASE q # row.request
    <3>1. ~Dispatching(q)
      BY <2>1 DEF Dispatching
    <3>2. CASE \E p \in Owner : failure[p] # None /\ failure[p].request = q
      BY <2>1, <2>2, <3>2 DEF Held, Owner
    <3>3. CASE AwaitsRecovery(q)
      BY <2>1, <2>4, <3>3 DEF Held, AwaitsRecovery
    <3>4. CASE run[q] # None /\ stage[run[q]] # "none"
      BY <2>1, <3>4 DEF Held
    <3> QED BY <1>b, <3>1, <3>2, <3>3, <3>4 DEF Held
  <2> QED BY <2>3, <2>4
<1>4. ASSUME NEW all \in BOOLEAN, RecoveryDone(all)
      PROVE  Held(q)'
  <2>1. ~Dispatching(q) /\ ~AwaitsRecovery(q)
    BY <1>4 DEF RecoveryDone, Dispatching, AwaitsRecovery
  <2> QED BY <1>b, <1>4, <2>1 DEF RecoveryDone, Held
<1> QED BY <1>1, <1>2, <1>3, <1>4 DEF Recovers

\* The scheduler lets go of what it has claimed when the supervisor has taken
\* the run, or when it fails it.
LEMMA DispatchHolds ==
    ASSUME Typed, TypeOK', HeldInv, Hands,
           NEW q \in Request, status'[q] = "running"
    PROVE  Held(q)'
<1>a. /\ TypeOK /\ Dispatched /\ HasRequest /\ Deciding
      /\ RequestTyped /\ SchedulerTyped /\ SupervisorTyped
  BY TypeParts DEF Typed
<1>b. RecoveryIsDue /\ SentIsNamed /\ (status[q] = "running" => Held(q))
  BY DEF HeldInv, RunningIsHeld
<1>1. ASSUME NEW i \in Request, ClaimAgentRequest(i)
      PROVE  Held(q)'
  <2>1. CASE q = i
    BY <1>1, <2>1 DEF ClaimAgentRequest, Held, Dispatching
  <2>2. CASE q # i
    <3>1. status[q] = "running"
      BY <1>a, <1>1, <2>2 DEF ClaimAgentRequest, RequestTyped
    <3>2. ~Dispatching(q) /\ ~AwaitsRecovery(q)
      BY <1>b, <1>1
         DEF ClaimAgentRequest, Dispatching, AwaitsRecovery, RecoveryIsDue
    <3> QED BY <1>b, <1>1, <3>1, <3>2 DEF ClaimAgentRequest, Held
  <2> QED BY <2>1, <2>2
<1>2. ASSUME NEW s \in Run \cup {None},
             NEW kind \in {"retryable", "permanent"},
             BeginFailure("scheduler", dispatch.request, None, s, kind),
             pc \in {"claimed", "bound", "submitted"},
             UNCHANGED <<status, run, stage>>
      PROVE  Held(q)'
  <2> DEFINE f == [request |-> dispatch.request, task |-> None,
                   session |-> s, attempts |-> 0, kind |-> kind,
                   step |-> "read"]
  <2>1. failure["scheduler"] = None /\ rows = {}
    BY <1>a, <1>b, <1>2 DEF Deciding, RecoveryIsDue
  <2>2. /\ failure'["scheduler"] = f
        /\ failure'["supervisor"] = failure["supervisor"]
    BY <1>a, <1>2 DEF BeginFailure, SupervisorTyped, Owner
  <2>3. f \in Failure
    BY <1>a, <1>2 DEF Dispatched, Dispatches, Failure
  <2>4. f.request = dispatch.request
    OBVIOUS
  <2>5. f # None
    BY <2>3
  <2> HIDE DEF f
  <2> QED BY <1>b, <1>2, <2>1, <2>2, <2>4, <2>5
          DEF Held, Dispatching, AwaitsRecovery, Owner
<1>3. CASE BuildFails
  BY <1>2, <1>3 DEF BuildFails
<1>4. CASE SubmissionFails
  <2> DEFINE s == IF mode[dispatch.request] = "research"
                  THEN dispatch.run ELSE None
  <2>1. s \in Run \cup {None}
    BY <1>a, <1>4 DEF SubmissionFails, Dispatched
  <2>2. /\ BeginFailure("scheduler", dispatch.request, None, s, "retryable")
        /\ pc \in {"bound", "submitted"}
        /\ UNCHANGED <<status, run, stage>>
    BY <1>4 DEF SubmissionFails
  <2> HIDE DEF s
  <2> QED BY <1>2, <2>1, <2>2
<1>5. ASSUME NEW r \in Run, MakeRun(r)
      PROVE  Held(q)'
  <2>1. dispatch'.request = dispatch.request /\ rows = {}
    BY <1>a, <1>b, <1>5 DEF MakeRun, Dispatched, Dispatches, RecoveryIsDue
  <2> QED BY <1>b, <1>5, <2>1
          DEF MakeRun, Held, Dispatching, AwaitsRecovery
<1>6. CASE BindRun
  <2>1. /\ q # dispatch.request => run'[q] = run[q]
        /\ rows = {}
    BY <1>a, <1>b, <1>6 DEF BindRun, RequestTyped, RecoveryIsDue
  <2> QED BY <1>b, <1>6, <2>1
          DEF BindRun, Held, Dispatching, AwaitsRecovery
<1>7. CASE Submit
  <2>1. rows = {}
    BY <1>b, <1>7 DEF Submit, RecoveryIsDue
  <2> QED BY <1>b, <1>7, <2>1
          DEF Submit, Held, Dispatching, AwaitsRecovery
<1>8. CASE SubmissionAccepted
  <2>1. ~Dispatching(q) /\ ~AwaitsRecovery(q)
    BY <1>b, <1>8 DEF SubmissionAccepted, SentIsNamed, Sent, Dispatching,
                      AwaitsRecovery, RecoveryIsDue
  <2> QED BY <1>b, <1>8, <2>1 DEF SubmissionAccepted, Held
<1> QED BY <1>1, <1>3, <1>4, <1>5, <1>6, <1>7, <1>8 DEF Hands

\* The supervisor lets go of a run when it settles its request, or when the
\* request does not name it.
LEMMA SupervisorHolds ==
    ASSUME Typed, TypeOK', HeldInv, Supervises,
           NEW q \in Request, status'[q] = "running"
    PROVE  Held(q)'
<1>a. /\ TypeOK /\ Dispatched /\ HasRequest
      /\ RequestTyped /\ SchedulerTyped /\ SupervisorTyped
  BY TypeParts DEF Typed
<1>b. /\ RunsAreNamed /\ SentIsNamed /\ ExitsAreSettled
      /\ (status[q] = "running" => Held(q))
  BY DEF HeldInv, RunningIsHeld
<1>1. ASSUME status[q] = "running",
             UNCHANGED <<run, pc, recovered, seen, rows, dispatch, commands,
                         reply, failure>>,
             run[q] # None /\ stage[run[q]] # "none" =>
                 stage'[run[q]] # "none"
      PROVE  Held(q)'
  BY <1>b, <1>1 DEF Held, Dispatching, AwaitsRecovery
<1>2. ASSUME NEW r \in commands, AcceptCommand(r)
      PROVE  Held(q)'
  <2>1. /\ r \in Run /\ commands' = commands \ {r}
        /\ UNCHANGED <<status, run, pc, recovered, seen, rows, dispatch,
                       failure>>
    BY <1>a, <1>2 DEF AcceptCommand, SchedulerTyped
  <2>2. \A c \in Run : stage[c] # "none" => stage'[c] # "none"
    BY <1>a, <1>2 DEF AcceptCommand, SupervisorTyped
  <2>3. status[q] = "running" /\ Held(q)
    BY <1>b, <2>1
  <2>4. CASE Dispatching(q) /\ Sent /\ r = dispatch.run
    <3>1. run[q] = r /\ r # None
      BY <1>b, <2>1, <2>3, <2>4 DEF SentIsNamed, Dispatching
    <3>2. stage'[r] = "submitted" \/ reply' = "err"
      BY <1>a, <1>2, <2>1, <2>4
         DEF AcceptCommand, Answer, Sent, SupervisorTyped
    <3> QED BY <2>1, <2>4, <3>1, <3>2 DEF Held, Dispatching, Sent
  <2>5. CASE Dispatching(q) /\ ~(Sent /\ r = dispatch.run)
    <3>1. reply' = reply
      BY <1>2, <2>5 DEF AcceptCommand, Answer, Sent
    <3> QED BY <2>1, <2>5, <3>1 DEF Held, Dispatching, Sent
  <2>6. CASE run[q] # None /\ stage[run[q]] # "none"
    <3>1. run[q] \in Run
      BY <1>a, <2>6 DEF RequestTyped
    <3> QED BY <2>1, <2>2, <2>6, <3>1 DEF Held
  <2>7. CASE \E p \in Owner : failure[p] # None /\ failure[p].request = q
    BY <2>1, <2>7 DEF Held
  <2>8. CASE AwaitsRecovery(q)
    BY <2>1, <2>8 DEF Held, AwaitsRecovery
  <2> QED BY <2>3, <2>4, <2>5, <2>6, <2>7, <2>8 DEF Held
<1>3. ASSUME NEW r \in Run, Ends(r)
      PROVE  Held(q)'
  <2>1. /\ origin[r] \in Request
        /\ stage' = [stage EXCEPT ![r] = "none"]
        /\ UNCHANGED <<run, pc, recovered, seen, rows, dispatch, commands,
                       reply, failure>>
    BY <1>a, <1>3 DEF Ends, SettleRequest, Forget, HasRequest
  <2>2. q # origin[r] /\ status[q] = "running"
    BY <1>a, <1>3, <2>1
       DEF Ends, SettleRequest, ResultStatus, RequestTyped
  <2>3. run[q] # None => run[q] \in Run /\ run[q] # r
    BY <1>a, <1>b, <2>2 DEF RunsAreNamed, RequestTyped
  <2> QED BY <1>a, <1>1, <2>1, <2>2, <2>3 DEF SupervisorTyped
<1>4. ASSUME NEW r \in Run, DropStaleTerminal(r)
      PROVE  Held(q)'
  <2>1. /\ ~IsCurrentRun(r)
        /\ stage' = [stage EXCEPT ![r] = "none"]
        /\ UNCHANGED <<status, run, pc, recovered, seen, rows, dispatch,
                       commands, reply, failure>>
    BY <1>4 DEF DropStaleTerminal, Forget
  <2>2. status[q] = "running"
    BY <2>1
  <2>3. run[q] # None => run[q] \in Run /\ run[q] # r
    BY <1>a, <1>b, <2>1, <2>2 DEF RunsAreNamed, RequestTyped, IsCurrentRun
  <2> QED BY <1>a, <1>1, <2>1, <2>2, <2>3 DEF SupervisorTyped
<1>5. CASE LoseWorker \/ \E r \in Run : SkipExitedRun(r)
  BY <1>1, <1>5 DEF LoseWorker, SkipExitedRun
<1>6. CASE RestartWorker
  <2>1. /\ exiting /\ exitRuns = {}
        /\ UNCHANGED <<status, run, pc, recovered, seen, rows, dispatch,
                       commands, reply, failure>>
    BY <1>6 DEF RestartWorker
  <2>2. status[q] = "running"
    BY <2>1
  <2>3. run[q] # None => stage[run[q]] = "none"
    <3> SUFFICES ASSUME run[q] # None, stage[run[q]] # "none" PROVE FALSE
      OBVIOUS
    <3>1. run[q] \in Active /\ origin[run[q]] = q
      BY <1>a, <1>b DEF RequestTyped, RunsAreNamed, Active
    <3> QED BY <1>b, <2>1, <2>2, <3>1 DEF ExitsAreSettled, IsCurrentRun
  <2> QED BY <1>1, <2>1, <2>2, <2>3
<1> QED BY <1>2, <1>3, <1>4, <1>5, <1>6 DEF Supervises

LEMMA HeldStep ==
    ASSUME Typed, TypeOK', HeldInv, Loud
    PROVE  RunningIsHeld'
<1> SUFFICES ASSUME NEW q \in Request, status'[q] = "running"
             PROVE  Held(q)'
  BY DEF RunningIsHeld
<1>1. ASSUME NEW p \in Owner, UpdateRequest(p)
      PROVE  Held(q)'
  <2>1. q # failure[p].request /\ status[q] = "running"
    BY <1>1, RequestSettled, SettledRow DEF Typed
  <2>2. Held(q)
    BY <2>1 DEF HeldInv, RunningIsHeld
  <2> QED BY <1>1, <2>1, <2>2, UpdateHolds
<1>2. CASE Recovers
  <2>1. UNCHANGED status
    BY <1>2 DEF Recovers, BeginTick, ReadOrphans, RecoverOrphan, RecoveryDone
  <2> QED BY <1>2, <2>1, RecoveryHolds
<1>3. CASE Hands
  BY <1>3, DispatchHolds
<1>4. CASE Supervises
  BY <1>4, SupervisorHolds
<1>5. CASE StartScheduler
  <2>1. ~recovered /\ UNCHANGED recovered /\ pc' = "tick"
    BY <1>5 DEF StartScheduler, HeldInv, RecoveryIsDue
  <2> QED BY <2>1 DEF Held, AwaitsRecovery
<1>6. CASE AbortScheduler \/ Stop
  BY <1>6 DEF AbortScheduler, Stop, ResetScheduler, Held, AwaitsRecovery
<1> QED BY <1>1, <1>2, <1>3, <1>4, <1>5, <1>6 DEF Loud

LEMMA HeldInvStep ==
    ASSUME Typed, TypeOK', HeldInv, [Next]_vars
    PROVE  HeldInv'
<1>1. BindingInv /\ BindingInv'
  BY BindingStep DEF HeldInv
<1>2. CASE Quiet
  BY <1>1, <1>2, QuietHeld
<1>3. CASE Loud
  <2>1. RunsAreNamed' /\ WaitingIsForgotten' /\ SentIsFresh' /\ SentIsNamed'
    BY <1>3, NamedStep, ForgottenStep, SentFreshStep, SentNamedStep DEF HeldInv
  <2>2. /\ ExitsAreSettled' /\ FailureIsOfItsRun' /\ RecoveryIsDue'
        /\ RunningIsHeld'
    BY <1>3, ExitsStep, FailureOfRunStep, RecoveryDueStep, HeldStep DEF HeldInv
  <2> QED BY <1>1, <2>1, <2>2 DEF HeldInv
<1> QED BY <1>1, <1>2, <1>3, StepKinds

LEMMA HeldInit == Init => HeldInv
<1> SUFFICES ASSUME Init PROVE HeldInv
  OBVIOUS
<1> USE DEF Init, SchedulerOff, SupervisorIdle
<1>1. RunsAreNamed /\ WaitingIsForgotten /\ SentIsFresh /\ SentIsNamed
  BY DEF RunsAreNamed, WaitingIsForgotten, Unsupervised, SentIsFresh, Fresh,
         SentIsNamed, Sent
<1>2. BindingInv /\ ExitsAreSettled /\ FailureIsOfItsRun /\ RecoveryIsDue
  BY DEF BindingInv, ExitsAreSettled, FailureIsOfItsRun, RecoveryIsDue, Owner
<1>3. RunningIsHeld
  BY DEF RunningIsHeld
<1> QED BY <1>1, <1>2, <1>3 DEF HeldInv

-----------------------------------------------------------------------------
(* The theorems.                                                           *)

\* Supervisor, recovery and dispatch agree on who works on which request,
\* for ever, unless the scheduler is replaced alone.
THEOREM InductiveInvariant == Spec => []IInv
<1>1. Init => IInv
  BY InitInv
<1>2. IInv /\ [Next]_vars => IInv'
  BY InvStep
<1> QED BY <1>1, <1>2, PTL DEF Spec

\* Every variable keeps its type, also when the scheduler is replaced.
THEOREM TypeCorrect == Spec => []TypeOK
<1>1. IInv => TypeOK
  BY DEF IInv, Typed
<1> QED BY <1>1, InductiveInvariant, PTL

\* What is put before the requester is the proposal of the run its request
\* names, and it can be accepted until somebody decides it: no recovery,
\* clean-up, exit of the worker or late failure closes its task.
THEOREM ReviewedProposalsAreOpen == Spec => []ReviewedProposalIsOpen
<1>1. IInv => ReviewedProposalIsOpen
  BY DEF IInv, Agreement, RequestInv, NamesItsRun, ReviewFits,
         ReviewedProposalIsOpen
<1> QED BY <1>1, InductiveInvariant, PTL

\* A request that was approved and completed has its proposal in the
\* documents, although applying it and settling the request are two
\* transactions and the interface decides the same proposals.
THEOREM ApprovedAreWritten == Spec => []ApprovedIsWritten
<1>1. IInv => ApprovedIsWritten
  BY DEF IInv, Agreement, RequestInv, DecisionFits, ApprovedIsWritten
<1> QED BY <1>1, InductiveInvariant, PTL

\* Failure, dead letter and recovery close the session of a research run
\* before its request stops running.
THEOREM EndedRequestsCloseSessions == Spec => []EndedRequestClosesSession
<1>1. IInv => EndedRequestClosesSession
  BY DEF IInv, Agreement, RequestInv, ResearchFits, SessionOf,
         EndedRequestClosesSession
<1> QED BY <1>1, InductiveInvariant, PTL

\* However failures, recoveries and revisions follow each other, a request is
\* claimed MaxAttempts times at most, and once more for each revision.
THEOREM ClaimsAreBounded == Spec => []AttemptsAreBounded
<1>1. IInv => AttemptsAreBounded
  BY DEF IInv, Agreement, RequestInv, AttemptsFit, AttemptsAreBounded
<1> QED BY <1>1, InductiveInvariant, PTL

\* A running request is dispatched, supervised, being failed or waiting for
\* recovery, whoever dies, stops, is replaced or answers late.
THEOREM RunningRequestsAreHeld == Spec => []RunningIsHeld
<1>1. Init => Typed /\ HeldInv
  BY InitType, HeldInit
<1>2. Typed /\ HeldInv /\ [Next]_vars => Typed' /\ HeldInv'
  <2> SUFFICES ASSUME Typed, HeldInv, [Next]_vars PROVE Typed' /\ HeldInv'
    OBVIOUS
  <2>1. Typed' /\ TypeOK'
    BY TypedStep DEF Typed
  <2> QED BY <2>1, HeldInvStep
<1>3. HeldInv => RunningIsHeld
  BY DEF HeldInv
<1> QED BY <1>1, <1>2, <1>3, PTL DEF Spec
=============================================================================
