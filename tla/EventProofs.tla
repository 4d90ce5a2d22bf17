---------------------------- MODULE EventProofs ----------------------------
(***************************************************************************)
(* Theorems about DurableWaits and Outbox, the two ends of an event: what   *)
(* is recorded with a change and sent to the workflow scanner, and the      *)
(* waits the scanner ends.  They hold for every set of workflows, runs,     *)
(* waits and messages, every limit on attempts, batches and rows read, and  *)
(* any number of stops.                                                     *)
(*                                                                          *)
(* That the tables of the waits agree is inductive only with what ties a    *)
(* timer to its wait before either is settled (TimerOfWait): cancelling a   *)
(* timer wait finds a timer to cancel because the two were inserted         *)
(* together.                                                                *)
(***************************************************************************)
EXTENDS DurableWaits, Outbox, FiniteSetTheorems, SequenceTheorems, TLAPS

USE NoneIsNoId, WaitsHaveHomes, LimitsArePositive, NoneIsNoGeneration,
    TablesAreFinite

-----------------------------------------------------------------------------
(* What the fragments of WorkflowRuntime that are called here keep.        *)

\* A workflow runs exactly when it names a run, and that run is its only open
\* attempt.
RunsAgree(w) ==
    /\ (wfState[w] = "RUNNING") <=> (currentRun[w] # None)
    /\ \A r \in Run : AttemptRuns(w, r) <=> (currentRun[w] = r)

\* The states and statuses these fragments write are those of the schema.
LEMMA WrittenStates ==
    /\ {"READY", "RUNNING", "COMPLETED", "FAILED", "CANCELLED",
        "RETRY_SCHEDULED", "WAITING_APPROVAL"} \subseteq WorkflowState
    /\ {"queued", "active", "waiting", "completed", "failed", "cancelled"}
          \subseteq ItemStatus
BY DEF WorkflowState, StartableStates, WaitingStates, TerminalStates, ItemStatus

\* Ending the attempt of a run, or of no run, keeps the table typed.
LEMMA FinishAttemptType ==
    ASSUME WorkflowTypeOK, NEW w \in Workflow, NEW r \in Run \cup {None},
           NEW s \in {"completed", "failed", "interrupted"},
           FinishAttempt(w, r, s)
    PROVE  attempt' \in [Run -> Attempt \cup {None}]
<1>1. CASE AttemptRuns(w, r)
  <2>1. r \in Run /\ attempt[r] \in Attempt
    BY <1>1 DEF AttemptRuns, WorkflowTypeOK
  <2>2. [attempt[r] EXCEPT !.status = s] \in Attempt
    BY <2>1 DEF Attempt
  <2>3. attempt' = [attempt EXCEPT ![r] = [attempt[r] EXCEPT !.status = s]]
    BY <1>1 DEF FinishAttempt
  <2>. QED BY <2>1, <2>2, <2>3 DEF WorkflowTypeOK
<1>2. CASE ~AttemptRuns(w, r)
  BY <1>2 DEF FinishAttempt, WorkflowTypeOK
<1>. QED BY <1>1, <1>2

\* Settling a wait condition keeps the table typed.
LEMMA SettleWaitType ==
    ASSUME WorkflowTypeOK, NEW c \in Wait,
           NEW s \in {"satisfied", "cancelled", "failed"},
           SettleWait(c, s)
    PROVE  wait' \in [Wait -> WaitCondition \cup {None}]
<1>1. CASE WaitIs(c, "pending")
  <2>1. wait[c] \in WaitCondition
    BY <1>1 DEF WaitIs, WorkflowTypeOK
  <2>2. [wait[c] EXCEPT !.status = s] \in WaitCondition
    BY <2>1 DEF WaitCondition
  <2>3. wait' = [wait EXCEPT ![c] = [wait[c] EXCEPT !.status = s]]
    BY <1>1 DEF SettleWait
  <2>. QED BY <2>2, <2>3 DEF WorkflowTypeOK
<1>2. CASE ~WaitIs(c, "pending")
  BY <1>2 DEF SettleWait, WorkflowTypeOK
<1>. QED BY <1>1, <1>2

\* A new pending wait is a typed row.
LEMMA InsertWaitType ==
    ASSUME WorkflowTypeOK, NEW c \in Wait, NEW w \in Workflow,
           NEW k \in WaitKind, InsertWait(c, w, k)
    PROVE  wait' \in [Wait -> WaitCondition \cup {None}]
BY DEF InsertWait, WorkflowTypeOK, WaitCondition

\* The workflow part of proposing, resuming and forcing a state.
LEMMA ResumeType ==
    ASSUME WorkflowTypeOK, NEW w \in Workflow, NEW c \in Wait,
           ResumeWorkflow(w, c)
    PROVE  /\ wfState' \in [Workflow -> WorkflowState]
           /\ currentRun' \in [Workflow -> Run \cup {None}]
           /\ currentWait' \in [Workflow -> Wait \cup {None}]
           /\ item' \in [Workflow -> ItemStatus]
           /\ attempt' \in [Run -> Attempt \cup {None}]
BY DEF ResumeWorkflow, WorkflowTypeOK, WorkflowState, StartableStates, ItemStatus

\* What an agent run's report does to the workflow tables is typed.
LEMMA EndRunType ==
    ASSUME WorkflowTypeOK, NEW w \in Workflow, NEW r \in Run,
           MarkCompleted(w, r) \/ MarkFailed(w, r) \/ MarkRetryScheduled(w, r)
    PROVE  /\ wfState' \in [Workflow -> WorkflowState]
           /\ currentRun' \in [Workflow -> Run \cup {None}]
           /\ currentWait' \in [Workflow -> Wait \cup {None}]
           /\ item' \in [Workflow -> ItemStatus]
           /\ attempt' \in [Run -> Attempt \cup {None}]
<1>1. CASE MarkCompleted(w, r)
  <2>1. attempt' \in [Run -> Attempt \cup {None}]
    BY <1>1, FinishAttemptType DEF MarkCompleted
  <2>. QED BY <1>1, <2>1, WrittenStates DEF MarkCompleted, WorkflowTypeOK
<1>2. CASE MarkFailed(w, r)
  <2>1. attempt' \in [Run -> Attempt \cup {None}]
    BY <1>2, FinishAttemptType DEF MarkFailed
  <2>. QED BY <1>2, <2>1, WrittenStates DEF MarkFailed, WorkflowTypeOK
<1>3. CASE MarkRetryScheduled(w, r)
  <2>1. attempt' \in [Run -> Attempt \cup {None}]
    BY <1>3, FinishAttemptType DEF MarkRetryScheduled
  <2>. QED BY <1>3, <2>1, WrittenStates DEF MarkRetryScheduled, WorkflowTypeOK
<1>. QED BY <1>1, <1>2, <1>3

\* A started run has a typed attempt row.
LEMMA StartRunType ==
    ASSUME WorkflowTypeOK, NEW w \in Workflow, NEW r \in Run, NEW n \in Nat,
           StartRun(w, r, n)
    PROVE  /\ wfState' \in [Workflow -> WorkflowState]
           /\ currentRun' \in [Workflow -> Run \cup {None}]
           /\ currentWait' \in [Workflow -> Wait \cup {None}]
           /\ item' \in [Workflow -> ItemStatus]
           /\ attempt' \in [Run -> Attempt \cup {None}]
<1>1. [workflow |-> w, number |-> n, status |-> "running"] \in Attempt
  BY DEF Attempt
<1>. QED BY <1>1, WrittenStates DEF StartRun, WorkflowTypeOK

\* A suspended run leaves typed rows, on a new wait or a reused one.
LEMMA SuspendRunType ==
    ASSUME WorkflowTypeOK, NEW w \in Workflow, NEW r \in Run, NEW c \in Wait,
           NEW k \in WaitKind, SuspendRun(w, r, c, k)
    PROVE  WorkflowTypeOK'
<1>1. attempt' \in [Run -> Attempt \cup {None}]
  BY FinishAttemptType DEF SuspendRun, EndRunWaiting
<1>2. wait' \in [Wait -> WaitCondition \cup {None}]
  BY InsertWaitType DEF SuspendRun, WorkflowTypeOK
<1>3. WaitingFor[k] \in WorkflowState
  BY DEF WaitingFor, WaitKind, WorkflowState, WaitingStates
<1>. QED BY <1>1, <1>2, <1>3, WrittenStates
         DEF SuspendRun, EndRunWaiting, WorkflowTypeOK

\* Starting a run opens its attempt, and no other is open.
LEMMA StartKeepsRuns ==
    ASSUME WorkflowTypeOK, \A v \in Workflow : RunsAgree(v),
           NEW w \in Workflow, NEW r \in Run, NEW n \in Nat, StartRun(w, r, n)
    PROVE  /\ \A v \in Workflow : RunsAgree(v)'
           /\ attempt'[r] # None
           /\ \A q \in Run : attempt[q] # None => attempt'[q] = attempt[q]
<1>. DEFINE row == [workflow |-> w, number |-> n, status |-> "running"]
<1>1. /\ attempt[r] = None /\ wfState[w] \in StartableStates
      /\ attempt' = [attempt EXCEPT ![r] = row]
      /\ wfState' = [wfState EXCEPT ![w] = "RUNNING"]
      /\ currentRun' = [currentRun EXCEPT ![w] = r]
  BY DEF StartRun, CanStartRun, FreshAttempt
<1>2. row.workflow = w /\ row.status = "running" /\ row # None
  <2>1. row \in Attempt
    BY DEF Attempt
  <2>. QED BY <2>1, NoneIsNoRow
<1>. HIDE DEF row
<1>3. currentRun[w] = None
  BY <1>1 DEF RunsAgree, StartableStates
<1>. QED BY <1>1, <1>2, <1>3 DEF RunsAgree, AttemptRuns, WorkflowTypeOK

\* Ending the run of a workflow closes its attempt, whatever the workflow
\* becomes.
LEMMA EndKeepsRuns ==
    ASSUME WorkflowTypeOK, \A v \in Workflow : RunsAgree(v),
           NEW w \in Workflow, NEW r \in Run \cup {None},
           NEW s \in {"completed", "failed", "interrupted"},
           FinishAttempt(w, r, s),
           currentRun[w] \in {r, None},
           currentRun' = [currentRun EXCEPT ![w] = None],
           NEW x, x # "RUNNING",
           wfState' = [wfState EXCEPT ![w] = x]
    PROVE  /\ \A v \in Workflow : RunsAgree(v)'
           /\ \A q \in Run : attempt[q] # None => attempt'[q] # None
<1>1. \A v \in Workflow, q \in Run : AttemptRuns(v, q) <=> (currentRun[v] = q)
  BY DEF RunsAgree
<1>2. /\ \A q \in Run : (q # r \/ ~AttemptRuns(w, r)) => attempt'[q] = attempt[q]
      /\ AttemptRuns(w, r) => attempt'[r].status = s /\ attempt'[r] # None
  <2>1. CASE AttemptRuns(w, r)
    <3>1. attempt[r] \in Attempt
      BY <2>1 DEF WorkflowTypeOK, AttemptRuns
    <3>2. attempt' = [attempt EXCEPT ![r] = [attempt[r] EXCEPT !.status = s]]
      BY <2>1 DEF FinishAttempt
    <3>3. [attempt[r] EXCEPT !.status = s] \in Attempt
      BY <3>1 DEF Attempt
    <3>. QED BY <2>1, <3>1, <3>2, <3>3, NoneIsNoRow
             DEF WorkflowTypeOK, Attempt, AttemptRuns
  <2>2. CASE ~AttemptRuns(w, r)
    BY <2>2 DEF FinishAttempt
  <2>. QED BY <2>1, <2>2
<1>3. ASSUME NEW v \in Workflow, NEW q \in Run
      PROVE  AttemptRuns(v, q)' <=> (currentRun'[v] = q)
  <2>1. CASE v = w
    <3>1. currentRun'[v] # q
      BY <2>1 DEF WorkflowTypeOK
    <3>2. CASE AttemptRuns(w, r) /\ q = r
      BY <1>2, <3>1, <3>2 DEF AttemptRuns
    <3>3. CASE ~(AttemptRuns(w, r) /\ q = r)
      <4>1. ~AttemptRuns(w, q)
        BY <1>1, <3>3
      <4>2. attempt'[q] = attempt[q]
        BY <1>2, <3>3
      <4>. QED BY <2>1, <3>1, <4>1, <4>2 DEF AttemptRuns
    <3>. QED BY <3>2, <3>3
  <2>2. CASE v # w
    <3>1. currentRun'[v] = currentRun[v]
      BY <2>2 DEF WorkflowTypeOK
    <3>2. CASE AttemptRuns(w, r) /\ q = r
      BY <1>1, <1>2, <2>2, <3>1, <3>2 DEF AttemptRuns
    <3>3. CASE ~(AttemptRuns(w, r) /\ q = r)
      <4>1. attempt'[q] = attempt[q]
        BY <1>2, <3>3
      <4>. QED BY <1>1, <3>1, <4>1 DEF AttemptRuns
    <3>. QED BY <3>2, <3>3
  <2>. QED BY <2>1, <2>2
<1>4. \A v \in Workflow : (wfState'[v] = "RUNNING") <=> (currentRun'[v] # None)
  BY DEF RunsAgree, WorkflowTypeOK
<1>5. \A q \in Run : attempt[q] # None => attempt'[q] # None
  BY <1>2
<1>. QED BY <1>3, <1>4, <1>5 DEF RunsAgree

-----------------------------------------------------------------------------
\* TimersAgreeWithWaits and WorkflowAgreesWithRows, of one row.
TimerAgrees(c) ==
    /\ (timer[c] = "processing") <=> (holder[c] # None)
    /\ expired[c] => timer[c] = "processing"
    /\ (timer[c] = "fired") <=> (c \in fired)
    /\ timer[c] = "fired" => WaitIs(c, "satisfied")
    /\ timer[c] = "dead_lettered" => ~WaitIs(c, "pending")
    /\ WaitIs(c, "failed") => timer[c] = "dead_lettered"
    /\ WaitIs(c, "cancelled") <=> timer[c] = "cancelled"

WorkflowAgrees(w) ==
    /\ (wfState[w] \in WaitingStates) <=> (currentWait[w] # None)
    /\ currentWait[w] # None =>
          /\ Home[currentWait[w]] = w
          /\ wait[currentWait[w]] # None
          /\ wfState[w] = WaitingFor[Kind[currentWait[w]]]
    /\ RunsAgree(w)

\* A timer is inserted with its wait or after it, and never without one.
TimerOfWait(c) ==
    /\ timer[c] # "none" => wait[c] # None
    /\ wait[c] # None =>
          /\ wait[c].kind = Kind[c]
          /\ Kind[c] = "timer" => timer[c] # "none"

\* What the second scan has read is still satisfied when it comes to it.
ScannedAreSatisfied ==
    scan = "resume" => \A c \in scanned : WaitIs(c, "satisfied")

IInv ==
    /\ TypeOK
    /\ \A c \in Wait : TimerAgrees(c) /\ TimerOfWait(c)
    /\ \A w \in Workflow : WorkflowAgrees(w)
    /\ ScannedAreSatisfied

\* A settled wait keeps its status.
SettledStays ==
    \A c \in Wait, s \in {"satisfied", "cancelled", "failed"} :
        WaitIs(c, s) => WaitIs(c, s)'

-----------------------------------------------------------------------------
(* Types *)

LEMMA InitType == Init => TypeOK
BY DEF Init, TypeOK, WorkflowTypeOK, WorkflowState, StartableStates, ItemStatus

\* Positions of waits are counted.
LEMMA NoteCreationType ==
    ASSUME TypeOK, NEW c \in Wait, NoteCreation(c)
    PROVE  created' \in [Wait -> Nat]
<1>1. Cardinality(Inserted) \in Nat
  BY FS_Subset, FS_CardinalityType DEF Inserted
<1>. QED BY <1>1 DEF NoteCreation, TypeOK

\* Failing waits keeps the table typed.
LEMMA FailWaitsType ==
    ASSUME WorkflowTypeOK, NEW C \in SUBSET Wait, FailWaits(C)
    PROVE  wait' \in [Wait -> WaitCondition \cup {None}]
<1>1. ASSUME NEW c \in Wait, WaitIs(c, "pending")
      PROVE  [wait[c] EXCEPT !.status = "failed"] \in WaitCondition
  BY <1>1 DEF WaitIs, WorkflowTypeOK, WaitCondition
<1>. QED BY <1>1 DEF FailWaits, WorkflowTypeOK

\* Numbers of attempts stay within the limit because an exhausted timer is no
\* candidate.
LEMMA ClaimType ==
    ASSUME TypeOK, ClaimDueTimers
    PROVE  TypeOK'
<1>1. \A c \in Candidates : c \in Wait /\ tries[c] + 1 \in 1..MaxAttempts
  BY DEF Candidates, Exhausted, TypeOK
<1>2. tries' \in [Wait -> 0..MaxAttempts]
  BY <1>1 DEF ClaimDueTimers, CountTries, TypeOK
<1>3. batch' \in SUBSET Claim
  BY <1>1 DEF ClaimDueTimers, Claim
<1>4. /\ timer' \in [Wait -> {"none", "scheduled", "processing", "fired",
                              "cancelled", "dead_lettered"}]
      /\ holder' \in [Wait -> (0..MaxStops) \cup {None}]
      /\ expired' \in [Wait -> BOOLEAN]
  BY DEF ClaimDueTimers, TypeOK
<1>. QED BY <1>2, <1>3, <1>4
         DEF ClaimDueTimers, TypeOK, workflowVars, scannerVars, WorkflowTypeOK

LEMMA DeadLetterType ==
    ASSUME TypeOK, NEW C \in SUBSET Wait, DeadLetterTimers(C)
    PROVE  /\ timer' \in [Wait -> {"none", "scheduled", "processing", "fired",
                                   "cancelled", "dead_lettered"}]
           /\ holder' \in [Wait -> (0..MaxStops) \cup {None}]
           /\ expired' \in [Wait -> BOOLEAN]
           /\ wait' \in [Wait -> WaitCondition \cup {None}]
BY FailWaitsType DEF DeadLetterTimers, TypeOK

\* The number of a run's attempt is counted too.
AttemptsOf(w) == {q \in Run : attempt[q] # None /\ attempt[q].workflow = w}

LEMMA NextNumber ==
    ASSUME NEW w \in Workflow
    PROVE  Cardinality(AttemptsOf(w)) + 1 \in Nat
<1>1. IsFiniteSet(AttemptsOf(w))
  BY FS_Subset DEF AttemptsOf
<1>. QED BY <1>1, FS_CardinalityType

\* Every step keeps the tables and the memory of the loops typed.
LEMMA TypeStep ==
    ASSUME TypeOK, [Next]_vars
    PROVE  TypeOK'
<1>. USE DEF TypeOK, WaitKind
<1>1. ASSUME NEW w \in Workflow, NEW r \in Run, StartNextRun(w, r)
      PROVE  TypeOK'
  <2>. DEFINE n == Cardinality(AttemptsOf(w)) + 1
  <2>1. n \in Nat
    BY NextNumber
  <2>2. StartRun(w, r, n)
    BY <1>1 DEF StartNextRun, AttemptsOf
  <2>. QED BY <1>1, <2>1, <2>2, StartRunType
           DEF StartNextRun, WorkflowTypeOK, timerVars, schedulerVars, scannerVars
<1>2. ASSUME NEW w \in Workflow, NEW r \in Run, EndRun(w, r)
      PROVE  TypeOK'
  BY <1>2, EndRunType
     DEF EndRun, WorkflowTypeOK, timerVars, schedulerVars, scannerVars
<1>3. ASSUME NEW c \in Wait, NEW r \in Run, NEW timed \in BOOLEAN,
             Suspend(c, r, timed)
      PROVE  TypeOK'
  <2>1. WorkflowTypeOK'
    BY <1>3, SuspendRunType DEF Suspend
  <2>2. created' \in [Wait -> Nat]
    BY <1>3, NoteCreationType DEF Suspend
  <2>. QED BY <1>3, <2>1, <2>2
           DEF Suspend, InsertTimer, schedulerVars, scannerVars
<1>4. ASSUME NEW c \in Wait, ScheduleTimer(c) PROVE TypeOK'
  <2>1. created' \in [Wait -> Nat]
    BY <1>4, NoteCreationType DEF ScheduleTimer
  <2>2. wait' \in [Wait -> WaitCondition \cup {None}]
    BY <1>4, InsertWaitType DEF ScheduleTimer
  <2>. QED BY <1>4, <2>1, <2>2
           DEF ScheduleTimer, InsertTimer, WorkflowTypeOK, instanceVars,
               schedulerVars, scannerVars
<1>5. ASSUME NEW c \in Wait, CancelTimer(c) PROVE TypeOK'
  <2>1. wait' \in [Wait -> WaitCondition \cup {None}]
    BY <1>5, SettleWaitType DEF CancelTimer
  <2>2. WorkflowTypeOK'
    BY <1>5, <2>1 DEF CancelTimer, WorkflowTypeOK, instanceVars
  <2>3. /\ timer' \in [Wait -> {"none", "scheduled", "processing", "fired",
                                "cancelled", "dead_lettered"}]
        /\ holder' \in [Wait -> (0..MaxStops) \cup {None}]
        /\ expired' \in [Wait -> BOOLEAN]
    BY <1>5 DEF CancelTimer
  <2>4. UNCHANGED <<created, tries, due, fired, matched, schedulerVars,
                    scannerVars>>
    BY <1>5 DEF CancelTimer
  <2>. QED BY <2>2, <2>3, <2>4 DEF schedulerVars, scannerVars
<1>6. ASSUME NEW c \in Wait, RecordEvent(c) \/ DueArrives(c) \/ LeaseExpires(c)
      PROVE  TypeOK'
  BY <1>6 DEF RecordEvent, DueArrives, LeaseExpires, WorkflowTypeOK,
              workflowVars, timerVars, schedulerVars, scannerVars
<1>7. CASE DeadLetterExhausted
  BY <1>7, DeadLetterType
     DEF DeadLetterExhausted, WorkflowTypeOK, instanceVars, scannerVars
<1>8. CASE ClaimDueTimers
  BY <1>8, ClaimType
<1>9. ASSUME NEW claim \in batch, FireTimer(claim) PROVE TypeOK'
  <2>1. claim.wait \in Wait /\ Home[claim.wait] \in Workflow
    BY DEF Claim
  <2>2. wait' \in [Wait -> WaitCondition \cup {None}]
    BY <1>9, <2>1, SettleWaitType DEF FireTimer
  <2>. QED BY <1>9, <2>1, <2>2, ResumeType
           DEF FireTimer, WorkflowTypeOK, scannerVars
<1>10. ASSUME NEW claim \in batch, LeaveTimer(claim) PROVE TypeOK'
  BY <1>10 DEF LeaveTimer, WorkflowTypeOK, workflowVars, timerVars, scannerVars
<1>11. ASSUME NEW claim \in batch, RescheduleFailed(claim) PROVE TypeOK'
  <2>1. claim.wait \in Wait
    BY DEF Claim
  <2>2. CASE Exhausted(claim.number)
    BY <1>11, <2>1, <2>2, DeadLetterType
       DEF RescheduleFailed, WorkflowTypeOK, instanceVars, scannerVars
  <2>3. CASE ~Exhausted(claim.number)
    BY <1>11, <2>1, <2>3
       DEF RescheduleFailed, WorkflowTypeOK, instanceVars, scannerVars
  <2>. QED BY <2>2, <2>3
<1>12. CASE EndTick
  BY <1>12 DEF EndTick, WorkflowTypeOK, workflowVars, timerVars, scannerVars
<1>13. CASE ReadEventWaits \/ ReadSatisfiedWaits \/ EndScan
  BY <1>13 DEF ReadEventWaits, ReadSatisfiedWaits, EndScan, Oldest,
               WaitingForEvent, Resumable, WorkflowTypeOK, workflowVars,
               timerVars, schedulerVars
<1>14. ASSUME NEW c \in scanned, ConsumeEventWait(c) PROVE TypeOK'
  <2>1. c \in Wait /\ Home[c] \in Workflow
    OBVIOUS
  <2>2. wait' \in [Wait -> WaitCondition \cup {None}]
    BY <1>14, <2>1, SettleWaitType
       DEF ConsumeEventWait, SatisfyWait, WorkflowTypeOK
  <2>3. /\ wfState' \in [Workflow -> WorkflowState]
        /\ currentRun' \in [Workflow -> Run \cup {None}]
        /\ currentWait' \in [Workflow -> Wait \cup {None}]
        /\ item' \in [Workflow -> ItemStatus]
        /\ attempt' \in [Run -> Attempt \cup {None}]
    BY <1>14, <2>1, ResumeType
       DEF ConsumeEventWait, ResumeWith, WorkflowTypeOK, instanceVars
  <2>. QED BY <1>14, <2>2, <2>3
           DEF ConsumeEventWait, WorkflowTypeOK, timerVars, schedulerVars
<1>15. ASSUME NEW c \in scanned, ResumeSatisfiedWait(c) PROVE TypeOK'
  BY <1>15, ResumeType
     DEF ResumeSatisfiedWait, WorkflowTypeOK, timerVars, schedulerVars
<1>16. CASE Stop
  BY <1>16 DEF Stop, WorkflowTypeOK, workflowVars, timerVars
<1>17. CASE UNCHANGED vars
  BY <1>17 DEF vars, WorkflowTypeOK, workflowVars, timerVars, schedulerVars,
               scannerVars
<1>. HIDE DEF TypeOK
<1>. QED BY <1>1, <1>2, <1>3, <1>4, <1>5, <1>6, <1>7, <1>8, <1>9, <1>10,
            <1>11, <1>12, <1>13, <1>14, <1>15, <1>16, <1>17
         DEF Next, TimerStep, ScannerStep

-----------------------------------------------------------------------------
(* Timers and waits *)

\* What settling a wait leaves in its table.
LEMMA SettledRow ==
    ASSUME IInv, NEW c \in Wait, NEW s \in {"satisfied", "cancelled", "failed"},
           WaitIs(c, "pending"), SettleWait(c, s)
    PROVE  /\ wait'[c] # None /\ wait'[c].status = s
           /\ wait'[c].kind = wait[c].kind
           /\ \A d \in Wait \ {c} : wait'[d] = wait[d]
<1>1. wait[c] \in WaitCondition
  BY DEF IInv, TypeOK, WorkflowTypeOK, WaitIs
<1>2. wait' = [wait EXCEPT ![c] = [wait[c] EXCEPT !.status = s]]
  BY DEF SettleWait
<1>3. [wait[c] EXCEPT !.status = s] \in WaitCondition
  BY <1>1 DEF WaitCondition
<1>. QED BY <1>1, <1>2, <1>3, NoneIsNoRow
         DEF IInv, TypeOK, WorkflowTypeOK, WaitCondition

\* And what inserting one leaves there.
LEMMA InsertedRow ==
    ASSUME IInv, NEW c \in Wait, NEW w \in Workflow, NEW k \in WaitKind,
           InsertWait(c, w, k)
    PROVE  /\ wait'[c] # None /\ wait'[c].status = "pending"
           /\ wait'[c].kind = k
           /\ \A d \in Wait \ {c} : wait'[d] = wait[d]
<1>1. [workflow |-> w, kind |-> k, status |-> "pending"] \in WaitCondition
  BY DEF WaitCondition
<1>. QED BY <1>1, NoneIsNoRow DEF InsertWait, IInv, TypeOK, WorkflowTypeOK

LEMMA InitTimers == Init => \A c \in Wait : TimerAgrees(c) /\ TimerOfWait(c)
BY DEF Init, TimerAgrees, TimerOfWait, WaitIs

\* Giving up timers that are leased fails the waits that still pend.
LEMMA DeadLetterTimersKeeps ==
    ASSUME IInv, NEW C \in SUBSET Wait, DeadLetterTimers(C), UNCHANGED fired,
           \A c \in C : timer[c] = "processing"
    PROVE  \A c \in Wait : TimerAgrees(c)' /\ TimerOfWait(c)'
<1>. SUFFICES ASSUME NEW c \in Wait PROVE TimerAgrees(c)' /\ TimerOfWait(c)'
  OBVIOUS
<1>. USE DEF IInv, TypeOK, WorkflowTypeOK, TimerAgrees, TimerOfWait, WaitIs,
             DeadLetterTimers, FailWaits
<1>1. wait[c] # None => [wait[c] EXCEPT !.status = "failed"] \in WaitCondition
  BY DEF WaitCondition
<1>2. CASE c \in C
  <2>1. CASE WaitIs(c, "pending")
    <3>1. wait'[c] # None
      BY <1>1, <1>2, <2>1, NoneIsNoRow
    <3>2. wait'[c].status = "failed" /\ wait'[c].kind = wait[c].kind
      BY <1>2, <2>1 DEF WaitCondition
    <3>. QED BY <1>2, <2>1, <3>1, <3>2
  <2>2. CASE ~WaitIs(c, "pending")
    BY <1>2, <2>2
  <2>. QED BY <2>1, <2>2
<1>3. CASE c \notin C
  BY <1>3
<1>. QED BY <1>2, <1>3

LEMMA TimersStep ==
    ASSUME IInv, [Next]_vars
    PROVE  \A c \in Wait : TimerAgrees(c)' /\ TimerOfWait(c)'
<1>. DEFINE P == \A d \in Wait : TimerAgrees(d)' /\ TimerOfWait(d)'
<1>. USE DEF IInv, TypeOK, WorkflowTypeOK
<1>0. ASSUME UNCHANGED <<timer, holder, expired, fired, wait>> PROVE P
  BY <1>0 DEF TimerAgrees, TimerOfWait, WaitIs
<1>1. ASSUME NEW w \in Workflow, NEW r \in Run,
             StartNextRun(w, r) \/ EndRun(w, r)
      PROVE  P
  BY <1>0, <1>1 DEF StartNextRun, EndRun, timerVars
<1>2. ASSUME NEW c \in Wait, NEW r \in Run, NEW timed \in BOOLEAN,
             Suspend(c, r, timed)
      PROVE  P
  <2>1. CASE wait[c] = None
    <3>1. InsertWait(c, Home[c], Kind[c])
      BY <1>2, <2>1 DEF Suspend, SuspendRun
    <3>2. /\ wait'[c] # None /\ wait'[c].status = "pending"
          /\ wait'[c].kind = Kind[c]
          /\ \A d \in Wait \ {c} : wait'[d] = wait[d]
      BY <3>1, InsertedRow
    <3>3. timer[c] = "none"
      BY <2>1 DEF TimerOfWait
    <3>. QED BY <1>2, <2>1, <3>2, <3>3
             DEF Suspend, InsertTimer, TimerAgrees, TimerOfWait, WaitIs
  <2>2. CASE wait[c] # None
    BY <1>2, <2>2 DEF Suspend, SuspendRun, InsertTimer, TimerAgrees,
                      TimerOfWait, WaitIs
  <2>. QED BY <2>1, <2>2
<1>3. ASSUME NEW c \in Wait, ScheduleTimer(c) PROVE P
  <2>1. InsertWait(c, Home[c], "timer") /\ Kind[c] = "timer"
    BY <1>3 DEF ScheduleTimer
  <2>. QED BY <1>3, <2>1, InsertedRow
           DEF ScheduleTimer, InsertTimer, TimerAgrees, TimerOfWait, WaitIs,
               WaitKind
<1>4. ASSUME NEW c \in Wait, CancelTimer(c) PROVE P
  <2>1. WaitIs(c, "pending") /\ timer[c] \in {"scheduled", "processing"}
    BY <1>4 DEF CancelTimer, TimerAgrees, TimerOfWait, WaitIs
  <2>2. /\ timer' = [timer EXCEPT ![c] = "cancelled"]
        /\ holder' = [holder EXCEPT ![c] = None]
        /\ expired' = [expired EXCEPT ![c] = FALSE]
        /\ fired' = fired
    BY <1>4, <2>1 DEF CancelTimer
  <2>3. SettleWait(c, "cancelled")
    BY <1>4 DEF CancelTimer
  <2>. QED BY <2>1, <2>2, <2>3, SettledRow DEF TimerAgrees, TimerOfWait, WaitIs
<1>5. ASSUME NEW c \in Wait, RecordEvent(c) \/ DueArrives(c) PROVE P
  BY <1>0, <1>5 DEF RecordEvent, DueArrives, workflowVars, timerVars
<1>6. ASSUME NEW c \in Wait, LeaseExpires(c) PROVE P
  BY <1>6 DEF LeaseExpires, workflowVars, TimerAgrees, TimerOfWait, WaitIs
<1>7. CASE DeadLetterExhausted
  BY <1>7, DeadLetterTimersKeeps DEF DeadLetterExhausted
<1>8. CASE ClaimDueTimers
  <2>1. \A c \in Candidates : /\ timer[c] \in {"scheduled", "processing"}
                              /\ WaitIs(c, "pending")
    BY DEF Candidates
  <2>. QED BY <1>8, <2>1
           DEF ClaimDueTimers, workflowVars, TimerAgrees, TimerOfWait, WaitIs
<1>9. ASSUME NEW claim \in batch, FireTimer(claim) PROVE P
  <2>. DEFINE c == claim.wait
  <2>1. c \in Wait /\ WaitIs(c, "pending")
    BY <1>9 DEF FireTimer, OwnsTimer, Claim
  <2>2. SettleWait(c, "satisfied")
    BY <1>9 DEF FireTimer
  <2>3. /\ timer[c] = "processing" /\ timer' = [timer EXCEPT ![c] = "fired"]
        /\ holder' = [holder EXCEPT ![c] = None]
        /\ expired' = [expired EXCEPT ![c] = FALSE]
        /\ fired' = fired \cup {c}
    BY <1>9 DEF FireTimer, OwnsTimer
  <2>. HIDE DEF c
  <2>. QED BY <2>1, <2>2, <2>3, SettledRow DEF TimerAgrees, TimerOfWait, WaitIs
<1>10. ASSUME NEW claim \in batch, RescheduleFailed(claim) PROVE P
  <2>1. claim.wait \in Wait
    BY DEF Claim
  <2>2. CASE Exhausted(claim.number)
    BY <1>10, <2>1, <2>2, DeadLetterTimersKeeps DEF RescheduleFailed
  <2>3. CASE ~Exhausted(claim.number)
    BY <1>10, <2>1, <2>3
       DEF RescheduleFailed, TimerAgrees, TimerOfWait, WaitIs
  <2>. QED BY <2>2, <2>3
<1>11. ASSUME NEW claim \in batch, LeaveTimer(claim) PROVE P
  BY <1>0, <1>11 DEF LeaveTimer, workflowVars, timerVars
<1>12. CASE EndTick \/ ReadEventWaits \/ ReadSatisfiedWaits \/ EndScan \/ Stop
  BY <1>0, <1>12 DEF EndTick, ReadEventWaits, ReadSatisfiedWaits, EndScan, Stop,
                     workflowVars, timerVars
<1>13. ASSUME NEW c \in scanned, ConsumeEventWait(c) PROVE P
  <2>1. CASE c \in matched /\ WaitIs(c, "pending")
    <3>1. SettleWait(c, "satisfied")
      BY <1>13, <2>1 DEF ConsumeEventWait, SatisfyWait
    <3>2. UNCHANGED <<timer, holder, expired, fired>>
      BY <1>13 DEF ConsumeEventWait, timerVars
    <3>. QED BY <2>1, <3>1, <3>2, SettledRow DEF TimerAgrees, TimerOfWait, WaitIs
  <2>2. CASE ~(c \in matched /\ WaitIs(c, "pending"))
    BY <1>0, <1>13, <2>2
       DEF ConsumeEventWait, SatisfyWait, SettleWait, timerVars
  <2>. QED BY <2>1, <2>2
<1>14. ASSUME NEW c \in scanned, ResumeSatisfiedWait(c) PROVE P
  BY <1>0, <1>14 DEF ResumeSatisfiedWait, timerVars
<1>15. CASE UNCHANGED vars
  BY <1>0, <1>15 DEF vars, workflowVars, timerVars
<1>. QED BY <1>1, <1>2, <1>3, <1>4, <1>5, <1>6, <1>7, <1>8, <1>9, <1>10,
            <1>11, <1>12, <1>13, <1>14, <1>15
         DEF Next, TimerStep, ScannerStep

-----------------------------------------------------------------------------
(* A settled wait is settled for good *)

LEMMA SettleWaitStays ==
    ASSUME IInv, NEW c \in Wait, NEW s \in {"satisfied", "cancelled", "failed"},
           SettleWait(c, s)
    PROVE  SettledStays
<1>1. CASE WaitIs(c, "pending")
  BY <1>1, SettledRow DEF SettledStays, WaitIs
<1>2. CASE ~WaitIs(c, "pending")
  BY <1>2 DEF SettleWait, SettledStays, WaitIs
<1>. QED BY <1>1, <1>2

LEMMA SettledStep ==
    ASSUME IInv, [Next]_vars
    PROVE  /\ SettledStays
           /\ \A c \in Wait : wait[c] # None => wait'[c] # None
<1>. DEFINE Q == \A c \in Wait : wait[c] # None => wait'[c] # None
            P == SettledStays /\ Q
<1>0. ASSUME UNCHANGED wait PROVE P
  BY <1>0 DEF SettledStays, WaitIs
<1>1. ASSUME NEW c \in Wait, InsertWait(c, Home[c], Kind[c]), wait[c] = None
      PROVE  P
  BY <1>1, InsertedRow DEF SettledStays, WaitIs
<1>2. ASSUME NEW c \in Wait, NEW s \in {"satisfied", "cancelled", "failed"},
             SettleWait(c, s)
      PROVE  P
  <2>1. CASE WaitIs(c, "pending")
    BY <1>2, <2>1, SettledRow, SettleWaitStays
  <2>2. CASE ~WaitIs(c, "pending")
    BY <1>0, <1>2, <2>2 DEF SettleWait
  <2>. QED BY <2>1, <2>2
<1>3. ASSUME NEW C \in SUBSET Wait, FailWaits(C) PROVE P
  <2>1. \A c \in Wait : wait[c] # None =>
           [wait[c] EXCEPT !.status = "failed"] \in WaitCondition
    BY DEF IInv, TypeOK, WorkflowTypeOK, WaitCondition
  <2>. QED BY <1>3, <2>1, NoneIsNoRow DEF FailWaits, SettledStays, WaitIs
<1>4. ASSUME NEW w \in Workflow, NEW r \in Run,
             StartNextRun(w, r) \/ EndRun(w, r)
      PROVE  P
  BY <1>0, <1>4 DEF StartNextRun, EndRun
<1>5. ASSUME NEW c \in Wait, NEW r \in Run, NEW timed \in BOOLEAN,
             Suspend(c, r, timed)
      PROVE  P
  BY <1>0, <1>1, <1>5 DEF Suspend, SuspendRun
<1>6. ASSUME NEW c \in Wait, ScheduleTimer(c) PROVE P
  BY <1>1, <1>6 DEF ScheduleTimer
<1>7. ASSUME NEW c \in Wait, CancelTimer(c) PROVE P
  BY <1>2, <1>7 DEF CancelTimer
<1>8. ASSUME NEW c \in Wait, RecordEvent(c) \/ DueArrives(c) \/ LeaseExpires(c)
      PROVE  P
  BY <1>0, <1>8 DEF RecordEvent, DueArrives, LeaseExpires, workflowVars
<1>9. CASE DeadLetterExhausted
  BY <1>3, <1>9 DEF DeadLetterExhausted, DeadLetterTimers
<1>10. ASSUME NEW claim \in batch, FireTimer(claim) PROVE P
  <2>1. claim.wait \in Wait
    BY DEF IInv, TypeOK, Claim
  <2>. QED BY <1>2, <1>10, <2>1 DEF FireTimer
<1>11. ASSUME NEW claim \in batch, RescheduleFailed(claim) PROVE P
  <2>1. claim.wait \in Wait
    BY DEF IInv, TypeOK, Claim
  <2>. QED BY <1>0, <1>3, <1>11, <2>1 DEF RescheduleFailed, DeadLetterTimers
<1>12. ASSUME NEW c \in scanned, ConsumeEventWait(c) PROVE P
  <2>1. c \in Wait
    BY DEF IInv, TypeOK
  <2>. QED BY <1>0, <1>2, <1>12, <2>1 DEF ConsumeEventWait, SatisfyWait
<1>13. ASSUME NEW c \in scanned, ResumeSatisfiedWait(c) PROVE P
  BY <1>0, <1>13 DEF ResumeSatisfiedWait
<1>14. ASSUME NEW claim \in batch, LeaveTimer(claim) PROVE P
  BY <1>0, <1>14 DEF LeaveTimer, workflowVars
<1>15. CASE ClaimDueTimers \/ EndTick \/ ReadEventWaits \/ ReadSatisfiedWaits
               \/ EndScan \/ Stop \/ UNCHANGED vars
  BY <1>0, <1>15 DEF ClaimDueTimers, EndTick, ReadEventWaits,
       ReadSatisfiedWaits, EndScan, Stop, workflowVars, vars
<1>. QED
  BY <1>4, <1>5, <1>6, <1>7, <1>8, <1>9, <1>10, <1>11, <1>12, <1>13, <1>14,
     <1>15 DEF Next, TimerStep, ScannerStep

\* The waits the second scan has read were satisfied, hence still are.
LEMMA ScannedStep ==
    ASSUME IInv, [Next]_vars
    PROVE  ScannedAreSatisfied'
<1>1. SettledStays /\ scanned \subseteq Wait
  BY SettledStep DEF IInv, TypeOK
<1>2. CASE scan' = scan /\ scanned' \subseteq scanned
  BY <1>1, <1>2 DEF IInv, ScannedAreSatisfied, SettledStays
<1>3. CASE scan' # "resume"
  BY <1>3 DEF ScannedAreSatisfied
<1>4. CASE ReadSatisfiedWaits
  BY <1>4 DEF ReadSatisfiedWaits, Resumable, ScannedAreSatisfied, WaitIs,
              workflowVars
<1>5. (scan' = scan /\ scanned' \subseteq scanned) \/ scan' # "resume"
         \/ ReadSatisfiedWaits
  BY DEF Next, TimerStep, ScannerStep, StartNextRun, EndRun, Suspend,
         ScheduleTimer, CancelTimer, RecordEvent, DueArrives, LeaseExpires,
         DeadLetterExhausted, ClaimDueTimers, FireTimer, LeaveTimer,
         RescheduleFailed, EndTick, ReadEventWaits, ConsumeEventWait,
         ResumeSatisfiedWait, EndScan, Stop, vars, scannerVars
<1>. QED BY <1>2, <1>3, <1>4, <1>5

-----------------------------------------------------------------------------
(* Workflows *)

LEMMA InitWorkflows == Init => \A w \in Workflow : WorkflowAgrees(w)
<1>. SUFFICES ASSUME Init, NEW w \in Workflow PROVE WorkflowAgrees(w)
  OBVIOUS
<1>1. \A r \in Run : ~AttemptRuns(w, r) /\ currentRun[w] # r
  BY DEF Init, AttemptRuns
<1>2. wfState[w] = "READY" /\ currentRun[w] = None /\ currentWait[w] = None
  BY DEF Init
<1>. QED BY <1>1, <1>2 DEF WorkflowAgrees, RunsAgree, WaitingStates

\* Resuming a workflow on a wait of its own.
LEMMA ResumeKeeps ==
    ASSUME IInv, NEW c \in Wait, ResumeWorkflow(Home[c], c),
           \A d \in Wait : wait[d] # None => wait'[d] # None
    PROVE  \A w \in Workflow : WorkflowAgrees(w)'
<1>. USE DEF IInv, TypeOK, WorkflowTypeOK, WorkflowAgrees, WaitingStates,
             RunsAgree, AttemptRuns, ResumeWorkflow, CanResume
<1>1. CASE CanResume(Home[c], c)
  BY <1>1
<1>2. CASE ~CanResume(Home[c], c)
  BY <1>2
<1>. QED BY <1>1, <1>2

LEMMA WorkflowsStep ==
    ASSUME IInv, [Next]_vars
    PROVE  \A w \in Workflow : WorkflowAgrees(w)'
<1>. DEFINE P == \A v \in Workflow : WorkflowAgrees(v)'
<1>. USE DEF IInv, TypeOK, WorkflowTypeOK
<1>a. \A d \in Wait : wait[d] # None => wait'[d] # None
  BY SettledStep
<1>b. WorkflowTypeOK /\ \A v \in Workflow : RunsAgree(v)
  BY DEF IInv, WorkflowAgrees
<1>0. ASSUME UNCHANGED <<instanceVars, attempt>> PROVE P
  BY <1>0, <1>a DEF WorkflowAgrees, RunsAgree, instanceVars, AttemptRuns
<1>1. ASSUME NEW w \in Workflow, NEW r \in Run, StartNextRun(w, r)
      PROVE  P
  <2>. DEFINE n == Cardinality(AttemptsOf(w)) + 1
  <2>1. StartRun(w, r, n) /\ wait' = wait
    BY <1>1 DEF StartNextRun, AttemptsOf
  <2>2. \A v \in Workflow : RunsAgree(v)'
    BY <1>b, <2>1, NextNumber, StartKeepsRuns
  <2>. QED BY <2>1, <2>2
           DEF WorkflowAgrees, StartRun, CanStartRun, StartableStates,
               WaitingStates
<1>2. ASSUME NEW w \in Workflow, NEW r \in Run, EndRun(w, r)
      PROVE  P
  <2>1. currentRun[w] = r /\ wfState[w] = "RUNNING" /\ currentWait[w] = None
    BY <1>2 DEF EndRun, IInv, WorkflowAgrees, RunsAgree, WaitingStates
  <2>2. PICK s \in {"completed", "failed", "interrupted"},
             t \in {"COMPLETED", "RETRY_SCHEDULED", "FAILED"} :
           /\ FinishAttempt(w, r, s)
           /\ wfState' = [wfState EXCEPT ![w] = t]
           /\ currentRun' = [currentRun EXCEPT ![w] = None]
           /\ UNCHANGED <<currentWait, wait>>
    BY <1>2 DEF EndRun, MarkCompleted, MarkRetryScheduled, MarkFailed
  <2>3. \A v \in Workflow : RunsAgree(v)'
    <3>. HIDE DEF IInv, WorkflowTypeOK
    <3>1. t # "RUNNING" /\ FinishAttempt(w, r, s) /\ currentRun[w] \in {r, None}
      BY <2>1, <2>2
    <3>2. /\ currentRun' = [currentRun EXCEPT ![w] = None]
          /\ wfState' = [wfState EXCEPT ![w] = t]
      BY <2>2
    <3>. QED BY <1>b, <3>1, <3>2, EndKeepsRuns
  <2>. QED BY <2>1, <2>2, <2>3 DEF WorkflowAgrees, WaitingStates
<1>3. ASSUME NEW c \in Wait, NEW r \in Run, NEW timed \in BOOLEAN,
             Suspend(c, r, timed)
      PROVE  P
  <2>. DEFINE w == Home[c]
  <2>1. /\ AttemptRuns(w, r) /\ FinishAttempt(w, r, "completed")
        /\ wfState[w] = "RUNNING"
        /\ wfState' = [wfState EXCEPT ![w] = WaitingFor[Kind[c]]]
        /\ currentRun' = [currentRun EXCEPT ![w] = None]
        /\ currentWait' = [currentWait EXCEPT ![w] = c]
    BY <1>3 DEF Suspend, SuspendRun, EndRunWaiting
  <2>2. wait'[c] # None
    <3>1. CASE wait[c] = None
      BY <1>3, <3>1, InsertedRow DEF Suspend, SuspendRun
    <3>2. CASE wait[c] # None
      BY <1>a, <3>2
    <3>. QED BY <3>1, <3>2
  <2>3. WaitingFor[Kind[c]] \in WaitingStates /\ "RUNNING" \notin WaitingStates
    BY DEF WaitingFor, WaitKind, WaitingStates
  <2>4. currentRun[w] = r
    BY <1>b, <2>1 DEF RunsAgree
  <2>5. \A v \in Workflow : RunsAgree(v)'
    BY <1>b, <2>1, <2>3, <2>4, EndKeepsRuns
  <2>. HIDE DEF w
  <2>6. w \in Workflow /\ w = Home[c]
    BY DEF w
  <2>. QED BY <1>a, <2>1, <2>2, <2>3, <2>5, <2>6 DEF WorkflowAgrees
<1>4. ASSUME NEW c \in Wait, ScheduleTimer(c) \/ CancelTimer(c) \/ RecordEvent(c)
                \/ DueArrives(c) \/ LeaseExpires(c)
      PROVE  P
  BY <1>0, <1>4 DEF ScheduleTimer, CancelTimer, RecordEvent, DueArrives,
       LeaseExpires, workflowVars, instanceVars
<1>5. ASSUME NEW claim \in batch, FireTimer(claim) PROVE P
  <2>1. claim.wait \in Wait
    BY DEF Claim
  <2>. QED BY <1>5, <1>a, <2>1, ResumeKeeps DEF FireTimer
<1>6. ASSUME NEW claim \in batch, LeaveTimer(claim) \/ RescheduleFailed(claim)
      PROVE  P
  BY <1>0, <1>6 DEF LeaveTimer, RescheduleFailed, workflowVars, instanceVars
<1>7. ASSUME NEW c \in scanned, ConsumeEventWait(c) PROVE P
  <2>1. c \in Wait
    OBVIOUS
  <2>. QED BY <1>0, <1>7, <1>a, <2>1, ResumeKeeps DEF ConsumeEventWait, ResumeWith
<1>8. ASSUME NEW c \in scanned, ResumeSatisfiedWait(c) PROVE P
  BY <1>8, <1>a, ResumeKeeps DEF ResumeSatisfiedWait
<1>9. CASE DeadLetterExhausted \/ ClaimDueTimers \/ EndTick \/ ReadEventWaits
             \/ ReadSatisfiedWaits \/ EndScan \/ Stop \/ UNCHANGED vars
  BY <1>0, <1>9 DEF DeadLetterExhausted, ClaimDueTimers, EndTick,
       ReadEventWaits, ReadSatisfiedWaits, EndScan, Stop, vars, workflowVars,
       instanceVars
<1>. QED
  BY <1>1, <1>2, <1>3, <1>4, <1>5, <1>6, <1>7, <1>8, <1>9
     DEF Next, TimerStep, ScannerStep

-----------------------------------------------------------------------------
(* Theorems *)

LEMMA InvStep ==
    ASSUME IInv, [Next]_vars
    PROVE  IInv'
BY TypeStep, TimersStep, WorkflowsStep, ScannedStep DEF IInv

\* The conjunction is an invariant of every behaviour.
THEOREM InductiveInvariant == Spec => []IInv
<1>1. Init => IInv
  BY InitType, InitTimers, InitWorkflows DEF IInv, ScannedAreSatisfied, Init
<1>2. IInv /\ [Next]_vars => IInv'
  BY InvStep
<1>. QED BY <1>1, <1>2, PTL DEF Spec

\* The tables and the memory of the loops stay typed (workflow_timers.rs,
\* workflow_runtime.rs): no timer is claimed more often than its limit.
THEOREM TypeCorrect == Spec => []TypeOK
BY InductiveInvariant, PTL DEF IInv

\* Timers, waits and workflows never contradict each other, whichever of the
\* two loops, of cancelling and of suspending comes first, and whenever the
\* Core stops.
THEOREM RowsAlwaysAgree == Spec => []RowsAgree
<1>1. IInv => RowsAgree
  BY DEF IInv, RowsAgree, TimersAgreeWithWaits, WorkflowAgreesWithRows,
         TimerAgrees, WorkflowAgrees, RunsAgree
<1>. QED BY <1>1, InductiveInvariant, PTL

\* A wait that was settled is never settled differently: a fired timer is not
\* cancelled, a cancelled one does not fire, a dead letter stays one.
THEOREM SettledWaitsStay == Spec => [][SettledStays]_vars
<1>1. IInv /\ [Next]_vars => [SettledStays]_vars
  BY SettledStep
<1>. QED BY <1>1, InductiveInvariant, PTL DEF Spec

\* The end of a waiting.
WaitingEnds(w) ==
    currentWait[w] # None /\ currentWait'[w] # currentWait[w] =>
        /\ wfState'[w] = "READY"
        /\ wait'[currentWait[w]].status = "satisfied"

\* Resuming on a wait that is satisfied ends the waiting for this wait only.
LEMMA ResumeEnds ==
    ASSUME IInv, NEW c \in Wait, ResumeWorkflow(Home[c], c), WaitIs(c, "satisfied")'
    PROVE  \A w \in Workflow : WaitingEnds(w)
BY DEF IInv, TypeOK, WorkflowTypeOK, ResumeWorkflow, CanResume, WaitIs, WaitingEnds

LEMMA WaitingEndsStep ==
    ASSUME IInv, [Next]_vars
    PROVE  \A w \in Workflow : WaitingEnds(w)
<1>. DEFINE P == \A v \in Workflow : WaitingEnds(v)
<1>0. ASSUME UNCHANGED currentWait PROVE P
  BY <1>0 DEF WaitingEnds
<1>1. ASSUME NEW w \in Workflow, currentWait[w] = None,
             \A v \in Workflow \ {w} : currentWait'[v] = currentWait[v]
      PROVE  P
  BY <1>1 DEF WaitingEnds
<1>2. ASSUME NEW w \in Workflow, NEW r \in Run, StartNextRun(w, r)
      PROVE  P
  <2>1. currentWait[w] = None
    BY <1>2 DEF StartNextRun, StartRun, CanStartRun, StartableStates, IInv,
                WorkflowAgrees, WaitingStates
  <2>2. currentWait' = [currentWait EXCEPT ![w] = None]
    BY <1>2 DEF StartNextRun, StartRun
  <2>. QED BY <1>1, <2>1, <2>2 DEF IInv, TypeOK, WorkflowTypeOK
<1>3. ASSUME NEW w \in Workflow, NEW r \in Run, EndRun(w, r)
      PROVE  P
  BY <1>0, <1>3 DEF EndRun, MarkCompleted, MarkRetryScheduled, MarkFailed
<1>4. ASSUME NEW c \in Wait, NEW r \in Run, NEW timed \in BOOLEAN,
             Suspend(c, r, timed)
      PROVE  P
  <2>1. currentWait[Home[c]] = None
    BY <1>4 DEF Suspend, SuspendRun, EndRunWaiting, IInv, WorkflowAgrees,
                WaitingStates
  <2>2. currentWait' = [currentWait EXCEPT ![Home[c]] = c]
    BY <1>4 DEF Suspend, SuspendRun, EndRunWaiting
  <2>. QED BY <1>1, <2>1, <2>2 DEF IInv, TypeOK, WorkflowTypeOK
<1>5. ASSUME NEW c \in Wait, ScheduleTimer(c) \/ CancelTimer(c) \/ RecordEvent(c)
                \/ DueArrives(c) \/ LeaseExpires(c)
      PROVE  P
  BY <1>0, <1>5 DEF ScheduleTimer, CancelTimer, RecordEvent, DueArrives,
       LeaseExpires, workflowVars, instanceVars
<1>6. ASSUME NEW claim \in batch, FireTimer(claim) PROVE P
  <2>1. claim.wait \in Wait
    BY DEF IInv, TypeOK, Claim
  <2>2. WaitIs(claim.wait, "satisfied")'
    BY <1>6, <2>1, SettledRow DEF FireTimer, OwnsTimer, WaitIs
  <2>. QED BY <1>6, <2>1, <2>2, ResumeEnds DEF FireTimer
<1>7. ASSUME NEW claim \in batch, LeaveTimer(claim) \/ RescheduleFailed(claim)
      PROVE  P
  BY <1>0, <1>7 DEF LeaveTimer, RescheduleFailed, workflowVars, instanceVars
<1>8. ASSUME NEW c \in scanned, ConsumeEventWait(c) PROVE P
  <2>1. c \in Wait
    BY DEF IInv, TypeOK
  <2>2. CASE c \in matched /\ WaitIs(c, "pending")
    <3>1. WaitIs(c, "satisfied")'
      BY <1>8, <2>1, <2>2, SettledRow DEF ConsumeEventWait, SatisfyWait, WaitIs
    <3>. QED BY <1>8, <2>1, <2>2, <3>1, ResumeEnds DEF ConsumeEventWait, ResumeWith
  <2>3. CASE ~(c \in matched /\ WaitIs(c, "pending"))
    BY <1>0, <1>8, <2>3 DEF ConsumeEventWait, instanceVars
  <2>. QED BY <2>2, <2>3
<1>9. ASSUME NEW c \in scanned, ResumeSatisfiedWait(c) PROVE P
  <2>1. c \in Wait /\ WaitIs(c, "satisfied")
    BY <1>9 DEF IInv, TypeOK, ScannedAreSatisfied, ResumeSatisfiedWait
  <2>2. WaitIs(c, "satisfied")'
    BY <1>9, <2>1 DEF ResumeSatisfiedWait, WaitIs
  <2>. QED BY <1>9, <2>1, <2>2, ResumeEnds DEF ResumeSatisfiedWait
<1>10. CASE DeadLetterExhausted \/ ClaimDueTimers \/ EndTick \/ ReadEventWaits
              \/ ReadSatisfiedWaits \/ EndScan \/ Stop \/ UNCHANGED vars
  BY <1>0, <1>10 DEF DeadLetterExhausted, ClaimDueTimers, EndTick,
       ReadEventWaits, ReadSatisfiedWaits, EndScan, Stop, vars, workflowVars,
       instanceVars
<1>. QED
  BY <1>2, <1>3, <1>4, <1>5, <1>6, <1>7, <1>8, <1>9, <1>10
     DEF Next, TimerStep, ScannerStep

\* Only its own satisfied wait ends the waiting of a workflow, although three
\* actors settle waits and two scans resume workflows.
THEOREM OnlySatisfiedResumes == Spec => ResumedOnlyWhenSatisfied
<1>1. IInv /\ [Next]_vars =>
         [\A w \in Workflow :
             currentWait[w] # None /\ currentWait'[w] # currentWait[w] =>
                /\ wfState'[w] = "READY"
                /\ wait'[currentWait[w]].status = "satisfied"]_vars
  BY WaitingEndsStep DEF WaitingEnds
<1>. QED BY <1>1, InductiveInvariant, PTL DEF Spec, ResumedOnlyWhenSatisfied

-----------------------------------------------------------------------------
(* The outbox.  The argument is about who may write a row: only the         *)
(* dispatcher that has it in its batch does, so that a message that is not  *)
(* in the batch has been sent at most as often as it was claimed, and the   *)
(* claim that puts it there pays for the send to come.                      *)

\* A batch belongs to a running dispatcher, and an outcome to its first message.
BatchIsRunning ==
    /\ claimed # {} => dispatcher
    /\ delivered # Null => claimed # {}

\* The send of a message in the batch is still to come, or is its outcome.
ToBeSent(m) == m \in claimed /\ ~(First(m) /\ delivered # Null)

SendsArePaid ==
    \A m \in Message : /\ sends[m] <= tried[m]
                       /\ ToBeSent(m) => sends[m] < tried[m]
                       /\ First(m) /\ delivered = "sent" => sends[m] > 0
                       /\ status[m] = "published" => sends[m] > 0

OutboxInv == OutboxTypeOK /\ BatchIsRunning /\ BatchIsHeld /\ SendsArePaid /\ GivenUpAfterLastTry

USE MessagesAreTimes, OutboxLimitsArePositive, NullIsNoOther DEF Delivery

\* A batch has one first message.
LEMMA FirstIsOne ==
    ASSUME claimed \in SUBSET Message, NEW m, NEW n, First(m), First(n)
    PROVE  m = n
<1>1. m \in Nat /\ n \in Nat /\ m <= n /\ n <= m
  BY DEF First
<1> QED BY <1>1

LEMMA TypeHolds == OutboxInit => OutboxTypeOK
<1> SUFFICES ASSUME OutboxInit PROVE OutboxTypeOK
  OBVIOUS
<1>1. bus \in Seq(Message)
  BY EmptySeq DEF OutboxInit
<1>2. stops \in 0..MaxTaskStops /\ tried \in [Message -> 0..MaxTries]
  BY DEF OutboxInit
<1> QED BY <1>1, <1>2 DEF OutboxInit, OutboxTypeOK

LEMMA TypeIsKept == ASSUME OutboxTypeOK, [OutboxNext]_outboxVars PROVE OutboxTypeOK'
<1> USE DEF OutboxTypeOK
<1>1. CASE UNCHANGED outboxVars
  BY <1>1 DEF outboxVars, rowVars, dispatcherVars, receiverVars
<1>2. ASSUME NEW m \in Message, Record(m) PROVE OutboxTypeOK'
  BY <1>2 DEF Record, dispatcherVars, receiverVars
<1>3. ASSUME NEW m \in Message, Ripen(m) PROVE OutboxTypeOK'
  BY <1>3 DEF Ripen, dispatcherVars, receiverVars
<1>4. ASSUME NEW m \in Message, Send(m) PROVE OutboxTypeOK'
  <2>1. bus' \in Seq(Message)
    <3>1. \A s \in Seq(Message) : Append(s, m) \in Seq(Message)
      BY AppendProperties
    <3>2. CASE Len(bus) < BusCapacity
      <4>1. bus' = bus \/ bus' = Append(bus, m)
        BY <1>4, <3>2 DEF Send, Queued
      <4>2. Append(bus, m) \in Seq(Message)
        BY <3>1
      <4> QED BY <4>1, <4>2
    <3>3. CASE ~(Len(bus) < BusCapacity)
      <4>1. bus # <<>>
        BY <3>3
      <4>2. Tail(bus) \in Seq(Message)
        BY <4>1, HeadTailProperties
      <4>3. bus' = bus \/ bus' = Append(Tail(bus), m)
        BY <1>4, <3>3 DEF Send, Queued
      <4>4. Append(Tail(bus), m) \in Seq(Message)
        BY <3>1, <4>2
      <4> QED BY <4>3, <4>4
    <3> QED BY <3>2, <3>3
  <2>2. sends' \in [Message -> Nat] /\ delivered' \in Delivery \cup {Null}
    BY <1>4 DEF Send
  <2> QED BY <1>4, <2>1, <2>2 DEF Send, rowVars
<1>5. ASSUME NEW m \in Message, Settle(m) PROVE OutboxTypeOK'
  <2>1. Verdict(m) \in {"published", "dead_lettered", "failed"}
    BY DEF Verdict
  <2> QED BY <1>5, <2>1 DEF Settle, NextMessage, receiverVars
<1>6. ASSUME NEW m \in Message, SettleFails(m) PROVE OutboxTypeOK'
  BY <1>6 DEF SettleFails, NextMessage, rowVars, receiverVars
<1>7. CASE ClaimBatch
  <2>1. claimed' \in SUBSET Claimable /\ Claimable \in SUBSET Message
    BY <1>7 DEF ClaimBatch, OldestMessages, Claimable
  <2>2. tried' \in [Message -> 0..MaxTries]
    BY <1>7, <2>1 DEF ClaimBatch, Claimable
  <2>3. owner' \in [Message -> Nat \cup {Null}]
    BY <1>7 DEF ClaimBatch, Claimant
  <2>4. status' \in [Message -> {"none", "pending", "processing", "failed",
                                 "published", "dead_lettered"}]
    BY <1>7 DEF ClaimBatch
  <2>5. ripe' \in [Message -> BOOLEAN]
    BY <1>7, Zenon DEF ClaimBatch
  <2> QED BY <1>7, <2>1, <2>2, <2>3, <2>4, <2>5 DEF ClaimBatch, receiverVars
<1>8. CASE Receive
  <2>1. Head(bus) \in Message /\ Tail(bus) \in Seq(Message)
    BY <1>8, HeadTailProperties DEF Receive
  <2> QED BY <1>8, <2>1 DEF Receive, rowVars, dispatcherVars
<1>9. CASE EnsureScanner \/ EnsureDispatcher
  BY <1>9 DEF EnsureScanner, EnsureDispatcher, rowVars, dispatcherVars, receiverVars
<1>10. CASE QuiesceScanner \/ QuiesceDispatcher \/ Restart
  <2>1. bus' \in Seq(Message)
    <3>1. bus' = <<>> \/ bus' = bus
      BY <1>10 DEF QuiesceScanner, QuiesceDispatcher, Restart, DropReceiver, receiverVars
    <3>2. CASE bus' = <<>>
      <4>1. <<>> \in Seq(Message)
        BY EmptySeq
      <4> QED BY <3>2, <4>1, Zenon
    <3> QED BY <3>1, <3>2
  <2>2. stops' \in 0..MaxTaskStops /\ process' \in Nat
    BY <1>10 DEF QuiesceScanner, QuiesceDispatcher, Restart, Stopping
  <2> QED BY <1>10, <2>1, <2>2 DEF QuiesceScanner, QuiesceDispatcher, Restart, Stopping,
        AbortDispatcher, DropReceiver, rowVars, dispatcherVars, receiverVars
<1> QED
  BY <1>1, <1>2, <1>3, <1>4, <1>5, <1>6, <1>7, <1>8, <1>9, <1>10 DEF OutboxNext

LEMMA InvHolds == OutboxInit => OutboxInv
BY TypeHolds DEF OutboxInit, OutboxInv, OutboxTypeOK, BatchIsRunning, BatchIsHeld, SendsArePaid,
   GivenUpAfterLastTry, First, ToBeSent

-----------------------------------------------------------------------------
(* The steps that touch neither the rows nor what is being sent.           *)

Quiet == UNCHANGED <<rowVars, process, claimed, delivered, sends>> /\ (dispatcher => dispatcher')

LEMMA QuietKeeps == ASSUME OutboxInv, OutboxTypeOK', Quiet PROVE OutboxInv'
BY DEF OutboxInv, Quiet, BatchIsRunning, BatchIsHeld, Held, SendsArePaid,
   GivenUpAfterLastTry, First, ToBeSent, rowVars

\* An abort forgets the batch: nothing is to be sent any more.
LEMMA AbortKeeps ==
    ASSUME OutboxInv, OutboxTypeOK', AbortDispatcher, UNCHANGED <<rowVars, sends>>
    PROVE  OutboxInv'
BY DEF OutboxInv, AbortDispatcher, BatchIsRunning, BatchIsHeld, SendsArePaid,
   GivenUpAfterLastTry, First, ToBeSent, rowVars

LEMMA RecordKeeps ==
    ASSUME OutboxInv, OutboxTypeOK', NEW m \in Message, Record(m)
    PROVE  OutboxInv'
<1>1. m \notin claimed
  BY DEF OutboxInv, BatchIsHeld, Held, Record
<1>2. claimed' = claimed /\ delivered' = delivered /\ dispatcher' = dispatcher /\ sends' = sends
      /\ tried' = tried /\ owner' = owner /\ process' = process
  BY DEF Record, dispatcherVars
<1>3. \A n \in Message : status'[n] = IF n = m THEN "pending" ELSE status[n]
  BY DEF Record, OutboxInv, OutboxTypeOK
<1>4. BatchIsHeld'
  BY <1>1, <1>2, <1>3 DEF OutboxInv, OutboxTypeOK, BatchIsHeld, Held
<1>5. SendsArePaid'
  BY <1>2, <1>3 DEF OutboxInv, SendsArePaid, First, ToBeSent
<1> QED BY <1>2, <1>3, <1>4, <1>5 DEF OutboxInv, BatchIsRunning, GivenUpAfterLastTry

LEMMA RipenKeeps ==
    ASSUME OutboxInv, OutboxTypeOK', NEW m \in Message, Ripen(m)
    PROVE  OutboxInv'
BY DEF OutboxInv, Ripen, BatchIsRunning, BatchIsHeld, Held, SendsArePaid,
   GivenUpAfterLastTry, First, ToBeSent, dispatcherVars

\* What was claimed has an attempt more than it was sent.
LEMMA ClaimKeeps == ASSUME OutboxInv, OutboxTypeOK', ClaimBatch PROVE OutboxInv'
<1>1. claimed' \subseteq Claimable /\ delivered' = delivered /\ delivered = Null
  BY DEF ClaimBatch, OldestMessages, OutboxInv, BatchIsRunning
<1>2. \A m \in claimed' : m \notin Spent /\ m \in Message
  BY <1>1 DEF Claimable, Spent, OutboxInv, OutboxTypeOK
<1>3. BatchIsHeld'
  BY <1>2 DEF ClaimBatch, BatchIsHeld, Held, Claimant
<1>4. SendsArePaid'
  <2> SUFFICES ASSUME NEW m \in Message
               PROVE  /\ sends'[m] <= tried'[m]
                      /\ ToBeSent(m)' => sends'[m] < tried'[m]
                      /\ status'[m] = "published" => sends'[m] > 0
    BY <1>1, NullIsNoOther DEF SendsArePaid
  <2>1. sends'[m] = sends[m] /\ sends[m] <= tried[m] /\ sends[m] \in Nat /\ tried[m] \in Nat
    BY DEF ClaimBatch, OutboxInv, SendsArePaid, OutboxTypeOK
  <2>2. tried'[m] = IF m \in claimed' THEN tried[m] + 1 ELSE tried[m]
    BY DEF ClaimBatch
  <2>3. status'[m] = "published" => status[m] = "published"
    BY DEF ClaimBatch
  <2> QED BY <2>1, <2>2, <2>3 DEF ToBeSent, OutboxInv, SendsArePaid
<1>5. GivenUpAfterLastTry'
  <2> SUFFICES ASSUME NEW m \in Message, status'[m] = "dead_lettered"
               PROVE  tried'[m] = MaxTries
    BY DEF GivenUpAfterLastTry
  <2>1. m \notin claimed' /\ (m \in Spent \/ status[m] = "dead_lettered")
    BY <1>2 DEF ClaimBatch
  <2>2. CASE m \in Spent
    <3>1. tried[m] \in 0..MaxTries
      BY DEF OutboxInv, OutboxTypeOK
    <3>2. tried[m] = MaxTries
      BY <2>2, <3>1 DEF Spent
    <3> QED BY <2>1, <3>2 DEF ClaimBatch
  <2>3. CASE status[m] = "dead_lettered"
    <3>1. tried[m] = MaxTries
      BY <2>3 DEF OutboxInv, GivenUpAfterLastTry
    <3> QED BY <2>1, <3>1 DEF ClaimBatch
  <2> QED BY <2>1, <2>2, <2>3
<1>6. BatchIsRunning'
  BY <1>1 DEF ClaimBatch, BatchIsRunning
<1> QED BY <1>3, <1>4, <1>5, <1>6 DEF OutboxInv

LEMMA SendKeeps ==
    ASSUME OutboxInv, OutboxTypeOK', NEW m \in Message, Send(m)
    PROVE  OutboxInv'
<1>1. First(m) /\ m \in claimed /\ delivered = Null /\ delivered' # Null
      /\ claimed' = claimed /\ dispatcher' = dispatcher /\ process' = process
      /\ status' = status /\ tried' = tried /\ owner' = owner
  BY NullIsNoOther DEF Send, First, rowVars
<1>2. SendsArePaid'
  <2> SUFFICES ASSUME NEW n \in Message
               PROVE  /\ sends'[n] <= tried[n]
                      /\ ToBeSent(n)' => sends'[n] < tried[n]
                      /\ First(n) /\ delivered' = "sent" => sends'[n] > 0
                      /\ status[n] = "published" => sends'[n] > 0
    BY <1>1 DEF SendsArePaid, First
  <2>1. /\ sends[n] \in Nat /\ tried[n] \in Nat /\ sends[n] <= tried[n]
        /\ n \in claimed => sends[n] < tried[n]
        /\ status[n] = "published" => sends[n] > 0
    BY <1>1 DEF OutboxInv, OutboxTypeOK, SendsArePaid, ToBeSent
  <2>2. CASE n = m
    <3>1. ~ToBeSent(n)'
      BY <1>1, <2>2 DEF ToBeSent, First
    <3>2. sends'[n] = IF subscribed THEN sends[n] + 1 ELSE sends[n]
      BY <2>2 DEF Send, OutboxInv, OutboxTypeOK
    <3>3. delivered' = "sent" => subscribed
      BY DEF Send
    <3> QED BY <1>1, <2>1, <2>2, <3>1, <3>2, <3>3
  <2>3. CASE n # m
    <3>1. sends'[n] = sends[n]
      BY <2>3 DEF Send, OutboxInv, OutboxTypeOK
    <3>2. ~First(n)
      BY <1>1, <2>3, FirstIsOne DEF OutboxInv, OutboxTypeOK
    <3>3. ToBeSent(n)' => n \in claimed
      BY <1>1 DEF ToBeSent
    <3> QED BY <2>1, <3>1, <3>2, <3>3
  <2> QED BY <2>2, <2>3
<1> QED BY <1>1, <1>2 DEF OutboxInv, BatchIsRunning, BatchIsHeld, Held, GivenUpAfterLastTry

\* The next message of the batch has not been sent.
LEMMA NextMessageKeeps ==
    ASSUME OutboxInv, OutboxTypeOK', NEW m \in Message, First(m), NextMessage(m),
           UNCHANGED <<tried, process, dispatcher, sends>>,
           \A n \in Message \ {m} : status'[n] = status[n] /\ owner'[n] = owner[n],
           status'[m] = "published" => sends[m] > 0,
           status'[m] = "dead_lettered" => tried[m] = MaxTries
    PROVE  OutboxInv'
<1>1. claimed' = claimed \ {m} /\ delivered' = Null /\ claimed \subseteq Message
  BY DEF NextMessage, OutboxInv, OutboxTypeOK
<1>2. \A n \in claimed' : ToBeSent(n)
  BY <1>1, FirstIsOne DEF ToBeSent, OutboxInv, OutboxTypeOK
<1>3. SendsArePaid'
  <2> SUFFICES ASSUME NEW n \in Message
               PROVE  /\ sends[n] <= tried[n]
                      /\ ToBeSent(n)' => sends[n] < tried[n]
                      /\ status'[n] = "published" => sends[n] > 0
    BY <1>1 DEF SendsArePaid
  <2>1. ToBeSent(n)' => ToBeSent(n)
    BY <1>1, <1>2 DEF ToBeSent
  <2> QED BY <2>1 DEF OutboxInv, SendsArePaid
<1>4. BatchIsHeld'
  BY <1>1 DEF OutboxInv, BatchIsHeld, Held
<1>5. BatchIsRunning' /\ GivenUpAfterLastTry'
  BY <1>1 DEF OutboxInv, BatchIsRunning, GivenUpAfterLastTry
<1> QED BY <1>3, <1>4, <1>5 DEF OutboxInv

LEMMA SettleKeeps ==
    ASSUME OutboxInv, OutboxTypeOK', NEW m \in Message, Settle(m)
    PROVE  OutboxInv'
<1>1. \A n \in Message \ {m} : status'[n] = status[n] /\ owner'[n] = owner[n]
  BY DEF Settle, OutboxInv, OutboxTypeOK
<1>2. status'[m] = Verdict(m)
  BY DEF Settle, OutboxInv, OutboxTypeOK
<1>3. status'[m] = "published" => sends[m] > 0
  <2>1. First(m)
    BY DEF Settle
  <2> QED BY <1>2, <2>1 DEF Verdict, OutboxInv, SendsArePaid
<1>4. status'[m] = "dead_lettered" => tried[m] = MaxTries
  BY <1>2 DEF Verdict, OutboxInv, OutboxTypeOK
<1> QED BY <1>1, <1>3, <1>4, NextMessageKeeps DEF Settle

LEMMA SettleFailsKeeps ==
    ASSUME OutboxInv, OutboxTypeOK', NEW m \in Message, SettleFails(m)
    PROVE  OutboxInv'
BY NextMessageKeeps DEF SettleFails, rowVars, OutboxInv, SendsArePaid, GivenUpAfterLastTry

LEMMA InvIsKept == ASSUME OutboxInv, [OutboxNext]_outboxVars PROVE OutboxInv'
<1>1. OutboxTypeOK'
  BY TypeIsKept DEF OutboxInv
<1>2. CASE UNCHANGED outboxVars
  BY <1>1, <1>2, QuietKeeps DEF Quiet, outboxVars, dispatcherVars
<1>3. CASE Receive \/ EnsureScanner \/ EnsureDispatcher \/ QuiesceScanner
  BY <1>1, <1>3, QuietKeeps
     DEF Quiet, Receive, EnsureScanner, EnsureDispatcher, QuiesceScanner, dispatcherVars
<1>4. CASE QuiesceDispatcher \/ Restart
  BY <1>1, <1>4, AbortKeeps DEF QuiesceDispatcher, Restart
<1>5. CASE ClaimBatch
  BY <1>1, <1>5, ClaimKeeps
<1> QED
  BY <1>1, <1>2, <1>3, <1>4, <1>5, RecordKeeps, RipenKeeps, SendKeeps, SettleKeeps,
     SettleFailsKeeps DEF OutboxNext

THEOREM OutboxInductive == OutboxSpec => []OutboxInv
<1>1. OutboxInv /\ [OutboxNext]_outboxVars => OutboxInv'
  BY InvIsKept
<1> QED BY InvHolds, <1>1, PTL DEF OutboxSpec

\* The rows, the batch and the bus are well typed: no row is claimed more often
\* than the retry policy allows.
THEOREM OutboxTypeCorrect == OutboxSpec => []OutboxTypeOK
BY OutboxInductive, PTL DEF OutboxInv

\* The dispatcher settles only what it still holds, whatever ended the tasks
\* before it and however long its tick takes; published means sent to a receiver,
\* attempts bound the duplicates, and no message is given up before its last one.
THEOREM DeliveriesAreAccounted == OutboxSpec => []DeliveryIsAccounted
<1>1. OutboxInv => DeliveryIsAccounted
  BY DEF OutboxInv, SendsArePaid, SendsAreAccounted, DeliveryIsAccounted
<1> QED BY <1>1, OutboxInductive, PTL

\* A settled row is in no batch, so that nothing sends it or writes it again.
THEOREM SettledIsForGood == OutboxSpec => SettledForGood
<1>1. OutboxInv /\ [OutboxNext]_outboxVars =>
         [\A m \in Message : status[m] \in {"published", "dead_lettered"} =>
             status'[m] = status[m] /\ sends'[m] = sends[m]]_outboxVars
  <2> SUFFICES ASSUME OutboxInv, OutboxNext, NEW m \in Message,
                      status[m] \in {"published", "dead_lettered"}
               PROVE  status'[m] = status[m] /\ sends'[m] = sends[m]
    OBVIOUS
  <2>1. m \notin claimed /\ m \notin Spent /\ m \notin Claimable /\ status[m] # "none"
    BY DEF OutboxInv, BatchIsHeld, Held, Spent, Claimable
  <2>2. CASE ClaimBatch
    BY <2>1, <2>2 DEF ClaimBatch, OldestMessages
  <2>3. ASSUME NEW n \in Message,
               Record(n) \/ Ripen(n) \/ Send(n) \/ Settle(n) \/ SettleFails(n)
        PROVE  status'[m] = status[m] /\ sends'[m] = sends[m]
    BY <2>1, <2>3 DEF Record, Ripen, Send, Settle, SettleFails, First, rowVars, OutboxInv, OutboxTypeOK
  <2>4. CASE Receive \/ EnsureScanner \/ EnsureDispatcher \/ QuiesceScanner
             \/ QuiesceDispatcher \/ Restart
    BY <2>4 DEF Receive, EnsureScanner, EnsureDispatcher, QuiesceScanner,
       QuiesceDispatcher, Restart, rowVars
  <2> QED BY <2>2, <2>3, <2>4 DEF OutboxNext
<1> QED BY <1>1, OutboxInductive, PTL DEF OutboxSpec, SettledForGood
=============================================================================
