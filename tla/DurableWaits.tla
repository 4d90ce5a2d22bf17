---------------------------- MODULE DurableWaits ----------------------------
(***************************************************************************)
(* Waiting and resuming: suspend_run of workflow_runtime.rs, the scanner's  *)
(* consume_event_waits and resume_satisfied_waits, and the durable timers   *)
(* of workflow_timers.rs.  An agent run ends by suspending its workflow on  *)
(* a wait condition; the timer scheduler, which works through batches under *)
(* leases, or the scanner, which matches recorded events, satisfies it and  *)
(* makes the workflow READY.  The two loops share nothing but the database, *)
(* and the Core may be stopped between any two of their transactions.       *)
(*                                                                          *)
(* Abstractions.  A wait condition has an id made of its workflow and its   *)
(* deduplication key: Home gives the workflow.  A key is only used for one  *)
(* kind of wait (Kind), and the keys of schedule_workflow_timer (Standalone) *)
(* are not those of suspend_run: the foreign key of the workflow row makes  *)
(* suspend_run an Err on them.  A transaction that fails is tried again by  *)
(* the next tick, except where a failure has a branch of its own.           *)
(* Time is what the WHERE clauses ask: whether a timer is due (due_at and   *)
(* available_at) and whether its lease has run out.  A lease owner is the   *)
(* generation of the scheduler that took it: new_id is never reused.        *)
(***************************************************************************)
EXTENDS WorkflowRuntime, FiniteSets

CONSTANTS
    Home,         \* workflow of a wait
    Kind,         \* kind of a wait
    Standalone,   \* waits of schedule_workflow_timer
    MaxAttempts,  \* TIMER_RETRY_POLICY.max_attempts (5)
    ScanLimit,    \* LIMIT of consume_event_waits (50)
    MaxStops      \* bound: stops of the Core

ASSUME WaitsHaveHomes ==
    /\ Home \in [Wait -> Workflow] /\ Kind \in [Wait -> WaitKind]
    /\ Standalone \subseteq {c \in Wait : Kind[c] = "timer"}
ASSUME LimitsArePositive ==
    /\ MaxAttempts \in Nat \ {0} /\ ScanLimit \in Nat \ {0}
    /\ MaxStops \in Nat
ASSUME NoneIsNoGeneration == None \notin 0..MaxStops
ASSUME TablesAreFinite == IsFiniteSet(Wait) /\ IsFiniteSet(Run)

VARIABLES
    created,    \* created_at of an event wait: the position of its INSERT, 0 before
    timer,      \* workflow_timers.status, "none" before the INSERT
    tries,      \* attempt_count
    due,        \* due_at <= now and available_at <= now
    holder,     \* lease_owner
    expired,    \* lease_expires_at <= now
    matched,    \* event waits a matching domain event was recorded for
    fired,      \* waits with a workflow.timer_fired event
    generation, \* id of the running timer scheduler
    tick,       \* where it is in its tick
    batch,      \* the timers it claimed and has not treated
    scan,       \* where the scanner is
    scanned     \* the rows it read and has not treated

timerVars == <<timer, tries, due, holder, expired, fired>>
schedulerVars == <<generation, tick, batch>>
scannerVars == <<scan, scanned>>
vars == <<workflowVars, created, timerVars, matched, schedulerVars,
          scannerVars>>

Claim == [wait : Wait, number : 1..MaxAttempts]

TypeOK ==
    /\ WorkflowTypeOK
    /\ created \in [Wait -> Nat]
    /\ timer \in [Wait -> {"none", "scheduled", "processing", "fired",
                           "cancelled", "dead_lettered"}]
    /\ tries \in [Wait -> 0..MaxAttempts]
    /\ due \in [Wait -> BOOLEAN]
    /\ holder \in [Wait -> (0..MaxStops) \cup {None}]
    /\ expired \in [Wait -> BOOLEAN]
    /\ matched \in SUBSET Wait
    /\ fired \in SUBSET Wait
    /\ generation \in 0..MaxStops
    /\ tick \in {"dead_letter", "claim", "fire"}
    /\ batch \in SUBSET Claim
    /\ scan \in {"events", "consume", "satisfied", "resume"}
    /\ scanned \in SUBSET Wait

\* Workflows have been accepted (create_workflow) and are waiting to run.
Init ==
    /\ wfState = [w \in Workflow |-> "READY"]
    /\ currentRun = [w \in Workflow |-> None]
    /\ currentWait = [w \in Workflow |-> None]
    /\ item = [w \in Workflow |-> "queued"]
    /\ attempt = [r \in Run |-> None]
    /\ wait = [c \in Wait |-> None]
    /\ created = [c \in Wait |-> 0]
    /\ timer = [c \in Wait |-> "none"]
    /\ tries = [c \in Wait |-> 0]
    /\ due = [c \in Wait |-> FALSE]
    /\ holder = [c \in Wait |-> None]
    /\ expired = [c \in Wait |-> FALSE]
    /\ matched = {}
    /\ fired = {}
    /\ generation = 0
    /\ tick = "dead_letter"
    /\ batch = {}
    /\ scan = "events"
    /\ scanned = {}

-----------------------------------------------------------------------------
(* Agent runs of the workflows *)

\* Run ids are new ones: which of them does not matter.
StartNextRun(w, r) ==
    /\ attempt[r] = None /\ r = CHOOSE q \in Run : attempt[q] = None
    /\ StartRun(w, r,
          Cardinality({q \in Run : attempt[q] # None
                                   /\ attempt[q].workflow = w}) + 1)
    /\ UNCHANGED <<wait, created, timerVars, matched, schedulerVars,
                   scannerVars>>

EndRun(w, r) ==
    /\ AttemptRuns(w, r)
    /\ MarkCompleted(w, r) \/ MarkRetryScheduled(w, r) \/ MarkFailed(w, r)
    /\ UNCHANGED <<wait, created, timerVars, matched, schedulerVars,
                   scannerVars>>

Inserted == {c \in Wait : created[c] # 0}

\* Only the scan of event waits reads it.
NoteCreation(c) ==
    created' = IF Kind[c] = "event" /\ created[c] = 0
               THEN [created EXCEPT ![c] = Cardinality(Inserted) + 1]
               ELSE created

\* INSERT OR IGNORE of the timer of a wait.
InsertTimer(c, timed) ==
    timer' = IF timed /\ timer[c] = "none"
             THEN [timer EXCEPT ![c] = "scheduled"]
             ELSE timer

\* suspend_run: a timer wait has a dueAt, any other kind may have one.
Suspend(c, r, timed) ==
    LET w == Home[c] IN
    /\ AttemptRuns(w, r)
    /\ c \notin Standalone
    /\ Kind[c] = "timer" => timed
    /\ SuspendRun(w, r, c, Kind[c])
    /\ NoteCreation(c)
    /\ InsertTimer(c, timed)
    /\ UNCHANGED <<tries, due, holder, expired, fired, matched, schedulerVars,
                   scannerVars>>

\* schedule_workflow_timer: the wait and its timer, the workflow untouched.
ScheduleTimer(c) ==
    /\ c \in Standalone /\ wait[c] = None
    /\ InsertWait(c, Home[c], "timer")
    /\ NoteCreation(c)
    /\ InsertTimer(c, TRUE)
    /\ UNCHANGED <<instanceVars, attempt, tries, due, holder, expired, fired,
                   matched, schedulerVars, scannerVars>>

\* cancel_workflow_timer: Err unless the wait is a pending timer wait.
CancelTimer(c) ==
    /\ WaitIs(c, "pending") /\ wait[c].kind = "timer"
    /\ SettleWait(c, "cancelled")
    /\ IF timer[c] \in {"scheduled", "processing"}
       THEN /\ timer' = [timer EXCEPT ![c] = "cancelled"]
            /\ holder' = [holder EXCEPT ![c] = None]
            /\ expired' = [expired EXCEPT ![c] = FALSE]
       ELSE UNCHANGED <<timer, holder, expired>>
    /\ UNCHANGED <<instanceVars, attempt, created, tries, due, fired, matched,
                   schedulerVars, scannerVars>>

\* Some component commits a domain event of the awaited type and correlation.
RecordEvent(c) ==
    /\ wait[c] # None /\ wait[c].kind = "event"
    /\ matched' = matched \cup {c}
    /\ UNCHANGED <<workflowVars, created, timerVars, schedulerVars,
                   scannerVars>>

-----------------------------------------------------------------------------
(* Time *)

DueArrives(c) ==
    /\ timer[c] = "scheduled" /\ ~due[c]
    /\ due' = [due EXCEPT ![c] = TRUE]
    /\ UNCHANGED <<workflowVars, created, timer, tries, holder, expired, fired,
                   matched, schedulerVars, scannerVars>>

LeaseExpires(c) ==
    /\ timer[c] = "processing" /\ ~expired[c]
    /\ expired' = [expired EXCEPT ![c] = TRUE]
    /\ UNCHANGED <<workflowVars, created, timer, tries, due, holder, fired,
                   matched, schedulerVars, scannerVars>>

-----------------------------------------------------------------------------
(* The timer scheduler *)

Exhausted(n) == n >= MaxAttempts

\* Faulty variant: the wait stays pending when its timer is given up.
KeepWaits(C) == UNCHANGED wait

FailWaits(C) ==
    wait' = [c \in Wait |-> IF c \in C /\ WaitIs(c, "pending")
                            THEN [wait[c] EXCEPT !.status = "failed"]
                            ELSE wait[c]]

\* Constrains timer, holder, expired and wait.
DeadLetterTimers(C) ==
    /\ timer' = [c \in Wait |-> IF c \in C THEN "dead_lettered" ELSE timer[c]]
    /\ holder' = [c \in Wait |-> IF c \in C THEN None ELSE holder[c]]
    /\ expired' = [c \in Wait |-> IF c \in C THEN FALSE ELSE expired[c]]
    /\ FailWaits(C)

DeadLetterExhausted ==
    /\ tick = "dead_letter"
    /\ DeadLetterTimers({c \in Wait : timer[c] = "processing" /\ expired[c]
                                      /\ Exhausted(tries[c])})
    /\ tick' = "claim"
    /\ UNCHANGED <<instanceVars, attempt, created, tries, due, fired, matched,
                   generation, batch, scannerVars>>

\* Faulty variant: a timer a dead scheduler had claimed is left to it.
ScheduledOnly ==
    {c \in Wait : WaitIs(c, "pending") /\ ~Exhausted(tries[c])
                  /\ timer[c] = "scheduled" /\ due[c]}

Candidates ==
    {c \in Wait : WaitIs(c, "pending") /\ ~Exhausted(tries[c])
                  /\ \/ timer[c] = "scheduled" /\ due[c]
                     \/ timer[c] = "processing" /\ expired[c]}

CountTries(C) ==
    tries' = [c \in Wait |-> IF c \in C THEN tries[c] + 1 ELSE tries[c]]

ClaimDueTimers ==
    /\ tick = "claim"
    /\ timer' = [c \in Wait |-> IF c \in Candidates THEN "processing"
                                                    ELSE timer[c]]
    /\ CountTries(Candidates)
    /\ holder' = [c \in Wait |-> IF c \in Candidates THEN generation
                                                     ELSE holder[c]]
    /\ expired' = [c \in Wait |-> expired[c] /\ c \notin Candidates]
    /\ batch' = {[wait |-> c, number |-> tries[c] + 1] : c \in Candidates}
    /\ tick' = "fire"
    /\ UNCHANGED <<workflowVars, created, due, fired, matched, generation,
                   scannerVars>>

OwnsTimer(c) ==
    /\ timer[c] = "processing" /\ holder[c] = generation
    /\ WaitIs(c, "pending")

\* The event id is UNIQUE: a second one is an Err.
FireTimer(claim) ==
    LET c == claim.wait IN
    /\ tick = "fire" /\ claim \in batch
    /\ OwnsTimer(c)
    /\ c \notin fired /\ fired' = fired \cup {c}
    /\ SettleWait(c, "satisfied")
    /\ timer' = [timer EXCEPT ![c] = "fired"]
    /\ holder' = [holder EXCEPT ![c] = None]
    /\ expired' = [expired EXCEPT ![c] = FALSE]
    /\ ResumeWorkflow(Home[c], c)
    /\ batch' = batch \ {claim}
    /\ UNCHANGED <<created, tries, due, matched, generation, tick,
                   scannerVars>>

\* Ok(false), or an Err whose reschedule failed too.
LeaveTimer(claim) ==
    /\ tick = "fire" /\ claim \in batch
    /\ batch' = batch \ {claim}
    /\ UNCHANGED <<workflowVars, created, timerVars, matched, generation, tick,
                   scannerVars>>

\* fire_claimed_timer returned Err and changed nothing.
RescheduleFailed(claim) ==
    LET c == claim.wait IN
    /\ tick = "fire" /\ claim \in batch
    /\ timer[c] = "processing" /\ holder[c] = generation
    /\ IF Exhausted(claim.number)
       THEN DeadLetterTimers({c}) /\ UNCHANGED due
       ELSE /\ timer' = [timer EXCEPT ![c] = "scheduled"]
            /\ due' = [due EXCEPT ![c] = FALSE]
            /\ holder' = [holder EXCEPT ![c] = None]
            /\ expired' = [expired EXCEPT ![c] = FALSE]
            /\ UNCHANGED wait
    /\ batch' = batch \ {claim}
    /\ UNCHANGED <<instanceVars, attempt, created, tries, fired, matched,
                   generation, tick, scannerVars>>

EndTick ==
    /\ tick = "fire" /\ batch = {}
    /\ tick' = "dead_letter"
    /\ UNCHANGED <<workflowVars, created, timerVars, matched, generation,
                   batch, scannerVars>>

-----------------------------------------------------------------------------
(* The scanner *)

WaitingForEvent ==
    {c \in Wait : WaitIs(c, "pending") /\ wait[c].kind = "event"
                  /\ wfState[Home[c]] = "WAITING_EVENT"}

\* ORDER BY created_at LIMIT ScanLimit
Oldest(C) ==
    {c \in C : Cardinality({d \in C : created[d] < created[c]}) < ScanLimit}

ReadEventWaits ==
    /\ scan = "events"
    /\ scanned' = Oldest(WaitingForEvent)
    /\ scan' = "consume"
    /\ UNCHANGED <<workflowVars, created, timerVars, matched, schedulerVars>>

SatisfyWait(c) == SettleWait(c, "satisfied")

\* Faulty variant: the workflow is left to the scan of satisfied waits.
ResumeLater(w, c) == UNCHANGED <<instanceVars, attempt>>

ResumeWith(w, c) == ResumeWorkflow(w, c)

\* The transaction asks for the wait's status again, and resumes the workflow
\* only if it is this wait it was waiting for.
ConsumeEventWait(c) ==
    /\ scan = "consume" /\ c \in scanned
    /\ IF c \in matched THEN SatisfyWait(c) ELSE UNCHANGED wait
    /\ IF c \in matched /\ WaitIs(c, "pending")
       THEN ResumeWith(Home[c], c)
       ELSE UNCHANGED <<instanceVars, attempt>>
    /\ scanned' = scanned \ {c}
    /\ UNCHANGED <<created, timerVars, matched, schedulerVars, scan>>

WaitsOn(c) == currentWait[Home[c]] = c

\* Faulty variant: any settled wait resumes its workflow.
ResumableSettled ==
    {c \in Wait : wait[c] # None /\ ~WaitIs(c, "pending") /\ WaitsOn(c)
                  /\ wfState[Home[c]] \in WaitingStates \ {"WAITING_EVENT"}}

Resumable ==
    {c \in Wait : WaitIs(c, "satisfied") /\ WaitsOn(c)
                  /\ wfState[Home[c]] \in WaitingStates \ {"WAITING_EVENT"}}

ReadSatisfiedWaits ==
    /\ scan = "consume" /\ scanned = {}
    /\ scanned' = Resumable
    /\ scan' = "resume"
    /\ UNCHANGED <<workflowVars, created, timerVars, matched, schedulerVars>>

ResumeSatisfiedWait(c) ==
    /\ scan = "resume" /\ c \in scanned
    /\ ResumeWorkflow(Home[c], c)
    /\ scanned' = scanned \ {c}
    /\ UNCHANGED <<wait, created, timerVars, matched, schedulerVars, scan>>

EndScan ==
    /\ scan = "resume" /\ scanned = {}
    /\ scan' = "events"
    /\ UNCHANGED <<workflowVars, created, timerVars, matched, schedulerVars,
                   scanned>>

\* The Core stops and starts again, or its loops are quiesced and resumed.
Stop ==
    /\ generation < MaxStops
    /\ generation' = generation + 1
    /\ tick' = "dead_letter" /\ batch' = {}
    /\ scan' = "events" /\ scanned' = {}
    /\ UNCHANGED <<workflowVars, created, timerVars, matched>>

-----------------------------------------------------------------------------
TimerStep ==
    \/ DeadLetterExhausted
    \/ ClaimDueTimers
    \/ \E claim \in batch :
          FireTimer(claim) \/ LeaveTimer(claim) \/ RescheduleFailed(claim)
    \/ EndTick

ScannerStep ==
    \/ ReadEventWaits
    \/ \E c \in scanned : ConsumeEventWait(c)
    \/ ReadSatisfiedWaits
    \/ \E c \in scanned : ResumeSatisfiedWait(c)
    \/ EndScan

Next ==
    \/ \E w \in Workflow, r \in Run : StartNextRun(w, r) \/ EndRun(w, r)
    \/ \E c \in Wait, r \in Run, timed \in BOOLEAN : Suspend(c, r, timed)
    \/ \E c \in Wait : ScheduleTimer(c) \/ CancelTimer(c)
    \/ \E c \in Wait : RecordEvent(c)
    \/ \E c \in Wait : DueArrives(c) \/ LeaseExpires(c)
    \/ TimerStep
    \/ ScannerStep
    \/ Stop

Spec == Init /\ [][Next]_vars

\* Both loops tick once a second while the Core lives, and clocks advance.
Fairness ==
    /\ WF_vars(TimerStep)
    /\ WF_vars(ScannerStep)
    /\ \A c \in Wait : WF_vars(DueArrives(c)) /\ WF_vars(LeaseExpires(c))

FairSpec == Spec /\ Fairness

-----------------------------------------------------------------------------
(* Properties *)

\* The two tables tell one story although four transactions of two loops move
\* them: a timer is leased while it is processing, it fired exactly when its
\* event is recorded and its wait satisfied, and a wait that failed or was
\* cancelled has a timer that will never fire
\* (claim, fire, cancel, dead letter: workflow_timers.rs).
TimersAgreeWithWaits ==
    \A c \in Wait :
        /\ (timer[c] = "processing") <=> (holder[c] # None)
        /\ expired[c] => timer[c] = "processing"
        /\ (timer[c] = "fired") <=> (c \in fired)
        /\ timer[c] = "fired" => WaitIs(c, "satisfied")
        /\ timer[c] = "dead_lettered" => ~WaitIs(c, "pending")
        /\ WaitIs(c, "failed") => timer[c] = "dead_lettered"
        /\ WaitIs(c, "cancelled") <=> timer[c] = "cancelled"

\* A workflow waits exactly when it names a wait, one of its own and of the
\* kind its state says; it runs exactly when it names a run, and that run is
\* its only open attempt (suspend_run, start_run, resume_workflow).
WorkflowAgreesWithRows ==
    \A w \in Workflow :
        /\ (wfState[w] \in WaitingStates) <=> (currentWait[w] # None)
        /\ currentWait[w] # None =>
              /\ Home[currentWait[w]] = w
              /\ wait[currentWait[w]] # None
              /\ wfState[w] = WaitingFor[Kind[currentWait[w]]]
        /\ (wfState[w] = "RUNNING") <=> (currentRun[w] # None)
        /\ \A r \in Run : AttemptRuns(w, r) <=> (currentRun[w] = r)

\* Neither contradicts the other: a timer and its wait are settled by three
\* actors and two scans, the workflow by whichever comes first.
RowsAgree == TimersAgreeWithWaits /\ WorkflowAgreesWithRows

\* Nothing but its own satisfied wait ends the waiting of a workflow
\* (resume_workflow_in_transaction and its callers).
ResumedOnlyWhenSatisfied ==
    [][\A w \in Workflow :
          currentWait[w] # None /\ currentWait'[w] # currentWait[w] =>
              /\ wfState'[w] = "READY"
              /\ wait'[currentWait[w]].status = "satisfied"]_vars

\* Every timer somebody still waits for ends, whatever fails and whoever dies:
\* lease expiry, retry and dead letter leave no timer behind.
TimerEnds ==
    \A c \in Wait :
        timer[c] \in {"scheduled", "processing"} /\ WaitIs(c, "pending")
            ~> ~WaitIs(c, "pending")

\* A workflow that waits for an event that has been recorded is resumed,
\* unless a timer on the same wait is given up first (consume_event_waits;
\* docs/agent-runtime.md:270).
MatchedEventIsConsumed ==
    \A c \in Wait :
        WaitsOn(c) /\ WaitIs(c, "pending") /\ c \in matched
            ~> ~WaitsOn(c) \/ WaitIs(c, "failed")

SatisfiedWaitResumes(c) ==
    WaitsOn(c) /\ WaitIs(c, "satisfied") ~> ~WaitsOn(c)

\* A workflow suspended on a wait that is already satisfied, as when the same
\* key is used a second time, is resumed by the scan of satisfied waits.
SatisfiedIsResumed ==
    \A c \in Wait : Kind[c] # "event" => SatisfiedWaitResumes(c)

\* Nobody waits for ever on what has happened, for a timer no more than for an
\* event: the timer scheduler and the scanner leave no wait to each other.
WaitsEnd == TimerEnds /\ MatchedEventIsConsumed /\ SatisfiedIsResumed

\* The same of event waits, as docs/agent-runtime.md:270 says of both kinds.
SatisfiedEventIsResumed ==
    \A c \in Wait : Kind[c] = "event" => SatisfiedWaitResumes(c)
=============================================================================
