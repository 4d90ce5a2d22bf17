--------------------------- MODULE ActionGateway ---------------------------
(***************************************************************************)
(* action_gateway.rs: the durable queue of external actions.  An action is  *)
(* proposed by a workflow, decided by a person, claimed by a worker under a *)
(* lease and a fencing token, called at its provider, and settled.  Several *)
(* workers share the queue; a worker may stall past its lease, or die, and  *)
(* the scanner of the Headless Core then takes the action back.             *)
(*                                                                          *)
(* The workflow tables are those of WorkflowRuntime and are not the         *)
(* gateway's alone: agent runs of the same workflow start, finish, fail and *)
(* retry between any two steps of the gateway.                              *)
(*                                                                          *)
(* Abstractions.  Every function of the source is one SQLite transaction,   *)
(* hence one action here.  Time is the two booleans the WHERE clauses ask   *)
(* about: whether a lease has run out and whether a back-off still lasts.   *)
(* An action stands for its idempotency_key: the column is UNIQUE, and a    *)
(* second proposal under a known key changes nothing (it returns the stored *)
(* row or Err), so it is a stuttering step.  The approval row and the wait  *)
(* condition have ids derived from the action's, so Action \subseteq Wait.  *)
(***************************************************************************)
EXTENDS WorkflowRuntime, FiniteSets

CONSTANTS
    Action,        \* external_action_requests, by idempotency_key
    Worker,        \* lease owners
    MaxAttempts    \* ACTION_GATEWAY_RETRY_POLICY.max_attempts (5)

ASSUME ActionsHaveWaits == Action \subseteq Wait
ASSUME AttemptsArePositive == MaxAttempts \in Nat \ {0}
ASSUME TablesAreFinite == IsFiniteSet(Action) /\ IsFiniteSet(Run)

VARIABLES
    status,        \* external_action_requests.status, "absent" before
    owner,         \* the workflow of the action, or None
    order,         \* created_at: the position of the proposal, 0 before
    attemptCount,  \* attempt_count
    fence,         \* fencing_token
    leaseOwner,    \* lease_owner
    leaseExpired,  \* lease_expires_at <= now, for an executing action
    backoff,       \* next_attempt_at > now, for an approved action
    decision,      \* external_action_approvals.decision, "absent" before
    tries,         \* external_action_attempts.status by fencing_token
    events,        \* domain_events written through record_with_outbox
    claims         \* ClaimedExternalAction values in the workers' memory

requestVars == <<status, owner, order, attemptCount, fence, leaseOwner,
                 leaseExpired, backoff>>
gatewayVars == <<requestVars, decision, tries, events, claims>>
vars == <<workflowVars, gatewayVars>>

Status ==
    {"absent", "pending_approval", "approved", "executing", "completed",
     "failed", "dead_lettered", "rejected"}

SettledStatus == {"completed", "failed", "dead_lettered", "rejected"}

Token == 1..MaxAttempts

Claim == [action : Action, worker : Worker, fence : Token, number : Token]

Event == {"requested", "completed"} \X Action

TypeOK ==
    /\ WorkflowTypeOK
    /\ status \in [Action -> Status]
    /\ owner \in [Action -> Workflow \cup {None}]
    /\ order \in [Action -> Nat]
    /\ attemptCount \in [Action -> 0..MaxAttempts]
    /\ fence \in [Action -> 0..MaxAttempts]
    /\ leaseOwner \in [Action -> Worker \cup {None}]
    /\ leaseExpired \in [Action -> BOOLEAN]
    /\ backoff \in [Action -> BOOLEAN]
    /\ decision \in [Action -> {"absent", "pending", "approved", "rejected"}]
    /\ tries \in [Action -> [Token ->
          {"none", "executing", "completed", "failed", "interrupted"}]]
    /\ events \in SUBSET Event
    /\ claims \in SUBSET Claim

\* Workflows have been accepted (create_workflow) and are waiting to run.
Init ==
    /\ wfState = [w \in Workflow |-> "READY"]
    /\ currentRun = [w \in Workflow |-> None]
    /\ currentWait = [w \in Workflow |-> None]
    /\ item = [w \in Workflow |-> "queued"]
    /\ attempt = [r \in Run |-> None]
    /\ wait = [c \in Wait |-> None]
    /\ status = [a \in Action |-> "absent"]
    /\ owner = [a \in Action |-> None]
    /\ order = [a \in Action |-> 0]
    /\ attemptCount = [a \in Action |-> 0]
    /\ fence = [a \in Action |-> 0]
    /\ leaseOwner = [a \in Action |-> None]
    /\ leaseExpired = [a \in Action |-> FALSE]
    /\ backoff = [a \in Action |-> FALSE]
    /\ decision = [a \in Action |-> "absent"]
    /\ tries = [a \in Action |-> [n \in Token |-> "none"]]
    /\ events = {}
    /\ claims = {}

Exhausted(n) == n >= MaxAttempts

\* Faulty variant: the event is forgotten.
RecordNothing(kind, a) == UNCHANGED events

\* record_with_outbox: event ids are UNIQUE, a second one would be an Err.
RecordWithOutbox(kind, a) ==
    /\ <<kind, a>> \notin events
    /\ events' = events \cup {<<kind, a>>}

-----------------------------------------------------------------------------
(* The proposing workflow and the person who decides *)

Proposed == {a \in Action : status[a] # "absent"}

ProposeExternalAction(a, w) ==
    /\ status[a] = "absent"
    /\ wfState[w] \in {"READY", "RUNNING", "RETRY_SCHEDULED"}
    /\ currentWait[w] = None
    /\ wait[a] = None
    /\ InsertWait(a, w, "approval")
    /\ status' = [status EXCEPT ![a] = "pending_approval"]
    /\ owner' = [owner EXCEPT ![a] = w]
    /\ order' = [order EXCEPT ![a] = Cardinality(Proposed) + 1]
    /\ decision' = [decision EXCEPT ![a] = "pending"]
    /\ wfState' = [wfState EXCEPT ![w] = "WAITING_APPROVAL"]
    /\ currentWait' = [currentWait EXCEPT ![w] = a]
    /\ item' = [item EXCEPT ![w] = "waiting"]
    /\ UNCHANGED <<currentRun, attempt, attemptCount, fence, leaseOwner,
                   leaseExpired, backoff, tries, events, claims>>

\* Faulty variant: any stored decision may be taken again.
HasDecision(a) == decision[a] # "absent"

AwaitsDecision(a) == status[a] = "pending_approval"

\* Err, and nothing changes, unless exactly one workflow row is resumed.
ApproveExternalAction(a) ==
    /\ AwaitsDecision(a)
    /\ CanResume(owner[a], a)
    /\ decision' = [decision EXCEPT ![a] = "approved"]
    /\ status' = [status EXCEPT ![a] = "approved"]
    /\ SettleWait(a, "satisfied")
    /\ RecordWithOutbox("requested", a)
    /\ ResumeWorkflow(owner[a], a)
    /\ UNCHANGED <<owner, order, attemptCount, fence, leaseOwner,
                   leaseExpired, backoff, tries, claims>>

\* Faulty variant: only the work item learns of the rejection.
CancelWorkItem(w) ==
    /\ item' = [item EXCEPT ![w] = "cancelled"]
    /\ UNCHANGED <<wfState, currentWait>>

\* The workflow is cancelled whatever its state is by now.
CancelWorkflow(w) ==
    /\ ForceState(w, "CANCELLED", "cancelled")
    /\ currentWait' = [currentWait EXCEPT ![w] = None]

RejectExternalAction(a) ==
    /\ AwaitsDecision(a)
    /\ decision' = [decision EXCEPT ![a] = "rejected"]
    /\ status' = [status EXCEPT ![a] = "rejected"]
    /\ SettleWait(a, "satisfied")
    /\ CancelWorkflow(owner[a])
    /\ UNCHANGED <<currentRun, attempt, owner, order, attemptCount, fence,
                   leaseOwner, leaseExpired, backoff, tries, events, claims>>

-----------------------------------------------------------------------------
(* The workers *)

Claimable == {a \in Action : status[a] = "approved" /\ ~backoff[a]}

\* Faulty variant: a retry keeps the token of the attempt before it.
SameToken(a) == IF fence[a] = 0 THEN 1 ELSE fence[a]

NextToken(a) == fence[a] + 1

\* The oldest claimable action is taken, or the claim fails: when that
\* action's workflow cannot run the whole transaction is rolled back.
ClaimApprovedAction(k, a) ==
    /\ a \in Claimable
    /\ \A b \in Claimable : order[a] <= order[b]
    /\ wfState[owner[a]] \in StartableStates
    /\ status' = [status EXCEPT ![a] = "executing"]
    /\ attemptCount' = [attemptCount EXCEPT ![a] = @ + 1]
    /\ fence' = [fence EXCEPT ![a] = NextToken(a)]
    /\ leaseOwner' = [leaseOwner EXCEPT ![a] = k]
    /\ leaseExpired' = [leaseExpired EXCEPT ![a] = FALSE]
    /\ tries' = [tries EXCEPT ![a][NextToken(a)] = "executing"]
    /\ claims' = claims \cup
          {[action |-> a, worker |-> k, fence |-> NextToken(a),
            number |-> attemptCount[a] + 1]}
    /\ ForceState(owner[a], "RUNNING", "active")
    /\ UNCHANGED <<currentRun, currentWait, attempt, wait, owner, order,
                   backoff, decision, events>>

\* WHERE status = 'executing' AND fencing_token = ? AND lease_owner = ?: the
\* lease's expiry is not part of the condition.
HoldsAction(c) ==
    /\ status[c.action] = "executing"
    /\ fence[c.action] = c.fence
    /\ leaseOwner[c.action] = c.worker

\* The row of the attempt is closed with the request's, or Err.
CloseTry(c, outcome) ==
    /\ tries[c.action][c.fence] = "executing"
    /\ tries' = [tries EXCEPT ![c.action][c.fence] = outcome]

ReleaseLease(a) ==
    /\ leaseOwner' = [leaseOwner EXCEPT ![a] = None]
    /\ leaseExpired' = [leaseExpired EXCEPT ![a] = FALSE]

SettleSuccess(c) ==
    /\ HoldsAction(c)
    /\ CloseTry(c, "completed")
    /\ status' = [status EXCEPT ![c.action] = "completed"]
    /\ ReleaseLease(c.action)
    /\ ForceState(owner[c.action], "COMPLETED", "completed")
    /\ RecordWithOutbox("completed", c.action)
    /\ claims' = claims \ {c}
    /\ UNCHANGED <<currentRun, currentWait, attempt, wait, owner, order,
                   attemptCount, fence, backoff, decision>>

SettleRetry(c) ==
    /\ HoldsAction(c)
    /\ ~Exhausted(c.number)
    /\ CloseTry(c, "failed")
    /\ status' = [status EXCEPT ![c.action] = "approved"]
    /\ ReleaseLease(c.action)
    /\ backoff' = [backoff EXCEPT ![c.action] = TRUE]
    /\ wfState' = IF wfState[owner[c.action]] = "RUNNING"
                  THEN [wfState EXCEPT ![owner[c.action]] = "RETRY_SCHEDULED"]
                  ELSE wfState
    /\ item' = [item EXCEPT ![owner[c.action]] = "queued"]
    /\ claims' = claims \ {c}
    /\ UNCHANGED <<currentRun, currentWait, attempt, wait, owner, order,
                   attemptCount, fence, decision, events>>

SettleFailure(c, retryable) ==
    /\ HoldsAction(c)
    /\ retryable => Exhausted(c.number)
    /\ CloseTry(c, "failed")
    /\ status' = [status EXCEPT
          ![c.action] = IF retryable THEN "dead_lettered" ELSE "failed"]
    /\ ReleaseLease(c.action)
    /\ ForceState(owner[c.action], "FAILED", "failed")
    /\ claims' = claims \ {c}
    /\ UNCHANGED <<currentRun, currentWait, attempt, wait, owner, order,
                   attemptCount, fence, backoff, decision, events>>

\* Ok(false): the late result is dropped with the claim.
SettleStale(c) ==
    /\ ~HoldsAction(c)
    /\ claims' = claims \ {c}
    /\ UNCHANGED <<workflowVars, requestVars, decision, tries, events>>

SettleClaimedAction(c) ==
    \/ SettleSuccess(c)
    \/ SettleRetry(c)
    \/ \E retryable \in BOOLEAN : SettleFailure(c, retryable)
    \/ SettleStale(c)

\* A worker process dies with the claims it holds in memory.
WorkerCrash(k) ==
    /\ \E c \in claims : c.worker = k
    /\ claims' = {c \in claims : c.worker # k}
    /\ UNCHANGED <<workflowVars, requestVars, decision, tries, events>>

-----------------------------------------------------------------------------
(* Time and the recovery scan *)

LeaseExpires(a) ==
    /\ status[a] = "executing" /\ ~leaseExpired[a]
    /\ leaseExpired' = [leaseExpired EXCEPT ![a] = TRUE]
    /\ UNCHANGED <<workflowVars, status, owner, order, attemptCount, fence,
                   leaseOwner, backoff, decision, tries, events, claims>>

BackoffElapses(a) ==
    /\ backoff[a]
    /\ backoff' = [backoff EXCEPT ![a] = FALSE]
    /\ UNCHANGED <<workflowVars, status, owner, order, attemptCount, fence,
                   leaseOwner, leaseExpired, decision, tries, events, claims>>

\* Faulty variant: an execution without attempts left is not scanned.
RecoverableWithRetry(a) ==
    status[a] = "executing" /\ leaseExpired[a] /\ ~Exhausted(attemptCount[a])

Recoverable(a) == status[a] = "executing" /\ leaseExpired[a]

\* Faulty variant: the attempt stays open.
LeaveTryOpen(a) == UNCHANGED tries

InterruptTry(a) == tries' = [tries EXCEPT ![a][fence[a]] = "interrupted"]

\* One row of the scan.  The rows are read before the transaction opens, but
\* its UPDATE asks again for status, fencing token and expiry, and
\* attempt_count only moves with the token: nothing read early is stale.
RecoverExpiredAction(a) ==
    /\ Recoverable(a)
    /\ ReleaseLease(a)
    /\ InterruptTry(a)
    /\ IF Exhausted(attemptCount[a])
       THEN /\ status' = [status EXCEPT ![a] = "dead_lettered"]
            /\ ForceState(owner[a], "FAILED", "failed")
       ELSE /\ status' = [status EXCEPT ![a] = "approved"]
            /\ ForceState(owner[a], "RETRY_SCHEDULED", "queued")
    /\ UNCHANGED <<currentRun, currentWait, attempt, wait, owner, order,
                   attemptCount, fence, backoff, decision, events, claims>>

-----------------------------------------------------------------------------
(* Agent runs of the same workflows *)

AgentStartsRun(w, r) ==
    /\ StartRun(w, r,
          Cardinality({q \in Run : attempt[q] # None
                                   /\ attempt[q].workflow = w}) + 1)
    /\ UNCHANGED <<wait, gatewayVars>>

\* The run reports while its attempt is open; mark_* ask for the state of the
\* workflow only, not for current_run_id.
AgentEndsRun(w, r) ==
    /\ AttemptRuns(w, r)
    /\ MarkCompleted(w, r) \/ MarkFailed(w, r) \/ MarkRetryScheduled(w, r)
    /\ UNCHANGED <<wait, gatewayVars>>

-----------------------------------------------------------------------------
Next ==
    \/ \E a \in Action, w \in Workflow : ProposeExternalAction(a, w)
    \/ \E a \in Action : ApproveExternalAction(a)
    \/ \E a \in Action : RejectExternalAction(a)
    \/ \E k \in Worker, a \in Action : ClaimApprovedAction(k, a)
    \/ \E c \in claims : SettleClaimedAction(c)
    \/ \E k \in Worker : WorkerCrash(k)
    \/ \E a \in Action : LeaseExpires(a)
    \/ \E a \in Action : BackoffElapses(a)
    \/ \E a \in Action : RecoverExpiredAction(a)
    \/ \E w \in Workflow, r \in Run : AgentStartsRun(w, r)
    \/ \E w \in Workflow, r \in Run : AgentEndsRun(w, r)

Spec == Init /\ [][Next]_vars

\* Clocks advance, and the workflow scanner of the Headless Core runs
\* recover_expired_actions on every tick for as long as the Core lives.
ScannerFairness ==
    \A a \in Action : WF_vars(LeaseExpires(a)) /\ WF_vars(RecoverExpiredAction(a))

FairSpec == Spec /\ ScannerFairness

-----------------------------------------------------------------------------
(* Properties *)

\* Whatever stale workers do, an action has an open attempt exactly while it
\* is executing, and the open attempt is the one of the current token.  The
\* two Err branches of settle_claimed_action that find the request and the
\* attempt rows in disagreement are therefore unreachable.
OpenAttemptIsCurrent ==
    \A a \in Action : \A n \in Token :
        (tries[a][n] = "executing") <=> (status[a] = "executing" /\ n = fence[a])

\* The result a settled action carries was produced by exactly one attempt,
\* the last one that was claimed: no late worker completes an action again
\* and none completes it after a newer claim.
CompletedOnce ==
    \A a \in Action : \A n \in Token :
        (tries[a][n] = "completed") <=> (status[a] = "completed" /\ n = fence[a])

\* No attempt was ever made at an action nobody approved; a rejected one is
\* never handed to a worker.
OnlyApprovedIsTried ==
    \A a \in Action :
        /\ fence[a] > 0 => decision[a] = "approved"
        /\ \A n \in Token : tries[a][n] # "none" <=> n <= fence[a]

\* The queue never offers an action whose attempts are used up: the retry
\* paths of settlement and of recovery agree on when to stop.
RetriesAreBounded ==
    \A a \in Action :
        /\ status[a] = "approved" => attemptCount[a] < MaxAttempts
        /\ attemptCount[a] = fence[a]

\* The outbox carries one request event for each approved action and one
\* result event for each completed one, written with the state they report.
EventsMatchState ==
    \A a \in Action :
        /\ <<"requested", a>> \in events <=> decision[a] = "approved"
        /\ <<"completed", a>> \in events <=> status[a] = "completed"

\* Two workers never hold a claim on the same attempt, and a claim a worker
\* still remembers is never newer than the stored token.
ClaimsAreFenced ==
    /\ \A c \in claims : c.fence <= fence[c.action] /\ c.number = c.fence
    /\ \A c, d \in claims :
          c.action = d.action /\ c.fence = d.fence => c = d

\* A workflow the gateway shows as waiting for an approval can always be
\* decided: the approval it points to is its own and still pending.
WaitingApprovalIsDecidable ==
    \A w \in Workflow : wfState[w] = "WAITING_APPROVAL" =>
        \E a \in Action :
            /\ currentWait[w] = a /\ owner[a] = w
            /\ status[a] = "pending_approval"
            /\ WaitIs(a, "pending")

\* What a settled action and a closed attempt record is final, and the token
\* only grows.
SettledIsFinal ==
    [][\A a \in Action :
          /\ fence'[a] >= fence[a]
          /\ status[a] \in SettledStatus => status'[a] = status[a]
          /\ \A n \in Token :
                tries[a][n] \in {"completed", "failed", "interrupted"} =>
                    tries'[a][n] = tries[a][n]]_vars

\* An action does not stay with a worker that died or stalled: some settle or
\* the scan ends every execution.
ExecutionEnds ==
    \A a \in Action : status[a] = "executing" ~> status[a] # "executing"

\* What the gateway promises its callers: the statuses, tokens and completed
\* attempts of the tables are an implementation of FencedDispatch.
DispatchPhase ==
    [absent |-> "pending", pending_approval |-> "pending",
     approved |-> "offered", executing |-> "held", completed |-> "done",
     failed |-> "dropped", dead_lettered |-> "dropped",
     rejected |-> "dropped"]

Dispatch ==
    INSTANCE FencedDispatch WITH
        Item <- Action,
        phase <- [a \in Action |-> DispatchPhase[status[a]]],
        token <- fence,
        completedBy <-
            [a \in Action |-> {n \in Token : tries[a][n] = "completed"}]

\* Every step of the gateway, its stale workers and its recovery scan is a
\* step of the abstract queue or leaves it unchanged.
ImplementsDispatch == Dispatch!DispatchSpec

\* docs/event-driven-workflows.md says that an approval's decision satisfies
\* the WAITING_APPROVAL it belongs to.  Then a pending approval must find its
\* workflow in that state, on that wait.
PendingApprovalIsAwaited ==
    \A a \in Action : status[a] = "pending_approval" =>
        /\ wfState[owner[a]] = "WAITING_APPROVAL"
        /\ currentWait[owner[a]] = a
=============================================================================
