------------------------ MODULE ActionGatewayProofs ------------------------
(***************************************************************************)
(* Theorems about ActionGateway, for every set of workflows, runs, actions  *)
(* and workers and every bound on the attempts.                             *)
(*                                                                          *)
(* TypeOK is not inductive: attempt numbers and tokens stay within           *)
(* MaxAttempts only because an offered action has attempts left, and        *)
(* settlement and recovery see to that only when status, decision, token    *)
(* and attempt rows agree (RowsAgree) and the claims in the workers' memory *)
(* are fenced (ClaimsAreFenced).  The three are inductive together.         *)
(***************************************************************************)
EXTENDS ActionGateway, FiniteSetTheorems, TLAPS

USE NoneIsNoId, ActionsHaveWaits, AttemptsArePositive, TablesAreFinite

-----------------------------------------------------------------------------
(* What the fragments of WorkflowRuntime that are called here keep.        *)

\* The states and statuses these fragments write are those of the schema.
LEMMA WrittenStates ==
    /\ {"READY", "RUNNING", "COMPLETED", "FAILED", "CANCELLED",
        "RETRY_SCHEDULED", "WAITING_APPROVAL"} \subseteq WorkflowState
    /\ {"queued", "active", "waiting", "completed", "failed", "cancelled"}
          \subseteq ItemStatus
BY DEF WorkflowState, StartableStates, WaitingStates, TerminalStates, ItemStatus

\* Ending the attempt of a run, or of no run, keeps the table typed.
LEMMA FinishAttemptType ==
    ASSUME WorkflowTypeOK, NEW w \in Workflow, NEW r \in Run \cup {None},
           NEW s \in {"completed", "failed", "interrupted"},
           FinishAttempt(w, r, s)
    PROVE  attempt' \in [Run -> Attempt \cup {None}]
<1>1. CASE AttemptRuns(w, r)
  <2>1. r \in Run /\ attempt[r] \in Attempt
    BY <1>1 DEF AttemptRuns, WorkflowTypeOK
  <2>2. [attempt[r] EXCEPT !.status = s] \in Attempt
    BY <2>1 DEF Attempt
  <2>3. attempt' = [attempt EXCEPT ![r] = [attempt[r] EXCEPT !.status = s]]
    BY <1>1 DEF FinishAttempt
  <2>. QED BY <2>1, <2>2, <2>3 DEF WorkflowTypeOK
<1>2. CASE ~AttemptRuns(w, r)
  BY <1>2 DEF FinishAttempt, WorkflowTypeOK
<1>. QED BY <1>1, <1>2

\* Settling a wait condition keeps the table typed.
LEMMA SettleWaitType ==
    ASSUME WorkflowTypeOK, NEW c \in Wait,
           NEW s \in {"satisfied", "cancelled", "failed"},
           SettleWait(c, s)
    PROVE  wait' \in [Wait -> WaitCondition \cup {None}]
<1>1. CASE WaitIs(c, "pending")
  <2>1. wait[c] \in WaitCondition
    BY <1>1 DEF WaitIs, WorkflowTypeOK
  <2>2. [wait[c] EXCEPT !.status = s] \in WaitCondition
    BY <2>1 DEF WaitCondition
  <2>3. wait' = [wait EXCEPT ![c] = [wait[c] EXCEPT !.status = s]]
    BY <1>1 DEF SettleWait
  <2>. QED BY <2>2, <2>3 DEF WorkflowTypeOK
<1>2. CASE ~WaitIs(c, "pending")
  BY <1>2 DEF SettleWait, WorkflowTypeOK
<1>. QED BY <1>1, <1>2

\* A new pending wait is a typed row.
LEMMA InsertWaitType ==
    ASSUME WorkflowTypeOK, NEW c \in Wait, NEW w \in Workflow,
           NEW k \in WaitKind, InsertWait(c, w, k)
    PROVE  wait' \in [Wait -> WaitCondition \cup {None}]
BY DEF InsertWait, WorkflowTypeOK, WaitCondition

\* The workflow part of proposing, resuming and forcing a state.
LEMMA ResumeType ==
    ASSUME WorkflowTypeOK, NEW w \in Workflow, NEW c \in Wait,
           ResumeWorkflow(w, c)
    PROVE  /\ wfState' \in [Workflow -> WorkflowState]
           /\ currentRun' \in [Workflow -> Run \cup {None}]
           /\ currentWait' \in [Workflow -> Wait \cup {None}]
           /\ item' \in [Workflow -> ItemStatus]
           /\ attempt' \in [Run -> Attempt \cup {None}]
BY DEF ResumeWorkflow, WorkflowTypeOK, WorkflowState, StartableStates, ItemStatus

\* An unconditional state change writes a typed row.
LEMMA ForceStateType ==
    ASSUME WorkflowTypeOK, NEW w \in Workflow, NEW s \in WorkflowState,
           NEW i \in ItemStatus, ForceState(w, s, i)
    PROVE  /\ wfState' \in [Workflow -> WorkflowState]
           /\ item' \in [Workflow -> ItemStatus]
BY DEF ForceState, WorkflowTypeOK

\* What an agent run's report does to the workflow tables is typed.
LEMMA EndRunType ==
    ASSUME WorkflowTypeOK, NEW w \in Workflow, NEW r \in Run,
           MarkCompleted(w, r) \/ MarkFailed(w, r) \/ MarkRetryScheduled(w, r)
    PROVE  /\ wfState' \in [Workflow -> WorkflowState]
           /\ currentRun' \in [Workflow -> Run \cup {None}]
           /\ currentWait' \in [Workflow -> Wait \cup {None}]
           /\ item' \in [Workflow -> ItemStatus]
           /\ attempt' \in [Run -> Attempt \cup {None}]
<1>1. CASE MarkCompleted(w, r)
  <2>1. attempt' \in [Run -> Attempt \cup {None}]
    BY <1>1, FinishAttemptType DEF MarkCompleted
  <2>. QED BY <1>1, <2>1, WrittenStates DEF MarkCompleted, WorkflowTypeOK
<1>2. CASE MarkFailed(w, r)
  <2>1. attempt' \in [Run -> Attempt \cup {None}]
    BY <1>2, FinishAttemptType DEF MarkFailed
  <2>. QED BY <1>2, <2>1, WrittenStates DEF MarkFailed, WorkflowTypeOK
<1>3. CASE MarkRetryScheduled(w, r)
  <2>1. attempt' \in [Run -> Attempt \cup {None}]
    BY <1>3, FinishAttemptType DEF MarkRetryScheduled
  <2>. QED BY <1>3, <2>1, WrittenStates DEF MarkRetryScheduled, WorkflowTypeOK
<1>. QED BY <1>1, <1>2, <1>3

-----------------------------------------------------------------------------
\* The statuses an action can only have after its approval.
PostApproval == {"approved", "executing", "completed", "failed", "dead_lettered"}

\* Status, decision, token and attempt rows of one action agree.
RowsAgree(a) ==
    /\ status[a] # "absent" => owner[a] \in Workflow
    /\ status[a] \in PostApproval => decision[a] = "approved"
    /\ status[a] \notin PostApproval => decision[a] # "approved" /\ fence[a] = 0
    /\ status[a] = "executing" => fence[a] > 0
    /\ status[a] = "approved" => attemptCount[a] < MaxAttempts
    /\ attemptCount[a] = fence[a]
    /\ \A n \in Token :
          /\ (tries[a][n] = "executing")
                <=> (status[a] = "executing" /\ n = fence[a])
          /\ (tries[a][n] = "completed")
                <=> (status[a] = "completed" /\ n = fence[a])
          /\ (tries[a][n] # "none") <=> n <= fence[a]

IInv == TypeOK /\ \A a \in Action : RowsAgree(a)

\* A step that leaves the gateway's tables alone and the workflow tables
\* typed preserves the invariant.
LEMMA WorkflowOnlyStep ==
    ASSUME IInv, WorkflowTypeOK', UNCHANGED gatewayVars
    PROVE  IInv'
<1>1. TypeOK'
  BY DEF IInv, TypeOK, gatewayVars, requestVars
<1>2. \A a \in Action : RowsAgree(a)'
  BY DEF IInv, RowsAgree, gatewayVars, requestVars
<1>. QED BY <1>1, <1>2 DEF IInv

-----------------------------------------------------------------------------
(* One lemma per action *)

\* A fresh database satisfies the invariant.
LEMMA InitInv == Init => IInv
<1>. SUFFICES ASSUME Init PROVE IInv
  OBVIOUS
<1>1. WorkflowTypeOK
  BY WrittenStates DEF Init, WorkflowTypeOK
<1>2. TypeOK
  BY <1>1 DEF Init, TypeOK, Status, Token
<1>3. \A a \in Action : RowsAgree(a)
  BY DEF Init, RowsAgree, PostApproval, Token
<1>. QED BY <1>2, <1>3 DEF IInv

\* A proposal adds rows under a fresh key.
LEMMA ProposeInv ==
    ASSUME IInv, NEW a \in Action, NEW w \in Workflow,
           ProposeExternalAction(a, w)
    PROVE  IInv'
<1>1. WorkflowTypeOK'
  <2>1. wait' \in [Wait -> WaitCondition \cup {None}]
    BY InsertWaitType DEF IInv, TypeOK, ProposeExternalAction, WaitKind
  <2>. QED BY <2>1, WrittenStates
           DEF IInv, TypeOK, ProposeExternalAction, WorkflowTypeOK
<1>2. Cardinality(Proposed) \in Nat
  BY FS_Subset, FS_CardinalityType DEF Proposed
<1>3. TypeOK'
  BY <1>1, <1>2 DEF IInv, TypeOK, ProposeExternalAction, Status
<1>4. \A b \in Action : RowsAgree(b)'
  BY DEF IInv, TypeOK, RowsAgree, PostApproval, ProposeExternalAction
<1>. QED BY <1>3, <1>4 DEF IInv

\* An approval changes the status and the decision together.
LEMMA ApproveInv ==
    ASSUME IInv, NEW a \in Action, ApproveExternalAction(a)
    PROVE  IInv'
<1>1. owner[a] \in Workflow
  BY DEF IInv, RowsAgree, ApproveExternalAction, AwaitsDecision
<1>2. WorkflowTypeOK'
  <2>1. wait' \in [Wait -> WaitCondition \cup {None}]
    BY SettleWaitType DEF IInv, TypeOK, ApproveExternalAction
  <2>. QED BY <1>1, <2>1, ResumeType
           DEF IInv, TypeOK, ApproveExternalAction, WorkflowTypeOK
<1>3. TypeOK'
  BY <1>2 DEF IInv, TypeOK, ApproveExternalAction, Status, RecordWithOutbox, Event
<1>4. \A b \in Action : RowsAgree(b)'
  BY DEF IInv, TypeOK, RowsAgree, PostApproval, ApproveExternalAction, AwaitsDecision
<1>. QED BY <1>3, <1>4 DEF IInv

\* So does a rejection, whatever state it finds the workflow in.
LEMMA RejectInv ==
    ASSUME IInv, NEW a \in Action, RejectExternalAction(a)
    PROVE  IInv'
<1>1. owner[a] \in Workflow
  BY DEF IInv, RowsAgree, RejectExternalAction, AwaitsDecision
<1>2. WorkflowTypeOK'
  <2>1. wait' \in [Wait -> WaitCondition \cup {None}]
    BY SettleWaitType DEF IInv, TypeOK, RejectExternalAction
  <2>. QED BY <1>1, <2>1, ForceStateType, WrittenStates
           DEF IInv, TypeOK, RejectExternalAction, CancelWorkflow, WorkflowTypeOK
<1>3. TypeOK'
  BY <1>2 DEF IInv, TypeOK, RejectExternalAction, Status
<1>4. \A b \in Action : RowsAgree(b)'
  BY DEF IInv, TypeOK, RowsAgree, PostApproval, RejectExternalAction, AwaitsDecision
<1>. QED BY <1>3, <1>4 DEF IInv

\* The claim is where RetriesAreBounded is needed: without it the new token
\* need not be a Token, and the attempt row written under it would be lost.
LEMMA ClaimInv ==
    ASSUME IInv, NEW k \in Worker, NEW a \in Action, ClaimApprovedAction(k, a)
    PROVE  IInv'
<1>1. /\ status[a] = "approved" /\ owner[a] \in Workflow
      /\ attemptCount[a] = fence[a] /\ fence[a] \in 0..MaxAttempts
      /\ attemptCount[a] < MaxAttempts
  BY DEF IInv, TypeOK, RowsAgree, ClaimApprovedAction, Claimable
<1>2. NextToken(a) \in Token /\ NextToken(a) = attemptCount[a] + 1
  BY <1>1 DEF NextToken, Token
<1>3. WorkflowTypeOK'
  BY <1>1, ForceStateType, WrittenStates
     DEF IInv, TypeOK, ClaimApprovedAction, WorkflowTypeOK
<1>4. claims' \in SUBSET Claim
  BY <1>2 DEF IInv, TypeOK, ClaimApprovedAction, Claim
<1>5. tries' \in [Action -> [Token ->
          {"none", "executing", "completed", "failed", "interrupted"}]]
  BY <1>2 DEF IInv, TypeOK, ClaimApprovedAction
<1>6. /\ attemptCount' \in [Action -> 0..MaxAttempts]
      /\ fence' \in [Action -> 0..MaxAttempts]
  BY <1>1, <1>2 DEF IInv, TypeOK, ClaimApprovedAction, Token
<1>7. TypeOK'
  BY <1>3, <1>4, <1>5, <1>6 DEF IInv, TypeOK, ClaimApprovedAction, Status
<1>8. ASSUME NEW b \in Action PROVE RowsAgree(b)'
  <2>1. CASE b = a
    <3>1. /\ status'[a] = "executing" /\ fence'[a] = fence[a] + 1
          /\ attemptCount'[a] = fence'[a] /\ owner'[a] \in Workflow
          /\ decision'[a] = "approved"
      BY <1>1, <1>2 DEF IInv, TypeOK, RowsAgree, PostApproval,
                        ClaimApprovedAction, NextToken
    <3>2. \A n \in Token : tries'[a][n] =
             IF n = fence'[a] THEN "executing" ELSE tries[a][n]
      BY <1>2, <3>1 DEF IInv, TypeOK, ClaimApprovedAction, NextToken
    <3>3. \A n \in Token : n <= fence[a] + 1 <=> n <= fence[a] \/ n = fence[a] + 1
      BY <1>1 DEF Token
    <3>4. \A n \in Token : /\ tries[a][n] # "executing"
                           /\ tries[a][n] # "completed"
                           /\ (tries[a][n] # "none") <=> n <= fence[a]
      BY <1>1 DEF IInv, RowsAgree
    <3>. QED BY <1>1, <2>1, <3>1, <3>2, <3>3, <3>4 DEF RowsAgree, PostApproval
  <2>2. CASE b # a
    BY <2>2 DEF IInv, TypeOK, RowsAgree, PostApproval, ClaimApprovedAction
  <2>. QED BY <2>1, <2>2
<1>. QED BY <1>7, <1>8 DEF IInv

\* What the three accepted settlements share: the claimed attempt is the open
\* one, and it ends with the execution.
LEMMA AcceptedSettleInv ==
    ASSUME IInv, NEW c \in claims, HoldsAction(c),
           NEW s \in {"completed", "approved", "failed", "dead_lettered"},
           NEW o \in {"completed", "failed"},
           (s = "completed") <=> (o = "completed"),
           s = "approved" => attemptCount[c.action] < MaxAttempts,
           CloseTry(c, o),
           status' = [status EXCEPT ![c.action] = s],
           ReleaseLease(c.action),
           claims' = claims \ {c},
           backoff' \in [Action -> BOOLEAN],
           events' \in SUBSET Event,
           WorkflowTypeOK',
           UNCHANGED <<owner, order, attemptCount, fence, decision>>
    PROVE  IInv'
<1>1. /\ c.action \in Action /\ c.fence \in Token
      /\ status[c.action] = "executing" /\ c.fence = fence[c.action]
  BY DEF IInv, TypeOK, Claim, HoldsAction
<1>2. tries' = [tries EXCEPT ![c.action] = [tries[c.action] EXCEPT ![c.fence] = o]]
  BY DEF CloseTry
<1>3. TypeOK'
  BY <1>1, <1>2 DEF IInv, TypeOK, ReleaseLease, Status
<1>4. ASSUME NEW b \in Action PROVE RowsAgree(b)'
  <2>1. CASE b = c.action
    <3>1. \A n \in Token : tries'[b][n] =
             IF n = fence[b] THEN o ELSE tries[b][n]
      BY <1>1, <1>2, <2>1 DEF IInv, TypeOK
    <3>2. /\ decision[b] = "approved" /\ fence[b] \in Token
          /\ owner[b] \in Workflow /\ attemptCount[b] = fence[b]
          /\ status'[b] = s
      BY <1>1, <2>1 DEF IInv, TypeOK, RowsAgree, PostApproval
    <3>3. \A n \in Token : n # fence[b] =>
             /\ tries[b][n] # "executing" /\ tries[b][n] # "completed"
             /\ (tries[b][n] # "none") <=> n <= fence[b]
      BY <1>1, <2>1 DEF IInv, RowsAgree
    <3>4. fence[b] <= fence[b]
      BY <3>2 DEF Token
    <3>. QED BY <2>1, <3>1, <3>2, <3>3, <3>4 DEF RowsAgree, PostApproval
  <2>2. CASE b # c.action
    BY <1>1, <1>2, <2>2 DEF IInv, TypeOK, RowsAgree, PostApproval
  <2>. QED BY <2>1, <2>2
<1>. QED BY <1>3, <1>4 DEF IInv

\* A success completes the open attempt and the request.
LEMMA SettleSuccessInv ==
    ASSUME IInv, NEW c \in claims, SettleSuccess(c)
    PROVE  IInv'
<1>1. c.action \in Action /\ owner[c.action] \in Workflow
  BY DEF IInv, TypeOK, Claim, RowsAgree, SettleSuccess, HoldsAction
<1>2. WorkflowTypeOK'
  BY <1>1, ForceStateType, WrittenStates
     DEF IInv, TypeOK, SettleSuccess, WorkflowTypeOK
<1>3. backoff' \in [Action -> BOOLEAN] /\ events' \in SUBSET Event
  BY <1>1 DEF IInv, TypeOK, SettleSuccess, RecordWithOutbox, Event
<1>. QED BY <1>2, <1>3, AcceptedSettleInv DEF SettleSuccess

\* Here the claim's attempt number must be the row's: a retry is offered only
\* if the number the worker carries is not exhausted.
LEMMA SettleRetryInv ==
    ASSUME IInv, NEW c \in claims, c.number = c.fence, SettleRetry(c)
    PROVE  IInv'
<1>1. c.action \in Action /\ owner[c.action] \in Workflow
  BY DEF IInv, TypeOK, Claim, RowsAgree, SettleRetry, HoldsAction
<1>2. attemptCount[c.action] < MaxAttempts
  <2>1. c.number = attemptCount[c.action]
    BY <1>1 DEF IInv, RowsAgree, SettleRetry, HoldsAction
  <2>2. c.number \in Nat
    BY DEF IInv, TypeOK, Claim, Token
  <2>. QED BY <2>1, <2>2 DEF SettleRetry, Exhausted
<1>3. WorkflowTypeOK'
  BY <1>1, WrittenStates DEF IInv, TypeOK, SettleRetry, WorkflowTypeOK
<1>4. backoff' \in [Action -> BOOLEAN] /\ events' \in SUBSET Event
  BY <1>1 DEF IInv, TypeOK, SettleRetry
<1>. QED BY <1>2, <1>3, <1>4, AcceptedSettleInv DEF SettleRetry

\* A final failure closes the attempt and drops the request.
LEMMA SettleFailureInv ==
    ASSUME IInv, NEW c \in claims, NEW t \in BOOLEAN, SettleFailure(c, t)
    PROVE  IInv'
<1>1. c.action \in Action /\ owner[c.action] \in Workflow
  BY DEF IInv, TypeOK, Claim, RowsAgree, SettleFailure, HoldsAction
<1>2. WorkflowTypeOK'
  BY <1>1, ForceStateType, WrittenStates
     DEF IInv, TypeOK, SettleFailure, WorkflowTypeOK
<1>3. backoff' \in [Action -> BOOLEAN] /\ events' \in SUBSET Event
  BY DEF IInv, TypeOK, SettleFailure
<1>4. CASE t
  BY <1>2, <1>3, <1>4, AcceptedSettleInv DEF SettleFailure
<1>5. CASE ~t
  BY <1>2, <1>3, <1>5, AcceptedSettleInv DEF SettleFailure
<1>. QED BY <1>4, <1>5

\* The scan interrupts the open attempt and offers or drops the request.
LEMMA RecoverInv ==
    ASSUME IInv, NEW a \in Action, RecoverExpiredAction(a)
    PROVE  IInv'
<1>1. /\ status[a] = "executing" /\ owner[a] \in Workflow
      /\ fence[a] \in Token /\ attemptCount[a] = fence[a]
      /\ decision[a] = "approved"
  BY DEF IInv, TypeOK, RowsAgree, PostApproval, RecoverExpiredAction, Recoverable, Token
<1>2. WorkflowTypeOK'
  BY <1>1, ForceStateType, WrittenStates
     DEF IInv, TypeOK, RecoverExpiredAction, WorkflowTypeOK
<1>3. tries' = [tries EXCEPT ![a] = [tries[a] EXCEPT ![fence[a]] = "interrupted"]]
  BY DEF RecoverExpiredAction, InterruptTry
<1>4. TypeOK'
  BY <1>1, <1>2, <1>3
     DEF IInv, TypeOK, RecoverExpiredAction, ReleaseLease, Status
<1>5. /\ status'[a] \in {"approved", "dead_lettered"}
      /\ status'[a] = "approved" => attemptCount[a] < MaxAttempts
  <2>1. attemptCount[a] \in Nat
    BY <1>1 DEF Token
  <2>. QED BY <2>1 DEF IInv, TypeOK, RecoverExpiredAction, Exhausted
<1>6. ASSUME NEW b \in Action PROVE RowsAgree(b)'
  <2>1. CASE b = a
    <3>1. \A n \in Token : tries'[b][n] =
             IF n = fence[b] THEN "interrupted" ELSE tries[b][n]
      BY <1>1, <1>3, <2>1 DEF IInv, TypeOK
    <3>2. \A n \in Token : n # fence[b] =>
             /\ tries[b][n] # "executing" /\ tries[b][n] # "completed"
             /\ (tries[b][n] # "none") <=> n <= fence[b]
      BY <1>1, <2>1 DEF IInv, RowsAgree
    <3>3. fence[b] <= fence[b]
      BY <1>1, <2>1 DEF Token
    <3>. QED BY <1>1, <1>5, <2>1, <3>1, <3>2, <3>3
             DEF RowsAgree, PostApproval, RecoverExpiredAction
  <2>2. CASE b # a
    BY <1>1, <1>3, <2>2 DEF IInv, TypeOK, RowsAgree, PostApproval, RecoverExpiredAction
  <2>. QED BY <2>1, <2>2
<1>. QED BY <1>4, <1>6 DEF IInv

\* Typing of the steps that only touch the workflow tables.
LEMMA AgentStartsRunInv ==
    ASSUME IInv, NEW w \in Workflow, NEW r \in Run, AgentStartsRun(w, r)
    PROVE  IInv'
<1>. DEFINE Stored == {q \in Run : attempt[q] # None /\ attempt[q].workflow = w}
            n == Cardinality(Stored) + 1
<1>1. n \in Nat
  <2>1. IsFiniteSet(Stored)
    BY FS_Subset
  <2>. QED BY <2>1, FS_CardinalityType
<1>2. StartRun(w, r, n) /\ UNCHANGED <<wait, gatewayVars>>
  BY DEF AgentStartsRun
<1>3. WorkflowTypeOK'
  <2>. HIDE DEF n
  <2>1. [workflow |-> w, number |-> n, status |-> "running"] \in Attempt
    BY <1>1 DEF Attempt
  <2>. QED BY <1>2, <2>1, WrittenStates DEF IInv, TypeOK, StartRun, WorkflowTypeOK
<1>. QED BY <1>2, <1>3, WorkflowOnlyStep

\* An agent run's report does not reach the gateway's tables.
LEMMA AgentEndsRunInv ==
    ASSUME IInv, NEW w \in Workflow, NEW r \in Run, AgentEndsRun(w, r)
    PROVE  IInv'
<1>1. WorkflowTypeOK'
  BY EndRunType DEF IInv, TypeOK, AgentEndsRun, WorkflowTypeOK
<1>. QED BY <1>1, WorkflowOnlyStep DEF AgentEndsRun

\* A claim in a worker's memory was handed out under a token no newer than
\* the stored one, and the next token is newer than all of them.
LEMMA ClaimsFencedStep ==
    ASSUME IInv, ClaimsAreFenced, [Next]_vars
    PROVE  ClaimsAreFenced'
<1>1. ASSUME NEW k \in Worker, NEW a \in Action, ClaimApprovedAction(k, a)
      PROVE  ClaimsAreFenced'
  <2>. DEFINE new == [action |-> a, worker |-> k, fence |-> NextToken(a),
                      number |-> attemptCount[a] + 1]
  <2>1. /\ fence[a] \in Nat /\ attemptCount[a] = fence[a]
        /\ fence' = [fence EXCEPT ![a] = fence[a] + 1]
        /\ claims' = claims \cup {new}
        /\ new.action = a /\ new.fence = fence[a] + 1 /\ new.number = new.fence
    BY <1>1 DEF IInv, TypeOK, RowsAgree, ClaimApprovedAction, NextToken
  <2>2. \A c \in claims : /\ c.action \in Action /\ c.fence \in Nat
                          /\ fence[c.action] \in Nat
    BY DEF IInv, TypeOK, Claim, Token
  <2>3. \A c \in claims : c.action = a => c.fence # new.fence
    BY <2>1, <2>2 DEF ClaimsAreFenced
  <2>. HIDE DEF new
  <2>4. \A c \in claims' : c.fence <= fence'[c.action] /\ c.number = c.fence
    <3>1. \A c \in claims : c.fence <= fence'[c.action] /\ c.number = c.fence
      BY <2>1, <2>2 DEF ClaimsAreFenced, IInv, TypeOK
    <3>2. new.fence <= fence'[new.action]
      BY <2>1 DEF IInv, TypeOK
    <3>. QED BY <2>1, <3>1, <3>2
  <2>5. \A c, d \in claims' : c.action = d.action /\ c.fence = d.fence => c = d
    BY <2>1, <2>3 DEF ClaimsAreFenced
  <2>. QED BY <2>4, <2>5 DEF ClaimsAreFenced
<1>2. ASSUME UNCHANGED fence, claims' \subseteq claims
      PROVE  ClaimsAreFenced'
  BY <1>2 DEF ClaimsAreFenced
<1>3. ASSUME NEW a \in Action, NEW w \in Workflow, ProposeExternalAction(a, w)
      PROVE  ClaimsAreFenced'
  BY <1>2, <1>3 DEF ProposeExternalAction
<1>4. ASSUME NEW a \in Action,
             ApproveExternalAction(a) \/ RejectExternalAction(a)
      PROVE  ClaimsAreFenced'
  BY <1>2, <1>4 DEF ApproveExternalAction, RejectExternalAction
<1>5. ASSUME NEW c \in claims, SettleClaimedAction(c)
      PROVE  ClaimsAreFenced'
  BY <1>2, <1>5 DEF SettleClaimedAction, SettleSuccess, SettleRetry,
                    SettleFailure, SettleStale, requestVars
<1>6. ASSUME NEW k \in Worker, WorkerCrash(k)
      PROVE  ClaimsAreFenced'
  BY <1>2, <1>6 DEF WorkerCrash, requestVars
<1>7. ASSUME NEW a \in Action,
             LeaseExpires(a) \/ BackoffElapses(a) \/ RecoverExpiredAction(a)
      PROVE  ClaimsAreFenced'
  BY <1>2, <1>7 DEF LeaseExpires, BackoffElapses, RecoverExpiredAction
<1>8. ASSUME NEW w \in Workflow, NEW r \in Run,
             AgentStartsRun(w, r) \/ AgentEndsRun(w, r)
      PROVE  ClaimsAreFenced'
  BY <1>2, <1>8 DEF AgentStartsRun, AgentEndsRun, gatewayVars, requestVars
<1>9. CASE UNCHANGED vars
  BY <1>2, <1>9 DEF vars, gatewayVars, requestVars
<1>. QED BY <1>1, <1>3, <1>4, <1>5, <1>6, <1>7, <1>8, <1>9 DEF Next

\* Every step preserves the invariant, given what the claims carry.
LEMMA InvStep ==
    ASSUME IInv, ClaimsAreFenced, [Next]_vars
    PROVE  IInv'
<1>1. ASSUME NEW c \in claims, SettleClaimedAction(c)
      PROVE  IInv'
  <2>1. c.number = c.fence
    BY DEF ClaimsAreFenced
  <2>2. CASE SettleStale(c)
    <3>1. claims' \in SUBSET Claim
      BY <2>2 DEF SettleStale, IInv, TypeOK
    <3>2. WorkflowTypeOK'
      BY <2>2 DEF SettleStale, workflowVars, IInv, TypeOK, WorkflowTypeOK
    <3>. QED BY <2>2, <3>1, <3>2
             DEF SettleStale, requestVars, IInv, TypeOK, RowsAgree
  <2>. QED BY <1>1, <2>1, <2>2, SettleSuccessInv, SettleRetryInv, SettleFailureInv
           DEF SettleClaimedAction
<1>2. ASSUME NEW k \in Worker, WorkerCrash(k)
      PROVE  IInv'
  <2>1. claims' \in SUBSET Claim
    BY <1>2 DEF WorkerCrash, IInv, TypeOK
  <2>2. WorkflowTypeOK'
    BY <1>2 DEF WorkerCrash, workflowVars, IInv, TypeOK, WorkflowTypeOK
  <2>. QED BY <1>2, <2>1, <2>2 DEF WorkerCrash, requestVars, IInv, TypeOK, RowsAgree
<1>3. ASSUME NEW a \in Action, LeaseExpires(a) \/ BackoffElapses(a)
      PROVE  IInv'
  <2>1. WorkflowTypeOK'
    BY <1>3 DEF LeaseExpires, BackoffElapses, workflowVars, IInv, TypeOK, WorkflowTypeOK
  <2>2. /\ leaseExpired' \in [Action -> BOOLEAN]
        /\ backoff' \in [Action -> BOOLEAN]
    BY <1>3 DEF LeaseExpires, BackoffElapses, IInv, TypeOK
  <2>. QED BY <1>3, <2>1, <2>2
           DEF LeaseExpires, BackoffElapses, IInv, TypeOK, RowsAgree
<1>4. CASE UNCHANGED vars
  <2>1. WorkflowTypeOK'
    BY <1>4 DEF vars, workflowVars, IInv, TypeOK, WorkflowTypeOK
  <2>. QED BY <1>4, <2>1, WorkflowOnlyStep DEF vars
<1>. QED BY <1>1, <1>2, <1>3, <1>4, ProposeInv, ApproveInv, RejectInv, ClaimInv,
            RecoverInv, AgentStartsRunInv, AgentEndsRunInv
         DEF Next

-----------------------------------------------------------------------------
(* Theorems *)

\* The inductive invariant holds in every reachable state: rows agree, and
\* no claim is newer than the token it was handed out under.
THEOREM InductiveInvariant == Spec => [](IInv /\ ClaimsAreFenced)
<1>1. Init => IInv /\ ClaimsAreFenced
  <2>1. Init => ClaimsAreFenced
    BY DEF Init, ClaimsAreFenced
  <2>. QED BY <2>1, InitInv
<1>2. IInv /\ ClaimsAreFenced /\ [Next]_vars => (IInv /\ ClaimsAreFenced)'
  BY InvStep, ClaimsFencedStep
<1>. QED BY <1>1, <1>2, PTL DEF Spec

\* Every table of the gateway keeps the shape of its schema; in particular no
\* counter or token passes MaxAttempts.
THEOREM TypeCorrect == Spec => []TypeOK
BY InductiveInvariant, PTL DEF IInv

\* No two workers ever hold claims on one attempt.
THEOREM ClaimsFenced == Spec => []ClaimsAreFenced
BY InductiveInvariant, PTL

\* An action has an open attempt exactly while it executes, under its token.
THEOREM OpenAttempt == Spec => []OpenAttemptIsCurrent
<1>1. IInv => OpenAttemptIsCurrent
  BY DEF IInv, RowsAgree, OpenAttemptIsCurrent
<1>. QED BY <1>1, InductiveInvariant, PTL

\* A completed action was completed by exactly one attempt, its last.
THEOREM CompletedByOne == Spec => []CompletedOnce
<1>1. IInv => CompletedOnce
  BY DEF IInv, RowsAgree, CompletedOnce
<1>. QED BY <1>1, InductiveInvariant, PTL

\* Nothing is handed to a worker before a person approved it.
THEOREM ApprovedBeforeTried == Spec => []OnlyApprovedIsTried
<1>1. IInv => OnlyApprovedIsTried
  BY DEF IInv, TypeOK, RowsAgree, OnlyApprovedIsTried, PostApproval
<1>. QED BY <1>1, InductiveInvariant, PTL

\* An offered action has attempts left, whoever offered it.
THEOREM BoundedRetries == Spec => []RetriesAreBounded
<1>1. IInv => RetriesAreBounded
  BY DEF IInv, RowsAgree, RetriesAreBounded
<1>. QED BY <1>1, InductiveInvariant, PTL

-----------------------------------------------------------------------------
(* The outbox and the waiting workflows *)

\* A change of an action that is neither approved nor completed, before or
\* after, needs no event.
LEMMA Undecided ==
    ASSUME TypeOK, EventsMatchState, NEW a \in Action,
           NEW s \in Status \ {"completed"},
           NEW d \in {"absent", "pending", "rejected"},
           status[a] # "completed", decision[a] # "approved",
           status' = [status EXCEPT ![a] = s],
           decision' = [decision EXCEPT ![a] = d], UNCHANGED events
    PROVE  EventsMatchState'
<1>1. \A b \in Action : /\ (status'[b] = "completed") <=> (status[b] = "completed")
                        /\ (decision'[b] = "approved") <=> (decision[b] = "approved")
  BY DEF TypeOK
<1>. QED BY <1>1 DEF EventsMatchState

\* An event is recorded in the transaction that makes it true, and nothing
\* takes a decision or a completion back.
LEMMA EventsStep ==
    ASSUME IInv, EventsMatchState, [Next]_vars
    PROVE  EventsMatchState'
<1>. USE DEF IInv, TypeOK, EventsMatchState
<1>1. ASSUME UNCHANGED <<events, decision>>,
             \A a \in Action : (status'[a] = "completed")
                                  <=> (status[a] = "completed")
      PROVE  EventsMatchState'
  BY <1>1
<1>2. ASSUME NEW a \in Action, NEW w \in Workflow, ProposeExternalAction(a, w)
      PROVE  EventsMatchState'
  <2>1. decision[a] # "approved"
    BY <1>2 DEF ProposeExternalAction, RowsAgree, PostApproval
  <2>. QED BY <1>2, <2>1, Undecided DEF ProposeExternalAction, Status
<1>3. ASSUME NEW a \in Action, ApproveExternalAction(a)
      PROVE  EventsMatchState'
  BY <1>3 DEF ApproveExternalAction, AwaitsDecision, RecordWithOutbox
<1>4. ASSUME NEW a \in Action, RejectExternalAction(a)
      PROVE  EventsMatchState'
  <2>1. decision[a] # "approved"
    BY <1>4 DEF RejectExternalAction, AwaitsDecision, RowsAgree, PostApproval
  <2>. QED BY <1>4, <2>1, Undecided
           DEF RejectExternalAction, AwaitsDecision, Status
<1>5. ASSUME NEW k \in Worker, NEW a \in Action, ClaimApprovedAction(k, a)
      PROVE  EventsMatchState'
  BY <1>1, <1>5 DEF ClaimApprovedAction, Claimable
<1>6. ASSUME NEW c \in claims, SettleClaimedAction(c)
      PROVE  EventsMatchState'
  <2>1. c.action \in Action
    BY DEF Claim
  <2>2. CASE SettleSuccess(c)
    BY <2>1, <2>2 DEF SettleSuccess, HoldsAction, RecordWithOutbox
  <2>3. CASE SettleRetry(c)
    BY <1>1, <2>1, <2>3 DEF SettleRetry, HoldsAction
  <2>4. ASSUME NEW t \in BOOLEAN, SettleFailure(c, t)
        PROVE  EventsMatchState'
    BY <1>1, <2>1, <2>4 DEF SettleFailure, HoldsAction
  <2>5. CASE SettleStale(c)
    BY <1>1, <2>5 DEF SettleStale, requestVars
  <2>. QED BY <1>6, <2>2, <2>3, <2>4, <2>5 DEF SettleClaimedAction
<1>7. ASSUME NEW a \in Action, RecoverExpiredAction(a)
      PROVE  EventsMatchState'
  BY <1>1, <1>7 DEF RecoverExpiredAction, Recoverable
<1>8. ASSUME NEW k \in Worker, WorkerCrash(k)
      PROVE  EventsMatchState'
  BY <1>1, <1>8 DEF WorkerCrash, requestVars
<1>9. ASSUME NEW a \in Action, LeaseExpires(a) \/ BackoffElapses(a)
      PROVE  EventsMatchState'
  BY <1>1, <1>9 DEF LeaseExpires, BackoffElapses
<1>10. ASSUME NEW w \in Workflow, NEW r \in Run,
              AgentStartsRun(w, r) \/ AgentEndsRun(w, r)
       PROVE  EventsMatchState'
  BY <1>1, <1>10 DEF AgentStartsRun, AgentEndsRun, gatewayVars, requestVars
<1>11. CASE UNCHANGED vars
  BY <1>1, <1>11 DEF vars, gatewayVars, requestVars
<1>. QED BY <1>2, <1>3, <1>4, <1>5, <1>6, <1>7, <1>8, <1>9, <1>10, <1>11
         DEF Next

\* The outbox carries exactly the events of the states reached.
THEOREM EventsAreTrue == Spec => []EventsMatchState
<1>1. Init => EventsMatchState
  BY DEF Init, EventsMatchState
<1>2. IInv /\ EventsMatchState /\ [Next]_vars => EventsMatchState'
  BY EventsStep
<1>. QED BY <1>1, <1>2, InductiveInvariant, PTL DEF Spec

\* The approval a workflow waits for is its own and pending.
Decidable(w) ==
    /\ currentWait[w] \in Action
    /\ owner[currentWait[w]] = w
    /\ status[currentWait[w]] = "pending_approval"
    /\ WaitIs(currentWait[w], "pending")

\* Whoever decides the approval, or moves the workflow past it, ends the
\* waiting in the same transaction; deciding another approval does not touch
\* it.
LEMMA DecidableStep ==
    ASSUME IInv, [Next]_vars,
           \A w \in Workflow : wfState[w] = "WAITING_APPROVAL" => Decidable(w)
    PROVE  \A w \in Workflow : wfState'[w] = "WAITING_APPROVAL" => Decidable(w)'
<1>. DEFINE P(w) == wfState'[w] = "WAITING_APPROVAL" => Decidable(w)'
<1>. SUFFICES ASSUME NEW w \in Workflow PROVE P(w)
  OBVIOUS
<1>. USE DEF IInv, TypeOK, WorkflowTypeOK
\* Steps of other actions and other workflows.
<1>1. ASSUME wfState'[w] = "WAITING_APPROVAL" => wfState[w] = "WAITING_APPROVAL",
             currentWait'[w] = currentWait[w],
             \A a \in Action : status[a] = "pending_approval" =>
                 /\ status'[a] = status[a] /\ owner'[a] = owner[a]
                 /\ wait'[a] = wait[a]
      PROVE  P(w)
  BY <1>1 DEF Decidable, WaitIs
<1>2. ASSUME NEW a \in Action, NEW v \in Workflow, ProposeExternalAction(a, v)
      PROVE  P(w)
  <2>1. [workflow |-> v, kind |-> "approval", status |-> "pending"]
           \in WaitCondition
    BY DEF WaitCondition, WaitKind
  <2>2. /\ wait'[a] # None /\ wait'[a].status = "pending"
        /\ \A b \in Action \ {a} : wait'[b] = wait[b]
    BY <1>2, <2>1, NoneIsNoRow DEF ProposeExternalAction, InsertWait
  <2>3. CASE v = w
    BY <1>2, <2>2, <2>3 DEF ProposeExternalAction, Decidable, WaitIs
  <2>4. CASE v # w
    <3>1. ASSUME NEW b \in Action, status[b] = "pending_approval"
          PROVE  /\ status'[b] = status[b] /\ owner'[b] = owner[b]
                 /\ wait'[b] = wait[b]
      BY <1>2, <2>2, <3>1 DEF ProposeExternalAction
    <3>2. wfState'[w] = wfState[w] /\ currentWait'[w] = currentWait[w]
      BY <1>2, <2>4 DEF ProposeExternalAction
    <3>. QED BY <1>1, <3>1, <3>2
  <2>. QED BY <2>3, <2>4
\* A decided approval is not waited for by the workflow it leaves behind.
<1>3. ASSUME NEW a \in Action, NEW s \in Status \ {"pending_approval"},
             wfState'[owner[a]] # "WAITING_APPROVAL",
             \A v \in Workflow \ {owner[a]} :
                 wfState'[v] = wfState[v] /\ currentWait'[v] = currentWait[v],
             status' = [status EXCEPT ![a] = s], UNCHANGED owner,
             SettleWait(a, "satisfied")
      PROVE  P(w)
  <2>1. CASE w = owner[a]
    BY <1>3, <2>1
  <2>2. CASE w # owner[a]
    <3>1. \A b \in Action \ {a} : wait'[b] = wait[b]
      BY <1>3 DEF SettleWait
    <3>. QED BY <1>3, <2>2, <3>1 DEF Decidable, WaitIs
  <2>. QED BY <2>1, <2>2
<1>4. ASSUME NEW a \in Action, ApproveExternalAction(a)
      PROVE  P(w)
  <2>1. owner[a] \in Workflow
    BY <1>4 DEF ApproveExternalAction, AwaitsDecision, RowsAgree
  <2>2. /\ wfState' = [wfState EXCEPT ![owner[a]] = "READY"]
        /\ currentWait' = [currentWait EXCEPT ![owner[a]] = None]
    BY <1>4 DEF ApproveExternalAction, ResumeWorkflow
  <2>3. /\ wfState'[owner[a]] # "WAITING_APPROVAL"
        /\ \A v \in Workflow \ {owner[a]} :
              wfState'[v] = wfState[v] /\ currentWait'[v] = currentWait[v]
    BY <2>1, <2>2
  <2>. QED BY <1>3, <1>4, <2>1, <2>3 DEF ApproveExternalAction, Status
<1>5. ASSUME NEW a \in Action, RejectExternalAction(a)
      PROVE  P(w)
  <2>1. owner[a] \in Workflow
    BY <1>5 DEF RejectExternalAction, AwaitsDecision, RowsAgree
  <2>. QED BY <1>3, <1>5, <2>1
           DEF RejectExternalAction, CancelWorkflow, ForceState, Status
<1>6. ASSUME NEW k \in Worker, NEW a \in Action, ClaimApprovedAction(k, a)
      PROVE  P(w)
  BY <1>1, <1>6 DEF ClaimApprovedAction, Claimable, ForceState
<1>7. ASSUME NEW c \in claims, SettleClaimedAction(c)
      PROVE  P(w)
  <2>1. c.action \in Action
    BY DEF Claim
  <2>2. CASE SettleSuccess(c)
    BY <1>1, <2>1, <2>2 DEF SettleSuccess, HoldsAction, ForceState
  <2>3. CASE SettleRetry(c)
    BY <1>1, <2>1, <2>3 DEF SettleRetry, HoldsAction
  <2>4. ASSUME NEW t \in BOOLEAN, SettleFailure(c, t)
        PROVE  P(w)
    BY <1>1, <2>1, <2>4 DEF SettleFailure, HoldsAction, ForceState
  <2>5. CASE SettleStale(c)
    BY <1>1, <2>5 DEF SettleStale, workflowVars, requestVars
  <2>. QED BY <1>7, <2>2, <2>3, <2>4, <2>5 DEF SettleClaimedAction
<1>8. ASSUME NEW a \in Action, RecoverExpiredAction(a)
      PROVE  P(w)
  BY <1>1, <1>8 DEF RecoverExpiredAction, Recoverable, ForceState
<1>9. ASSUME NEW k \in Worker, WorkerCrash(k)
      PROVE  P(w)
  BY <1>1, <1>9 DEF WorkerCrash, workflowVars, requestVars
<1>10. ASSUME NEW a \in Action, LeaseExpires(a) \/ BackoffElapses(a)
       PROVE  P(w)
  BY <1>1, <1>10 DEF LeaseExpires, BackoffElapses, workflowVars
<1>11. ASSUME NEW v \in Workflow, NEW r \in Run, AgentStartsRun(v, r)
       PROVE  P(w)
  <2>1. /\ wfState' = [wfState EXCEPT ![v] = "RUNNING"]
        /\ currentWait' = [currentWait EXCEPT ![v] = None]
        /\ UNCHANGED <<wait, status, owner>>
    BY <1>11 DEF AgentStartsRun, StartRun, gatewayVars, requestVars
  <2>. QED BY <1>1, <2>1
<1>12. ASSUME NEW v \in Workflow, NEW r \in Run, AgentEndsRun(v, r)
       PROVE  P(w)
  <2>1. PICK s \in {"COMPLETED", "FAILED", "RETRY_SCHEDULED"} :
           /\ wfState' = [wfState EXCEPT ![v] = s]
           /\ UNCHANGED <<currentWait, wait, status, owner>>
    BY <1>12 DEF AgentEndsRun, MarkCompleted, MarkFailed, MarkRetryScheduled,
                 gatewayVars, requestVars
  <2>. QED BY <1>1, <2>1
<1>13. CASE UNCHANGED vars
  BY <1>1, <1>13 DEF vars, workflowVars, gatewayVars, requestVars
<1>. QED BY <1>2, <1>4, <1>5, <1>6, <1>7, <1>8, <1>9, <1>10, <1>11, <1>12,
            <1>13 DEF Next

\* No workflow is left waiting for an approval nobody can decide any more.
THEOREM WaitingIsDecidable == Spec => []WaitingApprovalIsDecidable
<1>. DEFINE D == \A w \in Workflow :
                    wfState[w] = "WAITING_APPROVAL" => Decidable(w)
<1>1. Init => D
  BY DEF Init
<1>2. IInv /\ D /\ [Next]_vars => D'
  BY DecidableStep
<1>3. D => WaitingApprovalIsDecidable
  BY DEF Decidable, WaitingApprovalIsDecidable
<1>. HIDE DEF D
<1>. QED BY <1>1, <1>2, <1>3, InductiveInvariant, PTL DEF Spec

-----------------------------------------------------------------------------
(* Settled actions are final *)

\* How a step can change the status and the token of an action: the only
\* facts about the gateway the two results below need.
StatusStep ==
    \/ UNCHANGED <<status, fence>>
    \/ \E a \in Action, s \in Status :
          /\ <<status[a], s>> \in
                {<<"absent", "pending_approval">>,
                 <<"pending_approval", "approved">>,
                 <<"pending_approval", "rejected">>,
                 <<"executing", "approved">>, <<"executing", "completed">>,
                 <<"executing", "failed">>, <<"executing", "dead_lettered">>}
          /\ status' = [status EXCEPT ![a] = s]
          /\ UNCHANGED fence
    \/ \E a \in Action :
          /\ status[a] = "approved"
          /\ status' = [status EXCEPT ![a] = "executing"]
          /\ fence' = [fence EXCEPT ![a] = fence[a] + 1]

\* Every step of the gateway is such a change.
LEMMA StatusSteps ==
    ASSUME IInv, [Next]_vars
    PROVE  StatusStep
<1>1. ASSUME NEW a \in Action, NEW w \in Workflow, ProposeExternalAction(a, w)
      PROVE  StatusStep
  BY <1>1 DEF ProposeExternalAction, StatusStep, Status
<1>2. ASSUME NEW a \in Action,
             ApproveExternalAction(a) \/ RejectExternalAction(a)
      PROVE  StatusStep
  BY <1>2 DEF ApproveExternalAction, RejectExternalAction, AwaitsDecision,
              StatusStep, Status
<1>3. ASSUME NEW k \in Worker, NEW a \in Action, ClaimApprovedAction(k, a)
      PROVE  StatusStep
  BY <1>3 DEF ClaimApprovedAction, Claimable, NextToken, StatusStep
<1>4. ASSUME NEW c \in claims, SettleClaimedAction(c)
      PROVE  StatusStep
  <2>1. c.action \in Action
    BY DEF IInv, TypeOK, Claim
  <2>2. CASE SettleSuccess(c)
    BY <2>1, <2>2 DEF SettleSuccess, HoldsAction, StatusStep, Status
  <2>3. CASE SettleRetry(c)
    BY <2>1, <2>3 DEF SettleRetry, HoldsAction, StatusStep, Status
  <2>4. ASSUME NEW t \in BOOLEAN, SettleFailure(c, t)
        PROVE  StatusStep
    BY <2>1, <2>4 DEF SettleFailure, HoldsAction, StatusStep, Status
  <2>5. CASE SettleStale(c)
    BY <2>5 DEF SettleStale, requestVars, StatusStep
  <2>. QED BY <1>4, <2>2, <2>3, <2>4, <2>5 DEF SettleClaimedAction
<1>5. ASSUME NEW k \in Worker, WorkerCrash(k)
      PROVE  StatusStep
  BY <1>5 DEF WorkerCrash, requestVars, StatusStep
<1>6. ASSUME NEW a \in Action, LeaseExpires(a) \/ BackoffElapses(a)
      PROVE  StatusStep
  BY <1>6 DEF LeaseExpires, BackoffElapses, StatusStep
<1>7. ASSUME NEW a \in Action, RecoverExpiredAction(a)
      PROVE  StatusStep
  BY <1>7 DEF RecoverExpiredAction, Recoverable, StatusStep, Status
<1>8. ASSUME NEW w \in Workflow, NEW r \in Run,
             AgentStartsRun(w, r) \/ AgentEndsRun(w, r)
      PROVE  StatusStep
  BY <1>8 DEF AgentStartsRun, AgentEndsRun, gatewayVars, requestVars, StatusStep
<1>9. CASE UNCHANGED vars
  BY <1>9 DEF vars, gatewayVars, requestVars, StatusStep
<1>. QED BY <1>1, <1>2, <1>3, <1>4, <1>5, <1>6, <1>7, <1>8, <1>9 DEF Next

-----------------------------------------------------------------------------
(* The gateway implements the abstract queue *)

phaseBar == [a \in Action |-> DispatchPhase[status[a]]]

doneBar == [a \in Action |-> {n \in Token : tries[a][n] = "completed"}]

\* The accepted tokens are a function of the status and the token.
LEMMA AcceptedTokens ==
    ASSUME IInv
    PROVE  doneBar = [a \in Action |->
              {n \in Token : status[a] = "completed" /\ n = fence[a]}]
BY DEF IInv, RowsAgree, doneBar

\* The phase each stored status stands for.
LEMMA PhaseOf ==
    /\ DispatchPhase["absent"] = "pending"
    /\ DispatchPhase["pending_approval"] = "pending"
    /\ DispatchPhase["approved"] = "offered"
    /\ DispatchPhase["executing"] = "held"
    /\ DispatchPhase["completed"] = "done"
    /\ DispatchPhase["failed"] = "dropped"
    /\ DispatchPhase["dead_lettered"] = "dropped"
    /\ DispatchPhase["rejected"] = "dropped"
BY DEF DispatchPhase

\* Initial states map to initial states.
LEMMA DispatchInitMaps == Init => Dispatch!DispatchInit
BY PhaseOf DEF Init, Dispatch!DispatchInit, Token

\* Every step maps to a step of the queue or to a stutter.
LEMMA DispatchStepMaps ==
    ASSUME IInv, IInv', StatusStep
    PROVE  [Dispatch!DispatchNext]_(Dispatch!dispatchVars)
<1>1. /\ doneBar = [a \in Action |->
            {n \in Token : status[a] = "completed" /\ n = fence[a]}]
      /\ doneBar' = [a \in Action |->
            {n \in Token : status'[a] = "completed" /\ n = fence'[a]}]
  <2>1. doneBar = [a \in Action |->
            {n \in Token : status[a] = "completed" /\ n = fence[a]}]
    BY AcceptedTokens
  <2>2. doneBar' = [a \in Action |->
            {n \in Token : status'[a] = "completed" /\ n = fence'[a]}]
    BY DEF IInv, RowsAgree, doneBar
  <2>. QED BY <2>1, <2>2
<1>2. CASE UNCHANGED <<status, fence>>
  <2>1. doneBar' = doneBar /\ phaseBar' = phaseBar
    BY <1>1, <1>2 DEF phaseBar
  <2>. QED BY <1>2, <2>1 DEF Dispatch!dispatchVars, phaseBar, doneBar
<1>3. ASSUME NEW a \in Action, NEW s \in Status,
             status' = [status EXCEPT ![a] = s]
      PROVE  phaseBar' = [phaseBar EXCEPT ![a] = DispatchPhase[s]]
  BY <1>3 DEF IInv, TypeOK, phaseBar
<1>4. ASSUME NEW a \in Action, NEW s \in Status,
             status' = [status EXCEPT ![a] = s], UNCHANGED fence,
             status[a] # "completed", s # "completed"
      PROVE  doneBar' = doneBar
  BY <1>1, <1>4 DEF IInv, TypeOK
<1>5. ASSUME NEW a \in Action, NEW s \in Status,
             <<status[a], s>> \in
                {<<"absent", "pending_approval">>,
                 <<"pending_approval", "approved">>,
                 <<"pending_approval", "rejected">>,
                 <<"executing", "approved">>, <<"executing", "completed">>,
                 <<"executing", "failed">>, <<"executing", "dead_lettered">>},
             status' = [status EXCEPT ![a] = s],
             UNCHANGED fence
      PROVE  [Dispatch!DispatchNext]_(Dispatch!dispatchVars)
  <2>1. phaseBar' = [phaseBar EXCEPT ![a] = DispatchPhase[s]]
    BY <1>3, <1>5
  <2>2. phaseBar[a] = DispatchPhase[status[a]]
    BY DEF phaseBar
  <2>3. CASE s = "completed"
    <3>1. status[a] = "executing"
      BY <1>5, <2>3
    <3>2. fence[a] \in Token
      BY <3>1 DEF IInv, TypeOK, RowsAgree, Token
    <3>3. doneBar' = [doneBar EXCEPT ![a] = {fence[a]}]
      <4>1. {n \in Token : n = fence[a]} = {fence[a]}
        BY <3>2
      <4>2. \A b \in Action :
               {n \in Token : status'[b] = "completed" /\ n = fence'[b]}
                 = IF b = a THEN {fence[a]}
                   ELSE {n \in Token : status[b] = "completed" /\ n = fence[b]}
        BY <1>5, <2>3, <4>1 DEF IInv, TypeOK
      <4>. HIDE DEF doneBar
      <4>. QED BY <1>1, <4>2
    <3>4. Dispatch!Complete(a)
      BY <1>5, <2>1, <2>2, <2>3, <3>1, <3>3, PhaseOf
         DEF Dispatch!Complete, Dispatch!Move, phaseBar, doneBar
    <3>. QED BY <3>4 DEF Dispatch!DispatchNext
  <2>4. CASE s # "completed"
    <3>1. doneBar' = doneBar
      BY <1>4, <1>5, <2>4
    <3>2. CASE s = "pending_approval"
      <4>1. phaseBar' = phaseBar
        BY <1>5, <2>1, <2>2, <3>2, PhaseOf DEF phaseBar
      <4>. QED BY <1>5, <3>1, <4>1 DEF Dispatch!dispatchVars, phaseBar, doneBar
    <3>3. CASE status[a] = "pending_approval" /\ s = "approved"
      <4>1. Dispatch!Offer(a)
        BY <1>5, <2>1, <2>2, <3>1, <3>3, PhaseOf
           DEF Dispatch!Offer, Dispatch!Move, phaseBar, doneBar
      <4>. QED BY <4>1 DEF Dispatch!DispatchNext
    <3>4. CASE s = "rejected"
      <4>1. Dispatch!Refuse(a)
        BY <1>5, <2>1, <2>2, <3>1, <3>4, PhaseOf
           DEF Dispatch!Refuse, Dispatch!Move, phaseBar, doneBar
      <4>. QED BY <4>1 DEF Dispatch!DispatchNext
    <3>5. CASE status[a] = "executing" /\ s = "approved"
      <4>1. Dispatch!TakeBack(a)
        BY <1>5, <2>1, <2>2, <3>1, <3>5, PhaseOf
           DEF Dispatch!TakeBack, Dispatch!Move, phaseBar, doneBar
      <4>. QED BY <4>1 DEF Dispatch!DispatchNext
    <3>6. CASE s \in {"failed", "dead_lettered"}
      <4>1. status[a] = "executing" /\ DispatchPhase[s] = "dropped"
        BY <1>5, <3>6, PhaseOf
      <4>2. Dispatch!GiveUp(a)
        BY <1>5, <2>1, <2>2, <3>1, <4>1, PhaseOf
           DEF Dispatch!GiveUp, Dispatch!Move, phaseBar, doneBar
      <4>. QED BY <4>2 DEF Dispatch!DispatchNext
    <3>. QED BY <1>5, <2>4, <3>2, <3>3, <3>4, <3>5, <3>6
  <2>. QED BY <2>3, <2>4
<1>6. ASSUME NEW a \in Action, status[a] = "approved",
             status' = [status EXCEPT ![a] = "executing"],
             fence' = [fence EXCEPT ![a] = fence[a] + 1]
      PROVE  [Dispatch!DispatchNext]_(Dispatch!dispatchVars)
  <2>1. phaseBar' = [phaseBar EXCEPT ![a] = "held"] /\ phaseBar[a] = "offered"
    BY <1>3, <1>6, PhaseOf DEF Status, phaseBar
  <2>2. doneBar' = doneBar
    BY <1>1, <1>6 DEF IInv, TypeOK
  <2>3. Dispatch!HandOut(a)
    BY <1>6, <2>1, <2>2 DEF Dispatch!HandOut, Dispatch!Move, phaseBar, doneBar
  <2>. QED BY <2>3 DEF Dispatch!DispatchNext
<1>. QED BY <1>2, <1>5, <1>6 DEF StatusStep

\* The gateway, with its stale workers, crashes and recovery scan, implements
\* the queue that hands each item out under a fencing token.
THEOREM Refinement == Spec => ImplementsDispatch
<1>1. IInv /\ IInv' /\ ClaimsAreFenced /\ [Next]_vars
         => [Dispatch!DispatchNext]_(Dispatch!dispatchVars)
  BY StatusSteps, DispatchStepMaps
<1>. QED BY <1>1, DispatchInitMaps, InductiveInvariant, PTL
         DEF Spec, ImplementsDispatch, Dispatch!DispatchSpec

\* What a settled action and a closed attempt record is final.
THEOREM FinalWhenSettled == Spec => SettledIsFinal
<1>. DEFINE Final ==
        \A a \in Action :
          /\ fence'[a] >= fence[a]
          /\ status[a] \in SettledStatus => status'[a] = status[a]
          /\ \A n \in Token :
                tries[a][n] \in {"completed", "failed", "interrupted"} =>
                    tries'[a][n] = tries[a][n]
<1>1. ASSUME IInv, ClaimsAreFenced, [Next]_vars PROVE Final
  <2>1. StatusStep
    BY <1>1, StatusSteps
  <2>2. ASSUME NEW a \in Action
        PROVE  /\ fence'[a] >= fence[a]
               /\ status[a] \in SettledStatus => status'[a] = status[a]
    <3>1. fence \in [Action -> Nat] /\ status \in [Action -> Status]
      BY <1>1 DEF IInv, TypeOK
    <3>. QED BY <2>1, <3>1 DEF StatusStep, SettledStatus
  <2>3. ASSUME NEW a \in Action, NEW n \in Token,
               tries[a][n] \in {"completed", "failed", "interrupted"}
        PROVE  tries'[a][n] = tries[a][n]
    <3>1. ASSUME NEW b \in Action, NEW m \in Token, NEW o,
                 tries' = [tries EXCEPT ![b] = [tries[b] EXCEPT ![m] = o]],
                 tries[b][m] \in {"none", "executing"}
          PROVE  tries'[a][n] = tries[a][n]
      BY <1>1, <2>3, <3>1 DEF IInv, TypeOK
    <3>2. ASSUME NEW k \in Worker, NEW b \in Action, ClaimApprovedAction(k, b)
          PROVE  tries'[a][n] = tries[a][n]
      <4>1. fence[b] \in Nat /\ fence[b] < MaxAttempts
        BY <1>1, <3>2 DEF IInv, TypeOK, RowsAgree, ClaimApprovedAction, Claimable
      <4>2. NextToken(b) \in Token /\ ~(NextToken(b) <= fence[b])
        BY <4>1 DEF NextToken, Token
      <4>3. tries[b][NextToken(b)] = "none"
        BY <1>1, <4>2 DEF IInv, RowsAgree
      <4>4. tries' = [tries EXCEPT ![b] =
                         [tries[b] EXCEPT ![NextToken(b)] = "executing"]]
        BY <3>2 DEF ClaimApprovedAction
      <4>. QED BY <3>1, <4>2, <4>3, <4>4
    <3>3. ASSUME NEW c \in claims, SettleClaimedAction(c)
          PROVE  tries'[a][n] = tries[a][n]
      <4>1. c.action \in Action /\ c.fence \in Token
        BY <1>1 DEF IInv, TypeOK, Claim
      <4>2. ASSUME NEW o, CloseTry(c, o)
            PROVE  tries'[a][n] = tries[a][n]
        BY <3>1, <4>1, <4>2 DEF CloseTry
      <4>. QED BY <3>3, <4>2 DEF SettleClaimedAction, SettleSuccess,
                                 SettleRetry, SettleFailure, SettleStale
    <3>4. ASSUME NEW b \in Action, RecoverExpiredAction(b)
          PROVE  tries'[a][n] = tries[a][n]
      <4>1. status[b] = "executing" /\ fence[b] \in Token
        BY <1>1, <3>4
           DEF IInv, TypeOK, RowsAgree, RecoverExpiredAction, Recoverable, Token
      <4>2. tries[b][fence[b]] = "executing"
        BY <1>1, <4>1 DEF IInv, RowsAgree
      <4>3. tries' = [tries EXCEPT ![b] =
                         [tries[b] EXCEPT ![fence[b]] = "interrupted"]]
        BY <3>4 DEF RecoverExpiredAction, InterruptTry
      <4>. QED BY <3>1, <4>1, <4>2, <4>3
    <3>5. \/ tries' = tries
          \/ \E k \in Worker, b \in Action : ClaimApprovedAction(k, b)
          \/ \E c \in claims : SettleClaimedAction(c)
          \/ \E b \in Action : RecoverExpiredAction(b)
      BY <1>1 DEF Next, ProposeExternalAction, ApproveExternalAction,
            RejectExternalAction, WorkerCrash, LeaseExpires, BackoffElapses,
            AgentStartsRun, AgentEndsRun, vars, gatewayVars
    <3>. QED BY <3>2, <3>3, <3>4, <3>5
  <2>. QED BY <2>2, <2>3
<1>2. IInv /\ ClaimsAreFenced /\ [Next]_vars => [Final]_vars
  BY <1>1
<1>. QED BY <1>2, InductiveInvariant, PTL DEF Spec, SettledIsFinal

=============================================================================
