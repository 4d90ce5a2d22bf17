---------------------------- MODULE PatchReview ----------------------------
(***************************************************************************)
(* The user's review of what agents propose (useAgentPatchWorkflow.ts,     *)
(* TauriAgentRepository.ts, agent_repository.rs): proposals that arrive    *)
(* from parallel runs, the queue they wait in, applying, rejecting and     *)
(* undoing them, and the restoring of the review from the database when    *)
(* another page is opened or the application starts again.                 *)
(*                                                                         *)
(* A step is what the interface does between two awaits, or one command of *)
(* the database; the reads before a command are one step with what asks    *)
(* for them, so is the write of a click that needs no read before.  The    *)
(* text of a document is the set of what was written into it.  A document  *)
(* that does not exist has revision 0, so that a proposal to create one is *)
(* a patch made for revision 0.  The editor of the open page is            *)
(* DocumentWorkspace, the runs before their proposal are AgentRun, and the *)
(* decisions of the Core itself are AgentRequests.                         *)
(***************************************************************************)
EXTENDS Naturals, Sequences, FiniteSets

CONSTANTS
  Doc,       \* documents
  NewDoc,    \* those that only a proposal creates
  Target,    \* the sets of documents a proposal may be for
  MaxTasks,  \* bound on the tasks; a task is the number of its creation
  MaxUpsets, \* bound on the saves of the user, the pages opened, the restarts and
             \* the failed calls but those of a restore, together
  None       \* no task

Task == 1 .. MaxTasks

ASSUME DocAssumption == NewDoc \subseteq Doc /\ Target \subseteq SUBSET Doc
ASSUME BoundAssumption == {MaxTasks, MaxUpsets} \subseteq Nat
ASSUME NoneAssumption == None \notin Task

VARIABLES
  status,    \* agent_tasks.status
  home,      \* agent_tasks.document_id
  patch,     \* agent_patches.status, of the task's patch for each document
  base,      \* agent_patches.expected_version
  rev,       \* documents.revision
  text,      \* documents.content_json
  tx,        \* agent_document_transactions and the creation transactions
  run,       \* how far the run of each task is with its result
  page,      \* currentDocumentId
  pending,   \* pendingAgentTask and its patch set
  queue,     \* queuedAgentReviews
  last,      \* lastAppliedAgentTask and its transaction
  restoring, \* the latest call of restoreForDocument
  starting,  \* the clean-up of the start is on its way
  applying,  \* the call of applyPendingAgentPatches
  rejects,   \* the calls of rejectPendingAgentPatches, by task
  undoing,   \* the call of rollbackLastAgentTask
  upsets

taskVars == <<status, home, patch, base>>
docVars == <<rev, text, tx>>
reviewVars == <<pending, queue, last>>
vars == <<taskVars, docVars, run, page, reviewVars, restoring, starting, applying,
          rejects, undoing, upsets>>

Maybe == Task \cup {None}
Words == ({"user"} \X (1 .. MaxUpsets)) \cup ({"agent"} \X Task)
Tx == [st : {"none", "applied", "undone"}, rev : Nat, before : SUBSET Words]
NoTx == [st |-> "none", rev |-> 0, before |-> {}]
NotApplying == [at |-> "idle", task |-> None, docs |-> {}, snap |-> [d \in Doc |-> {}]]
NotRestoring == [at |-> "idle", doc |-> page, pending |-> None, last |-> None]

TypeOK ==
  /\ status \in [Task -> {"none", "running", "waiting_confirmation", "completed", "failed"}]
  /\ home \in [Task -> Doc]
  /\ patch \in [Task -> [Doc -> {"none", "proposed", "accepted", "rejected"}]]
  /\ base \in [Task -> [Doc -> Nat]]
  /\ rev \in [Doc -> Nat] /\ text \in [Doc -> SUBSET Words] /\ tx \in [Task -> [Doc -> Tx]]
  /\ run \in [Task -> {"none", "working", "saved", "published", "over"}]
  /\ page \in Doc
  /\ pending \in Maybe /\ queue \in Seq(Task) /\ last \in Maybe
  /\ restoring \in [at : {"idle", "start", "read", "deliver"}, doc : Doc,
                    pending : Maybe, last : Maybe]
  /\ starting \in BOOLEAN
  /\ applying \in [at : {"idle", "write", "written", "report"}, task : Maybe,
                   docs : SUBSET Doc, snap : [Doc -> SUBSET Words]]
  /\ rejects \in [Task -> 0 .. 2]
  /\ undoing \in BOOLEAN
  /\ upsets \in 0 .. MaxUpsets

Init ==
  /\ status = [t \in Task |-> "none"]
  /\ patch = [t \in Task |-> [d \in Doc |-> "none"]] /\ base = [t \in Task |-> [d \in Doc |-> 0]]
  /\ rev = [d \in Doc |-> IF d \in NewDoc THEN 0 ELSE 1] /\ text = [d \in Doc |-> {}]
  /\ tx = [t \in Task |-> [d \in Doc |-> NoTx]]
  /\ run = [t \in Task |-> "none"]
  /\ page \in Doc \ NewDoc
  /\ home = [t \in Task |-> page]
  /\ pending = None /\ queue = <<>> /\ last = None
  /\ restoring = NotRestoring /\ starting = FALSE
  /\ applying = NotApplying
  /\ rejects = [t \in Task |-> 0]
  /\ undoing = FALSE
  /\ upsets = 0

Patches(t) == {d \in Doc : patch[t][d] # "none"}
Upset == upsets < MaxUpsets /\ upsets' = upsets + 1
NoUpset == upsets' = upsets
-----------------------------------------------------------------------------
(* A run and its proposal (agentRunPersistence.ts).                        *)

Start(t) ==
  /\ status[t] = "none" /\ \A u \in Task : u < t => status[u] # "none"
  /\ status' = [status EXCEPT ![t] = "running"] /\ home' = [home EXCEPT ![t] = page]
  /\ run' = [run EXCEPT ![t] = "working"]
  /\ UNCHANGED <<patch, base, docVars, page, reviewVars, restoring, starting, applying,
                 rejects, undoing, upsets>>

\* savePatchSet.  What is created is proposed alone.
Save(t, S) ==
  /\ run[t] = "working"
  /\ S # {} /\ (\E d \in S : rev[d] = 0) => Cardinality(S) = 1
  /\ \A d \in S : rev[d] = 0 => \A u \in Task : patch[u][d] = "none"
  /\ patch' = [patch EXCEPT ![t] = [d \in Doc |-> IF d \in S THEN "proposed" ELSE "none"]]
  /\ base' = [base EXCEPT ![t] = [d \in Doc |-> IF d \in S THEN rev[d] ELSE 0]]
  /\ run' = [run EXCEPT ![t] = "saved"]
  /\ UNCHANGED <<status, home, docVars, page, reviewVars, restoring, starting, applying,
                 rejects, undoing, upsets>>

\* updateTask.
Publish(t) ==
  /\ run[t] = "saved"
  /\ status' = [status EXCEPT ![t] = "waiting_confirmation"]
  /\ run' = [run EXCEPT ![t] = "published"]
  /\ UNCHANGED <<home, patch, base, docVars, page, reviewVars, restoring, starting, applying,
                 rejects, undoing, upsets>>

QueueReview(t) ==
  /\ run[t] = "published"
  /\ IF pending = None THEN pending' = t /\ queue' = queue
                       ELSE queue' = Append(queue, t) /\ pending' = pending
  /\ run' = [run EXCEPT ![t] = "over"]
  /\ UNCHANGED <<taskVars, docVars, page, last, restoring, starting, applying,
                 rejects, undoing, upsets>>

\* A save of the editor, when its revision is the current one.
UserSave(d) ==
  /\ rev[d] > 0 /\ Upset
  /\ rev' = [rev EXCEPT ![d] = @ + 1]
  /\ text' = [text EXCEPT ![d] = @ \cup {<<"user", upsets + 1>>}]
  /\ UNCHANGED <<taskVars, tx, run, page, reviewVars, restoring, starting, applying,
                 rejects, undoing>>
-----------------------------------------------------------------------------
(* restoreForDocument and loadRecoveryState.  Only the latest call sets    *)
(* anything, so a new one takes the place of the one before.               *)

OpenPage(d) ==
  /\ d # page /\ rev[d] > 0 /\ Upset
  /\ page' = d
  /\ restoring' = [at |-> "read", doc |-> d, pending |-> None, last |-> None]
  /\ UNCHANGED <<taskVars, docVars, run, reviewVars, starting, applying, rejects,
                 undoing>>

\* The application ends, with its runs and its calls, and starts again.
Restart ==
  /\ Upset
  /\ run' = [t \in Task |-> IF run[t] = "none" THEN "none" ELSE "over"]
  /\ page' \in {d \in Doc : rev[d] > 0}
  /\ pending' = None /\ queue' = <<>> /\ last' = None
  /\ applying' = NotApplying /\ undoing' = FALSE
  /\ rejects' = [t \in Task |-> 0]
  /\ starting' = TRUE
  /\ restoring' = [at |-> "start", doc |-> page', pending |-> None, last |-> None]
  /\ UNCHANGED <<taskVars, docVars>>

Superseded == {t \in Task : status[t] = "waiting_confirmation" /\ \E u \in Task : u > t /\ status[u] # "none"}

\* cleanup_orphan_agent_tasks and markInterruptedAgentTasks.
CleanUp ==
  /\ starting /\ starting' = FALSE
  /\ status' = [t \in Task |-> IF t \in Superseded THEN "completed"
                               ELSE IF status[t] = "running" THEN "failed" ELSE status[t]]
  /\ patch' = [t \in Task |-> [d \in Doc |->
                 IF t \in Superseded /\ patch[t][d] = "proposed" THEN "rejected" ELSE patch[t][d]]]
  /\ restoring' = IF restoring.at = "start" THEN [restoring EXCEPT !.at = "read"] ELSE restoring
  /\ UNCHANGED <<home, base, docVars, run, page, reviewVars, applying, rejects, undoing, upsets>>

Waiting(d) == {t \in Task : /\ status[t] = "waiting_confirmation"
                            /\ home[t] = d \/ patch[t][d] # "none"}
Newest(S) == {t \in S : \A u \in S : u <= t}

\* The writes that can still be undone from page d.
Undoable(d) == {t \in Task : \E e \in Doc : /\ tx[t][e].st = "applied" /\ tx[t][e].rev = rev[e]
                                            /\ IF base[t][e] = 0 THEN home[t] = d ELSE e = d}

\* loadRecoveryState, its reads in one.  Of several writes the code takes the
\* latest; the model leaves it open.
Read ==
  /\ restoring.at = "read"
  /\ LET d == restoring.doc IN
       \E t, u \in Maybe :
         /\ IF Waiting(d) = {} THEN t = None ELSE t \in Newest(Waiting(d))
         /\ IF Undoable(d) = {} THEN u = None ELSE u \in Undoable(d)
         /\ restoring' = [restoring EXCEPT !.at = "deliver", !.pending = t, !.last = u]
  /\ UNCHANGED <<taskVars, docVars, run, page, reviewVars, starting, applying, rejects,
                 undoing, upsets>>

Deliver ==
  /\ restoring.at = "deliver"
  /\ pending' = restoring.pending /\ last' = restoring.last /\ queue' = <<>>
  /\ restoring' = NotRestoring
  /\ UNCHANGED <<taskVars, docVars, run, page, starting, applying, rejects, undoing, upsets>>

RestoreFails ==
  /\ restoring.at = "read"
  /\ restoring' = NotRestoring
  /\ UNCHANGED <<taskVars, docVars, run, page, reviewVars, starting, applying, rejects, undoing,
                 upsets>>
-----------------------------------------------------------------------------
(* The user decides.                                                       *)

OpenNext ==
  /\ pending' = IF queue = <<>> THEN None ELSE Head(queue)
  /\ queue' = IF queue = <<>> THEN <<>> ELSE Tail(queue)

\* The button is off while a call is on its way; S is what the user selected.
\* The snapshots are loaded and validated, except for what is to be created;
\* unsaved text in the editor fails it too.
Apply(S) ==
  /\ pending # None /\ applying.at = "idle"
  /\ S # {} /\ S \subseteq Patches(pending)
  /\ \E at \in {"write", "report"} :
       /\ at = "write" => \A d \in S : base[pending][d] \in {0, rev[d]}
       /\ applying' = IF at = "report" THEN [NotApplying EXCEPT !.at = "report"]
                      ELSE [at |-> at, task |-> pending, docs |-> S,
                            snap |-> [d \in Doc |-> IF d \in S THEN text[d] ELSE {}]]
  /\ UNCHANGED <<taskVars, docVars, run, page, reviewVars, restoring, starting, rejects,
                 undoing, upsets>>

\* What apply_agent_patch_set asks of the task, its patches and the documents.
\* Mutants ask for the task only, and for everything but the revision.
WritableTask(t, S) == status[t] = "waiting_confirmation"
WritableAnyhow(t, S) == /\ status[t] = "waiting_confirmation"
                        /\ \A d \in Patches(t) : patch[t][d] = "proposed"
                        /\ \A d \in S : rev[d] > 0 \/ base[t][d] = 0
Writable(t, S) ==
  /\ status[t] = "waiting_confirmation"
  /\ \A d \in Patches(t) : patch[t][d] = "proposed"
  /\ \A d \in S : rev[d] = base[t][d]

Write ==
  /\ applying.at = "write"
  /\ LET t == applying.task  S == applying.docs IN
       /\ Writable(t, S)
       /\ patch' = [patch EXCEPT ![t] = [d \in Doc |->
                      IF d \in S THEN "accepted" ELSE IF @[d] = "none" THEN "none" ELSE "rejected"]]
       /\ rev' = [d \in Doc |-> IF d \in S THEN rev[d] + 1 ELSE rev[d]]
       /\ text' = [d \in Doc |-> IF d \in S THEN applying.snap[d] \cup {<<"agent", t>>} ELSE text[d]]
       /\ tx' = [tx EXCEPT ![t] = [d \in Doc |->
                   IF d \in S THEN [st |-> "applied", rev |-> rev[d] + 1, before |-> text[d]] ELSE @[d]]]
       /\ status' = [status EXCEPT ![t] = "completed"]
  /\ applying' = [NotApplying EXCEPT !.at = "written", !.task = applying.task]
  /\ UNCHANGED <<home, base, run, page, reviewVars, restoring, starting, rejects, undoing, upsets>>

\* The command is refused or fails, or the documents cannot be read after it.
ApplyFails ==
  /\ \/ applying.at = "write" /\ ~Writable(applying.task, applying.docs) /\ NoUpset
     \/ applying.at \in {"write", "written"} /\ Upset
  /\ applying' = [NotApplying EXCEPT !.at = "report"]
  /\ UNCHANGED <<taskVars, docVars, run, page, reviewVars, restoring, starting, rejects, undoing>>

\* completeTask.
Finish ==
  /\ applying.at = "written"
  /\ last' = applying.task /\ OpenNext
  /\ applying' = NotApplying
  /\ UNCHANGED <<taskVars, docVars, run, page, restoring, starting, rejects, undoing, upsets>>

\* reportPendingAgentError: of the task that is pending by now.
Report ==
  /\ applying.at = "report"
  /\ status' = IF pending = None THEN status ELSE [status EXCEPT ![pending] = "waiting_confirmation"]
  /\ applying' = NotApplying
  /\ UNCHANGED <<home, patch, base, docVars, run, page, reviewVars, restoring, starting,
                 rejects, undoing, upsets>>

\* The button stays on until the database answered.
Reject ==
  /\ pending # None /\ applying.at = "idle"
  /\ rejects[pending] < 2
  /\ rejects' = [rejects EXCEPT ![pending] = @ + 1]
  /\ UNCHANGED <<taskVars, docVars, run, page, reviewVars, restoring, starting, applying,
                 undoing, upsets>>

\* A mutant of Rejection: the patches of the set are left as they are.
RejectionOfTask(t) == patch[t]
Rejection(t) == [d \in Doc |-> IF patch[t][d] = "none" THEN "none" ELSE "rejected"]

\* The task and its patches are written whatever they are by then.
RejectEnds(t) ==
  /\ rejects[t] > 0
  /\ patch' = [patch EXCEPT ![t] = Rejection(t)]
  /\ status' = [status EXCEPT ![t] = "completed"]
  /\ rejects' = [rejects EXCEPT ![t] = @ - 1]
  /\ OpenNext
  /\ UNCHANGED <<home, base, docVars, run, page, last, restoring, starting, applying,
                 undoing, upsets>>

RejectFails(t) ==
  /\ rejects[t] > 0 /\ Upset
  /\ rejects' = [rejects EXCEPT ![t] = @ - 1]
  /\ UNCHANGED <<taskVars, docVars, run, page, reviewVars, restoring, starting, applying, undoing>>

Written(t) == {d \in Doc : tx[t][d].st # "none"}
Revertible(t) == \A d \in Written(t) : tx[t][d].st = "applied" /\ rev[d] = tx[t][d].rev

\* The offer is shown on the page the task was started from.
Undo ==
  /\ last # None /\ home[last] = page /\ ~undoing
  /\ LET t == last  S == Written(t) IN
       /\ Revertible(t)
       /\ rev' = [d \in Doc |-> IF d \notin S THEN rev[d] ELSE IF base[t][d] = 0 THEN 0 ELSE rev[d] + 1]
       /\ text' = [d \in Doc |-> IF d \in S THEN tx[t][d].before ELSE text[d]]
       /\ tx' = [tx EXCEPT ![t] = [d \in Doc |-> IF d \in S THEN [@[d] EXCEPT !.st = "undone"] ELSE @[d]]]
  /\ undoing' = TRUE
  /\ UNCHANGED <<taskVars, run, page, reviewVars, restoring, starting, applying, rejects, upsets>>

\* The documents cannot be read after it: the offer stays.
UndoFails ==
  /\ undoing /\ Upset
  /\ undoing' = FALSE
  /\ UNCHANGED <<taskVars, docVars, run, page, reviewVars, restoring, starting, applying, rejects>>

\* It is the latest offer that goes, whichever write was undone.
UndoDone ==
  /\ undoing
  /\ last' = None
  /\ undoing' = FALSE
  /\ UNCHANGED <<taskVars, docVars, run, page, pending, queue, restoring, starting, applying,
                 rejects, upsets>>
-----------------------------------------------------------------------------
Next ==
  \/ \E t \in Task : \/ Start(t) \/ QueueReview(t) \/ Publish(t) \/ \E S \in Target : Save(t, S)
                      \/ RejectEnds(t) \/ RejectFails(t)
  \/ \E d \in Doc : UserSave(d) \/ OpenPage(d)
  \/ Restart \/ CleanUp \/ Read \/ Deliver \/ RestoreFails
  \/ \E S \in SUBSET Doc : Apply(S)
  \/ Write \/ ApplyFails \/ Finish \/ Report
  \/ Reject
  \/ Undo \/ UndoFails \/ UndoDone

Spec == Init /\ [][Next]_vars
-----------------------------------------------------------------------------
(* Properties.                                                             *)

\* What a proposal adds to a document is added by one transaction, whatever
\* became of the task's status meanwhile: the write that succeeded but could not
\* be read back is offered again, and applying it again writes nothing.
ProposalIsWrittenOnce ==
  [][\A t \in Task, d \in Doc :
       tx[t][d].st # "none" => tx'[t][d] \in {tx[t][d], [tx[t][d] EXCEPT !.st = "undone"]}]_vars

\* A write and its undoing add or remove their own words only: neither takes away
\* what the user or another proposal wrote into the document since it was read.
WritesKeepTheRest ==
  [][\A d \in Doc : text'[d] # text[d] =>
       \/ \E w \in Words : text'[d] = text[d] \cup {w}
       \/ \E t \in Task : text'[d] = text[d] \ {<<"agent", t>>}]_vars

\* A task is completed only when each of its patches is decided, by the user or by
\* the clean-up of the start: what stays proposed under a completed task could
\* never be applied or rejected any more.
CompletedIsDecided ==
  \A t \in Task : status[t] = "completed" => \A d \in Doc : patch[t][d] # "proposed"

\* Said by the code and a test, and not so: a task that waits for the user has not
\* been written ("the write is not complete, check and try again").
WaitingIsUnwritten ==
  \A t \in Task : status[t] = "waiting_confirmation" => \A d \in Doc : patch[t][d] # "accepted"

\* Not so either: what was written stays recorded as accepted.
AcceptedStaysAccepted ==
  [][\A t \in Task, d \in Doc : patch[t][d] = "accepted" => patch'[t][d] = "accepted"]_vars

\* Nor this: the review passes on from a task only after its decision.
NoReviewIsSkipped ==
  [][pending # None /\ pending' # pending /\ restoring' = restoring =>
       status'[pending] # "waiting_confirmation"]_vars

\* Nor this: a proposal is up for review once.
ReviewedOnce ==
  /\ pending \notin {queue[i] : i \in 1 .. Len(queue)}
  /\ \A i, j \in 1 .. Len(queue) : queue[i] = queue[j] => i = j
=============================================================================
