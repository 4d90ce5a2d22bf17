------------------------- MODULE PatchReviewProofs -------------------------
(* Theorems about PatchReview, for any documents, any proposals and any     *)
(* bounds.                                                                  *)
EXTENDS PatchReview, SequenceTheorems, TLAPS

LEMMA BoundsAreNat == MaxTasks \in Nat /\ MaxUpsets \in Nat
BY BoundAssumption

USE DocAssumption, NoneAssumption, BoundsAreNat

\* The tasks whose run has published its proposal, or is over.
Known == {t \in Task : run[t] \in {"published", "over"}}

-----------------------------------------------------------------------------
(* The inductive invariant: what its parts say, and why they are needed.    *)

\* A task exists when its run does, so that no run begins for a known task.
Started == \A t \in Task : status[t] = "none" => run[t] = "none"

\* Before its run has published it, a task is not up for a decision, and before
\* the run has saved them it has no patches.
Proposed ==
  \A t \in Task :
    /\ t \notin Known => status[t] \in {"none", "running", "failed"}
    /\ run[t] \in {"none", "working"} => \A d \in Doc : patch[t][d] = "none"

\* Whatever the review, a restore or a call names is a known task: no run saves
\* its patches while the user decides on them.
UnderReview ==
  /\ pending \in Known \cup {None} /\ queue \in Seq(Known)
  /\ restoring.pending \in Known \cup {None}
  /\ applying.at \in {"write", "written"} => applying.task \in Known
  /\ \A t \in Task : rejects[t] > 0 => t \in Known

\* What is written has been decided.
Recorded ==
  \A t \in Task, d \in Doc :
    /\ patch[t][d] = "none" => base[t][d] = 0
    /\ patch[t][d] \in {"none", "proposed"} => tx[t][d].st = "none"

\* A document is created by one proposal, before any other knows it.
CreatedOnce ==
  \A d \in Doc, t \in Task :
    patch[t][d] # "none" /\ base[t][d] = 0 =>
      /\ \A u \in Task : patch[u][d] # "none" /\ base[u][d] = 0 => u = t
      /\ rev[d] = 0 /\ patch[t][d] = "proposed" =>
           \A u \in Task : base[u][d] = 0 /\ tx[u][d].st = "none"

\* The revision of a document that exists never falls behind one that was read
\* from it.
RevisionsGrow ==
  \A t \in Task, d \in Doc :
    /\ rev[d] = 0 \/ base[t][d] <= rev[d]
    /\ tx[t][d].st # "none" => tx[t][d].rev > 0 /\ (rev[d] = 0 \/ tx[t][d].rev <= rev[d])

\* The text a write was computed from is the current one, if the write is going to
\* be accepted.
ReadIsCurrent ==
  applying.at = "write" =>
    \A d \in applying.docs :
      /\ patch[applying.task][d] # "none"
      /\ patch[applying.task][d] = "proposed" /\ rev[d] = base[applying.task][d] =>
           applying.snap[d] = text[d]

\* What a task wrote stands in its document only after its transaction, and alone
\* on top of the text before as long as the revision is that of the transaction.
OwnWords ==
  \A t \in Task, d \in Doc :
    /\ <<"agent", t>> \in text[d] => tx[t][d].st # "none"
    /\ tx[t][d].st # "none" => <<"agent", t>> \notin tx[t][d].before
    /\ tx[t][d].st = "applied" /\ rev[d] = tx[t][d].rev =>
         text[d] = tx[t][d].before \cup {<<"agent", t>>}

-----------------------------------------------------------------------------
(* Type correctness. *)

\* The next review is one of those that were queued.
LEMMA OpenNextTyped ==
  ASSUME NEW K, pending \in K \cup {None}, queue \in Seq(K), OpenNext
  PROVE  pending' \in K \cup {None} /\ queue' \in Seq(K)
<1>1. CASE queue = <<>>
  BY <1>1 DEF OpenNext
<1>2. CASE queue # <<>>
  BY <1>2, HeadTailProperties DEF OpenNext
<1>. QED BY <1>1, <1>2

\* The calls of applyPendingAgentPatches and of restoreForDocument.
Applying == [at : {"idle", "write", "written", "report"}, task : Maybe,
             docs : SUBSET Doc, snap : [Doc -> SUBSET Words]]
Restoring == [at : {"idle", "start", "read", "deliver"}, doc : Doc,
              pending : Maybe, last : Maybe]

LEMMA CallsTyped ==
  /\ NotApplying \in Applying
  /\ \A at \in {"idle", "write", "written", "report"}, t \in Maybe :
       /\ [NotApplying EXCEPT !.at = at] \in Applying
       /\ [NotApplying EXCEPT !.at = at, !.task = t] \in Applying
  /\ page \in Doc => NotRestoring \in Restoring
  /\ \A at \in {"idle", "start", "read", "deliver"}, d \in Doc :
       [at |-> at, doc |-> d, pending |-> None, last |-> None] \in Restoring
  /\ restoring \in Restoring =>
       \A at \in {"idle", "start", "read", "deliver"} :
         /\ [restoring EXCEPT !.at = at] \in Restoring
         /\ \A t, u \in Maybe :
              [restoring EXCEPT !.at = at, !.pending = t, !.last = u] \in Restoring
BY DEF Applying, Restoring, NotApplying, NotRestoring, Maybe

\* TypeOK by the groups of variables.
TaskTyped ==
  /\ status \in [Task -> {"none", "running", "waiting_confirmation", "completed", "failed"}]
  /\ home \in [Task -> Doc]
  /\ patch \in [Task -> [Doc -> {"none", "proposed", "accepted", "rejected"}]]
  /\ base \in [Task -> [Doc -> Nat]]
  /\ run \in [Task -> {"none", "working", "saved", "published", "over"}]
DocTyped ==
  /\ rev \in [Doc -> Nat] /\ text \in [Doc -> SUBSET Words] /\ tx \in [Task -> [Doc -> Tx]]
ViewTyped ==
  /\ page \in Doc
  /\ pending \in Maybe /\ queue \in Seq(Task) /\ last \in Maybe
CallTyped ==
  /\ restoring \in Restoring /\ starting \in BOOLEAN /\ applying \in Applying
  /\ rejects \in [Task -> 0 .. 2] /\ undoing \in BOOLEAN /\ upsets \in 0 .. MaxUpsets

Typed == TaskTyped /\ DocTyped /\ ViewTyped /\ CallTyped

LEMMA TypedImpliesTypeOK == Typed => TypeOK
BY DEF Typed, TypeOK, TaskTyped, DocTyped, ViewTyped, CallTyped, Restoring, Applying

LEMMA UpsetTyped == (Upset \/ NoUpset) /\ upsets \in 0 .. MaxUpsets => upsets' \in 0 .. MaxUpsets
BY DEF Upset, NoUpset

LEMMA TypeInit == Init => Typed
<1>. SUFFICES ASSUME Init PROVE Typed
  OBVIOUS
<1>1. TaskTyped /\ ViewTyped
  BY DEF Init, TaskTyped, ViewTyped, Maybe
<1>2. DocTyped
  BY DEF Init, DocTyped, Tx, NoTx
<1>3. CallTyped
  <2>1. restoring \in Restoring /\ applying \in Applying
    BY <1>1, CallsTyped DEF Init, ViewTyped
  <2>2. rejects \in [Task -> 0 .. 2] /\ upsets \in 0 .. MaxUpsets
    BY DEF Init
  <2>. QED BY <2>1, <2>2 DEF Init, CallTyped
<1>. QED BY <1>1, <1>2, <1>3 DEF Typed

\* Every step keeps the variables typed.
LEMMA TypeStep == Typed /\ UnderReview /\ [Next]_vars => Typed'
<1>. SUFFICES ASSUME Typed, UnderReview, [Next]_vars PROVE Typed'
  OBVIOUS
<1>. USE DEF Typed
<1>1. ASSUME NEW t \in Task, Start(t) PROVE Typed'
  <2>1. TaskTyped'
    BY <1>1 DEF Start, taskVars, docVars, reviewVars, TaskTyped, ViewTyped
  <2>2. DocTyped'
    BY <1>1 DEF Start, taskVars, docVars, reviewVars, DocTyped
  <2>3. ViewTyped'
    BY <1>1 DEF Start, taskVars, docVars, reviewVars, ViewTyped
  <2>4. CallTyped'
    BY <1>1 DEF Start, taskVars, docVars, reviewVars, CallTyped
  <2>. QED BY <2>1, <2>2, <2>3, <2>4
<1>2. ASSUME NEW t \in Task, QueueReview(t) PROVE Typed'
  <2>1. TaskTyped'
    BY <1>2 DEF QueueReview, taskVars, docVars, reviewVars, TaskTyped
  <2>2. DocTyped'
    BY <1>2 DEF QueueReview, taskVars, docVars, reviewVars, DocTyped
  <2>3. ViewTyped'
    <3>1. Append(queue, t) \in Seq(Task)
      BY AppendProperties DEF ViewTyped
    <3>. QED BY <1>2, <3>1 DEF QueueReview, ViewTyped, Maybe
  <2>4. CallTyped'
    BY <1>2 DEF QueueReview, taskVars, docVars, reviewVars, CallTyped
  <2>. QED BY <2>1, <2>2, <2>3, <2>4
<1>3. ASSUME NEW t \in Task, Publish(t) PROVE Typed'
  <2>1. TaskTyped'
    BY <1>3 DEF Publish, taskVars, docVars, reviewVars, TaskTyped
  <2>2. DocTyped'
    BY <1>3 DEF Publish, taskVars, docVars, reviewVars, DocTyped
  <2>3. ViewTyped'
    BY <1>3 DEF Publish, taskVars, docVars, reviewVars, ViewTyped
  <2>4. CallTyped'
    BY <1>3 DEF Publish, taskVars, docVars, reviewVars, CallTyped
  <2>. QED BY <2>1, <2>2, <2>3, <2>4
<1>4. ASSUME NEW t \in Task, NEW S \in Target, Save(t, S) PROVE Typed'
  <2>1. TaskTyped'
    BY <1>4 DEF Save, taskVars, docVars, reviewVars, TaskTyped, DocTyped
  <2>2. DocTyped'
    BY <1>4 DEF Save, taskVars, docVars, reviewVars, DocTyped
  <2>3. ViewTyped'
    BY <1>4 DEF Save, taskVars, docVars, reviewVars, ViewTyped
  <2>4. CallTyped'
    BY <1>4 DEF Save, taskVars, docVars, reviewVars, CallTyped
  <2>. QED BY <2>1, <2>2, <2>3, <2>4
<1>5. ASSUME NEW t \in Task, RejectEnds(t) PROVE Typed'
  <2>1. TaskTyped'
    BY <1>5 DEF RejectEnds, OpenNext, taskVars, docVars, reviewVars, TaskTyped, Rejection
  <2>2. DocTyped'
    BY <1>5 DEF RejectEnds, OpenNext, taskVars, docVars, reviewVars, DocTyped
  <2>3. ViewTyped'
    BY <1>5, OpenNextTyped DEF RejectEnds, ViewTyped, Maybe
  <2>4. CallTyped'
    BY <1>5 DEF RejectEnds, OpenNext, taskVars, docVars, reviewVars, CallTyped
  <2>. QED BY <2>1, <2>2, <2>3, <2>4
<1>6. ASSUME NEW t \in Task, RejectFails(t) PROVE Typed'
  <2>1. TaskTyped'
    BY <1>6 DEF RejectFails, Upset, taskVars, docVars, reviewVars, TaskTyped
  <2>2. DocTyped'
    BY <1>6 DEF RejectFails, Upset, taskVars, docVars, reviewVars, DocTyped
  <2>3. ViewTyped'
    BY <1>6 DEF RejectFails, Upset, taskVars, docVars, reviewVars, ViewTyped
  <2>4. CallTyped'
    <3>1. upsets' \in 0 .. MaxUpsets
      BY <1>6, UpsetTyped DEF RejectFails, CallTyped
    <3>2. restoring' \in Restoring
      BY <1>6, CallsTyped DEF RejectFails, CallTyped
    <3>3. rejects' \in [Task -> 0 .. 2]
      BY <1>6 DEF RejectFails, CallTyped
    <3>4. applying' \in Applying
      BY <1>6, CallsTyped DEF RejectFails, CallTyped
    <3>. QED BY <1>6, <3>1, <3>2, <3>3, <3>4 DEF RejectFails, CallTyped
  <2>. QED BY <2>1, <2>2, <2>3, <2>4
<1>7. ASSUME NEW d \in Doc, UserSave(d) PROVE Typed'
  <2>0. <<"user", upsets + 1>> \in Words
    BY <1>7 DEF UserSave, Upset, Words, CallTyped
  <2>1. TaskTyped'
    BY <1>7 DEF UserSave, Upset, taskVars, docVars, reviewVars, TaskTyped
  <2>2. DocTyped'
    BY <1>7, <2>0 DEF UserSave, Upset, taskVars, docVars, reviewVars, DocTyped
  <2>3. ViewTyped'
    BY <1>7 DEF UserSave, Upset, taskVars, docVars, reviewVars, ViewTyped
  <2>4. CallTyped'
    BY <1>7, UpsetTyped DEF UserSave, Upset, taskVars, docVars, reviewVars, CallTyped
  <2>. QED BY <2>1, <2>2, <2>3, <2>4
<1>8. ASSUME NEW d \in Doc, OpenPage(d) PROVE Typed'
  <2>1. TaskTyped'
    BY <1>8 DEF OpenPage, Upset, taskVars, docVars, reviewVars, TaskTyped
  <2>2. DocTyped'
    BY <1>8 DEF OpenPage, Upset, taskVars, docVars, reviewVars, DocTyped
  <2>3. ViewTyped'
    BY <1>8 DEF OpenPage, Upset, taskVars, docVars, reviewVars, ViewTyped
  <2>4. CallTyped'
    BY <1>8, UpsetTyped, CallsTyped DEF OpenPage, Upset, taskVars, docVars, reviewVars, CallTyped
  <2>. QED BY <2>1, <2>2, <2>3, <2>4
<1>9. CASE Restart
  <2>1. TaskTyped'
    BY <1>9 DEF Restart, Upset, taskVars, docVars, reviewVars, TaskTyped
  <2>2. DocTyped'
    BY <1>9 DEF Restart, Upset, taskVars, docVars, reviewVars, DocTyped
  <2>3. ViewTyped'
    BY <1>9 DEF Restart, Upset, taskVars, docVars, reviewVars, ViewTyped, Maybe
  <2>4. CallTyped'
    <3>1. upsets' \in 0 .. MaxUpsets
      BY <1>9, UpsetTyped DEF Restart, CallTyped
    <3>2. restoring' \in Restoring
      BY <1>9, CallsTyped DEF Restart, CallTyped
    <3>3. rejects' \in [Task -> 0 .. 2]
      BY <1>9 DEF Restart, CallTyped
    <3>4. applying' \in Applying
      BY <1>9, CallsTyped DEF Restart, CallTyped
    <3>. QED BY <1>9, <3>1, <3>2, <3>3, <3>4 DEF Restart, CallTyped
  <2>. QED BY <2>1, <2>2, <2>3, <2>4
<1>10. CASE CleanUp
  <2>1. TaskTyped'
    BY <1>10 DEF CleanUp, taskVars, docVars, reviewVars, TaskTyped
  <2>2. DocTyped'
    BY <1>10 DEF CleanUp, taskVars, docVars, reviewVars, DocTyped
  <2>3. ViewTyped'
    BY <1>10 DEF CleanUp, taskVars, docVars, reviewVars, ViewTyped
  <2>4. CallTyped'
    <3>1. upsets' \in 0 .. MaxUpsets
      BY <1>10, UpsetTyped DEF CleanUp, CallTyped
    <3>2. restoring' \in Restoring
      BY <1>10, CallsTyped DEF CleanUp, CallTyped
    <3>3. rejects' \in [Task -> 0 .. 2]
      BY <1>10 DEF CleanUp, CallTyped
    <3>4. applying' \in Applying
      BY <1>10, CallsTyped DEF CleanUp, CallTyped
    <3>. QED BY <1>10, <3>1, <3>2, <3>3, <3>4 DEF CleanUp, CallTyped
  <2>. QED BY <2>1, <2>2, <2>3, <2>4
<1>11. CASE Read
  <2>0. PICK t, u \in Maybe :
          restoring' = [restoring EXCEPT !.at = "deliver", !.pending = t, !.last = u]
    BY <1>11 DEF Read
  <2>1. TaskTyped'
    BY <1>11 DEF Read, taskVars, docVars, reviewVars, TaskTyped
  <2>2. DocTyped'
    BY <1>11 DEF Read, taskVars, docVars, reviewVars, DocTyped
  <2>3. ViewTyped'
    BY <1>11 DEF Read, taskVars, docVars, reviewVars, ViewTyped
  <2>4. CallTyped'
    BY <1>11, <2>0, CallsTyped DEF Read, taskVars, docVars, reviewVars, CallTyped
  <2>. QED BY <2>1, <2>2, <2>3, <2>4
<1>12. CASE Deliver
  <2>1. TaskTyped'
    BY <1>12 DEF Deliver, taskVars, docVars, reviewVars, TaskTyped
  <2>2. DocTyped'
    BY <1>12 DEF Deliver, taskVars, docVars, reviewVars, DocTyped
  <2>3. ViewTyped'
    BY <1>12 DEF Deliver, taskVars, docVars, reviewVars, ViewTyped, CallTyped, Restoring
  <2>4. CallTyped'
    BY <1>12, CallsTyped DEF Deliver, taskVars, docVars, reviewVars, CallTyped, ViewTyped
  <2>. QED BY <2>1, <2>2, <2>3, <2>4
<1>13. CASE RestoreFails
  <2>1. TaskTyped'
    BY <1>13 DEF RestoreFails, taskVars, docVars, reviewVars, TaskTyped
  <2>2. DocTyped'
    BY <1>13 DEF RestoreFails, taskVars, docVars, reviewVars, DocTyped
  <2>3. ViewTyped'
    BY <1>13 DEF RestoreFails, taskVars, docVars, reviewVars, ViewTyped
  <2>4. CallTyped'
    BY <1>13, UpsetTyped, CallsTyped DEF RestoreFails, taskVars, docVars, reviewVars, CallTyped, ViewTyped
  <2>. QED BY <2>1, <2>2, <2>3, <2>4
<1>14. ASSUME NEW S \in SUBSET Doc, Apply(S) PROVE Typed'
  <2>0. applying' \in Applying
    <3>1. PICK at \in {"write", "report"} :
            applying' = IF at = "report" THEN [NotApplying EXCEPT !.at = "report"]
                        ELSE [at |-> at, task |-> pending, docs |-> S,
                              snap |-> [d \in Doc |-> IF d \in S THEN text[d] ELSE {}]]
      BY <1>14 DEF Apply
    <3>2. [d \in Doc |-> IF d \in S THEN text[d] ELSE {}] \in [Doc -> SUBSET Words]
      BY DEF DocTyped
    <3>3. [at |-> at, task |-> pending, docs |-> S,
           snap |-> [d \in Doc |-> IF d \in S THEN text[d] ELSE {}]] \in Applying
      BY <3>2 DEF Applying, ViewTyped
    <3>4. [NotApplying EXCEPT !.at = "report"] \in Applying
      BY CallsTyped DEF Maybe
    <3>. QED BY <3>1, <3>3, <3>4
  <2>1. TaskTyped'
    BY <1>14 DEF Apply, taskVars, docVars, reviewVars, TaskTyped
  <2>2. DocTyped'
    BY <1>14 DEF Apply, taskVars, docVars, reviewVars, DocTyped
  <2>3. ViewTyped'
    BY <1>14 DEF Apply, taskVars, docVars, reviewVars, ViewTyped
  <2>4. CallTyped'
    BY <1>14, <2>0 DEF Apply, taskVars, docVars, reviewVars, CallTyped
  <2>. QED BY <2>1, <2>2, <2>3, <2>4
<1>15. CASE Write
  <2>. DEFINE t == applying.task
  <2>a. applying.snap \in [Doc -> SUBSET Words] /\ applying.docs \subseteq Doc /\ t \in Task
    BY <1>15 DEF Write, UnderReview, Known, CallTyped, Applying
  <2>b. <<"agent", t>> \in Words
    BY <2>a DEF Words
  <2>c. \A d \in Doc : [st |-> "applied", rev |-> rev[d] + 1, before |-> text[d]] \in Tx
    BY DEF DocTyped, Tx
  <2>1. TaskTyped'
    BY <1>15, <2>a DEF Write, taskVars, docVars, reviewVars, TaskTyped
  <2>2. DocTyped'
    <3>1. rev' \in [Doc -> Nat]
      BY <1>15 DEF Write, DocTyped
    <3>2. text' \in [Doc -> SUBSET Words]
      BY <1>15, <2>a, <2>b DEF Write, DocTyped
    <3>3. tx' \in [Task -> [Doc -> Tx]]
      BY <1>15, <2>a, <2>c DEF Write, DocTyped
    <3>. QED BY <3>1, <3>2, <3>3 DEF DocTyped
  <2>3. ViewTyped'
    BY <1>15 DEF Write, taskVars, docVars, reviewVars, ViewTyped
  <2>4. CallTyped'
    BY <1>15, <2>a, CallsTyped DEF Write, taskVars, docVars, reviewVars, CallTyped, Maybe
  <2>. QED BY <2>1, <2>2, <2>3, <2>4
<1>16. CASE ApplyFails
  <2>1. TaskTyped'
    BY <1>16 DEF ApplyFails, Upset, NoUpset, taskVars, docVars, reviewVars, TaskTyped
  <2>2. DocTyped'
    BY <1>16 DEF ApplyFails, Upset, NoUpset, taskVars, docVars, reviewVars, DocTyped
  <2>3. ViewTyped'
    BY <1>16 DEF ApplyFails, Upset, NoUpset, taskVars, docVars, reviewVars, ViewTyped
  <2>4. CallTyped'
    BY <1>16, UpsetTyped, CallsTyped DEF ApplyFails, Upset, NoUpset, taskVars, docVars, reviewVars, CallTyped, ViewTyped
  <2>. QED BY <2>1, <2>2, <2>3, <2>4
<1>17. CASE Finish
  <2>1. TaskTyped'
    BY <1>17 DEF Finish, OpenNext, taskVars, docVars, reviewVars, TaskTyped
  <2>2. DocTyped'
    BY <1>17 DEF Finish, OpenNext, taskVars, docVars, reviewVars, DocTyped
  <2>3. ViewTyped'
    BY <1>17, OpenNextTyped DEF Finish, ViewTyped, CallTyped, Applying, Maybe
  <2>4. CallTyped'
    BY <1>17, CallsTyped DEF Finish, OpenNext, taskVars, docVars, reviewVars, CallTyped
  <2>. QED BY <2>1, <2>2, <2>3, <2>4
<1>18. CASE Report
  <2>1. TaskTyped'
    BY <1>18 DEF Report, taskVars, docVars, reviewVars, TaskTyped, ViewTyped, Maybe
  <2>2. DocTyped'
    BY <1>18 DEF Report, taskVars, docVars, reviewVars, DocTyped
  <2>3. ViewTyped'
    BY <1>18 DEF Report, taskVars, docVars, reviewVars, ViewTyped
  <2>4. CallTyped'
    BY <1>18, CallsTyped DEF Report, taskVars, docVars, reviewVars, CallTyped, Maybe
  <2>. QED BY <2>1, <2>2, <2>3, <2>4
<1>19. CASE Reject
  <2>1. TaskTyped'
    BY <1>19 DEF Reject, taskVars, docVars, reviewVars, TaskTyped
  <2>2. DocTyped'
    BY <1>19 DEF Reject, taskVars, docVars, reviewVars, DocTyped
  <2>3. ViewTyped'
    BY <1>19 DEF Reject, taskVars, docVars, reviewVars, ViewTyped
  <2>4. CallTyped'
    BY <1>19 DEF Reject, taskVars, docVars, reviewVars, CallTyped, ViewTyped, Maybe
  <2>. QED BY <2>1, <2>2, <2>3, <2>4
<1>20. CASE Undo
  <2>. DEFINE t == last
  <2>a. t \in Task
    BY <1>20 DEF Undo, ViewTyped, Maybe
  <2>b. \A d \in Doc : tx[t][d] \in Tx
    BY <2>a DEF DocTyped
  <2>c. \A d \in Doc : tx[t][d].before \in SUBSET Words /\ [tx[t][d] EXCEPT !.st = "undone"] \in Tx
    BY <2>b DEF Tx
  <2>1. TaskTyped'
    BY <1>20 DEF Undo, taskVars, docVars, reviewVars, TaskTyped
  <2>2. DocTyped'
    <3>1. rev' \in [Doc -> Nat]
      BY <1>20 DEF Undo, DocTyped
    <3>2. text' \in [Doc -> SUBSET Words]
      BY <1>20, <2>c DEF Undo, DocTyped
    <3>3. tx' \in [Task -> [Doc -> Tx]]
      BY <1>20, <2>a, <2>c DEF Undo, DocTyped
    <3>. QED BY <3>1, <3>2, <3>3 DEF DocTyped
  <2>3. ViewTyped'
    BY <1>20 DEF Undo, taskVars, docVars, reviewVars, ViewTyped
  <2>4. CallTyped'
    BY <1>20 DEF Undo, taskVars, docVars, reviewVars, CallTyped
  <2>. QED BY <2>1, <2>2, <2>3, <2>4
<1>21. CASE UndoFails
  <2>1. TaskTyped'
    BY <1>21 DEF UndoFails, Upset, taskVars, docVars, reviewVars, TaskTyped
  <2>2. DocTyped'
    BY <1>21 DEF UndoFails, Upset, taskVars, docVars, reviewVars, DocTyped
  <2>3. ViewTyped'
    BY <1>21 DEF UndoFails, Upset, taskVars, docVars, reviewVars, ViewTyped
  <2>4. CallTyped'
    BY <1>21, UpsetTyped, CallsTyped DEF UndoFails, Upset, taskVars, docVars, reviewVars, CallTyped, ViewTyped
  <2>. QED BY <2>1, <2>2, <2>3, <2>4
<1>22. CASE UndoDone
  <2>1. TaskTyped'
    BY <1>22 DEF UndoDone, taskVars, docVars, reviewVars, TaskTyped
  <2>2. DocTyped'
    BY <1>22 DEF UndoDone, taskVars, docVars, reviewVars, DocTyped
  <2>3. ViewTyped'
    BY <1>22 DEF UndoDone, taskVars, docVars, reviewVars, ViewTyped, Maybe
  <2>4. CallTyped'
    BY <1>22 DEF UndoDone, taskVars, docVars, reviewVars, CallTyped
  <2>. QED BY <2>1, <2>2, <2>3, <2>4
<1>23. CASE UNCHANGED vars
  <2>1. TaskTyped'
    BY <1>23 DEF vars, taskVars, docVars, reviewVars, TaskTyped
  <2>2. DocTyped'
    BY <1>23 DEF vars, taskVars, docVars, reviewVars, DocTyped
  <2>3. ViewTyped'
    BY <1>23 DEF vars, taskVars, docVars, reviewVars, ViewTyped
  <2>4. CallTyped'
    BY <1>23 DEF vars, taskVars, docVars, reviewVars, CallTyped
  <2>. QED BY <2>1, <2>2, <2>3, <2>4
<1>. QED BY <1>1, <1>2, <1>3, <1>4, <1>5, <1>6, <1>7, <1>8, <1>9, <1>10, <1>11, <1>12,
      <1>13, <1>14, <1>15, <1>16, <1>17, <1>18, <1>19, <1>20, <1>21, <1>22, <1>23 DEF Next

-----------------------------------------------------------------------------
(* The parts of the invariant. *)

\* A task is never forgotten.
LEMMA KnownStep == Typed /\ Started /\ [Next]_vars => Started'
<1>. SUFFICES ASSUME Typed, Started, [Next]_vars PROVE Started'
  OBVIOUS
<1>1. ASSUME NEW t \in Task, Start(t) PROVE Started'
  BY <1>1 DEF Start, taskVars, docVars, reviewVars, Started, Typed, TaskTyped
<1>2. ASSUME NEW t \in Task, QueueReview(t) PROVE Started'
  BY <1>2 DEF QueueReview, taskVars, docVars, reviewVars, Started, Typed, TaskTyped
<1>3. ASSUME NEW t \in Task, Publish(t) PROVE Started'
  BY <1>3 DEF Publish, taskVars, docVars, reviewVars, Started, Typed, TaskTyped
<1>4. ASSUME NEW t \in Task, NEW S \in Target, Save(t, S) PROVE Started'
  BY <1>4 DEF Save, taskVars, docVars, reviewVars, Started, Typed, TaskTyped
<1>5. ASSUME NEW t \in Task, RejectEnds(t) PROVE Started'
  BY <1>5 DEF RejectEnds, OpenNext, taskVars, docVars, reviewVars, Started, Typed, TaskTyped
<1>6. ASSUME NEW t \in Task, RejectFails(t) PROVE Started'
  BY <1>6 DEF RejectFails, Upset, taskVars, docVars, reviewVars, Started, Typed, TaskTyped
<1>7. ASSUME NEW d \in Doc, UserSave(d) PROVE Started'
  BY <1>7 DEF UserSave, Upset, taskVars, docVars, reviewVars, Started, Typed, TaskTyped
<1>8. ASSUME NEW d \in Doc, OpenPage(d) PROVE Started'
  BY <1>8 DEF OpenPage, Upset, taskVars, docVars, reviewVars, Started, Typed, TaskTyped
<1>9. CASE Restart
  BY <1>9 DEF Restart, Upset, taskVars, docVars, reviewVars, Started, Typed, TaskTyped
<1>10. CASE CleanUp
  BY <1>10 DEF CleanUp, taskVars, docVars, reviewVars, Started, Typed, TaskTyped
<1>11. CASE Read
  BY <1>11 DEF Read, taskVars, docVars, reviewVars, Started, Typed, TaskTyped
<1>12. CASE Deliver
  BY <1>12 DEF Deliver, taskVars, docVars, reviewVars, Started, Typed, TaskTyped
<1>13. CASE RestoreFails
  BY <1>13 DEF RestoreFails, taskVars, docVars, reviewVars, Started, Typed, TaskTyped
<1>14. ASSUME NEW S \in SUBSET Doc, Apply(S) PROVE Started'
  BY <1>14 DEF Apply, taskVars, docVars, reviewVars, Started, Typed, TaskTyped
<1>15. CASE Write
  BY <1>15 DEF Write, taskVars, docVars, reviewVars, Started, Typed, TaskTyped
<1>16. CASE ApplyFails
  BY <1>16 DEF ApplyFails, Upset, NoUpset, taskVars, docVars, reviewVars, Started, Typed, TaskTyped
<1>17. CASE Finish
  BY <1>17 DEF Finish, OpenNext, taskVars, docVars, reviewVars, Started, Typed, TaskTyped
<1>18. CASE Report
  BY <1>18 DEF Report, taskVars, docVars, reviewVars, Started, Typed, TaskTyped
<1>19. CASE Reject
  BY <1>19 DEF Reject, taskVars, docVars, reviewVars, Started, Typed, TaskTyped
<1>20. CASE Undo
  BY <1>20 DEF Undo, taskVars, docVars, reviewVars, Started, Typed, TaskTyped
<1>21. CASE UndoFails
  BY <1>21 DEF UndoFails, Upset, taskVars, docVars, reviewVars, Started, Typed, TaskTyped
<1>22. CASE UndoDone
  BY <1>22 DEF UndoDone, taskVars, docVars, reviewVars, Started, Typed, TaskTyped
<1>23. CASE UNCHANGED vars
  BY <1>23 DEF vars, taskVars, docVars, reviewVars, Started, Typed, TaskTyped
<1>. QED BY <1>1, <1>2, <1>3, <1>4, <1>5, <1>6, <1>7, <1>8, <1>9, <1>10, <1>11, <1>12,
      <1>13, <1>14, <1>15, <1>16, <1>17, <1>18, <1>19, <1>20, <1>21, <1>22, <1>23 DEF Next

\* A run that has published its proposal, or is over, remains so.
LEMMA KnownStays == Typed /\ Started /\ [Next]_vars => Known \subseteq Known'
<1>. SUFFICES ASSUME Typed, Started, [Next]_vars PROVE Known \subseteq Known'
  OBVIOUS
<1>1. ASSUME NEW t \in Task, Start(t) PROVE Known \subseteq Known'
  BY <1>1 DEF Start, taskVars, docVars, reviewVars, Known, Started, Typed, TaskTyped
<1>2. ASSUME NEW t \in Task, QueueReview(t) PROVE Known \subseteq Known'
  BY <1>2 DEF QueueReview, taskVars, docVars, reviewVars, Known, Started, Typed, TaskTyped
<1>3. ASSUME NEW t \in Task, Publish(t) PROVE Known \subseteq Known'
  BY <1>3 DEF Publish, taskVars, docVars, reviewVars, Known, Started, Typed, TaskTyped
<1>4. ASSUME NEW t \in Task, NEW S \in Target, Save(t, S) PROVE Known \subseteq Known'
  BY <1>4 DEF Save, taskVars, docVars, reviewVars, Known, Started, Typed, TaskTyped
<1>5. ASSUME NEW t \in Task, RejectEnds(t) PROVE Known \subseteq Known'
  BY <1>5 DEF RejectEnds, OpenNext, taskVars, docVars, reviewVars, Known, Started, Typed, TaskTyped
<1>6. ASSUME NEW t \in Task, RejectFails(t) PROVE Known \subseteq Known'
  BY <1>6 DEF RejectFails, Upset, taskVars, docVars, reviewVars, Known, Started, Typed, TaskTyped
<1>7. ASSUME NEW d \in Doc, UserSave(d) PROVE Known \subseteq Known'
  BY <1>7 DEF UserSave, Upset, taskVars, docVars, reviewVars, Known, Started, Typed, TaskTyped
<1>8. ASSUME NEW d \in Doc, OpenPage(d) PROVE Known \subseteq Known'
  BY <1>8 DEF OpenPage, Upset, taskVars, docVars, reviewVars, Known, Started, Typed, TaskTyped
<1>9. CASE Restart
  BY <1>9 DEF Restart, Upset, taskVars, docVars, reviewVars, Known, Started, Typed, TaskTyped
<1>10. CASE CleanUp
  BY <1>10 DEF CleanUp, taskVars, docVars, reviewVars, Known, Started, Typed, TaskTyped
<1>11. CASE Read
  BY <1>11 DEF Read, taskVars, docVars, reviewVars, Known, Started, Typed, TaskTyped
<1>12. CASE Deliver
  BY <1>12 DEF Deliver, taskVars, docVars, reviewVars, Known, Started, Typed, TaskTyped
<1>13. CASE RestoreFails
  BY <1>13 DEF RestoreFails, taskVars, docVars, reviewVars, Known, Started, Typed, TaskTyped
<1>14. ASSUME NEW S \in SUBSET Doc, Apply(S) PROVE Known \subseteq Known'
  BY <1>14 DEF Apply, taskVars, docVars, reviewVars, Known, Started, Typed, TaskTyped
<1>15. CASE Write
  BY <1>15 DEF Write, taskVars, docVars, reviewVars, Known, Started, Typed, TaskTyped
<1>16. CASE ApplyFails
  BY <1>16 DEF ApplyFails, Upset, NoUpset, taskVars, docVars, reviewVars, Known, Started, Typed, TaskTyped
<1>17. CASE Finish
  BY <1>17 DEF Finish, OpenNext, taskVars, docVars, reviewVars, Known, Started, Typed, TaskTyped
<1>18. CASE Report
  BY <1>18 DEF Report, taskVars, docVars, reviewVars, Known, Started, Typed, TaskTyped
<1>19. CASE Reject
  BY <1>19 DEF Reject, taskVars, docVars, reviewVars, Known, Started, Typed, TaskTyped
<1>20. CASE Undo
  BY <1>20 DEF Undo, taskVars, docVars, reviewVars, Known, Started, Typed, TaskTyped
<1>21. CASE UndoFails
  BY <1>21 DEF UndoFails, Upset, taskVars, docVars, reviewVars, Known, Started, Typed, TaskTyped
<1>22. CASE UndoDone
  BY <1>22 DEF UndoDone, taskVars, docVars, reviewVars, Known, Started, Typed, TaskTyped
<1>23. CASE UNCHANGED vars
  BY <1>23 DEF vars, taskVars, docVars, reviewVars, Known, Started, Typed, TaskTyped
<1>. QED BY <1>1, <1>2, <1>3, <1>4, <1>5, <1>6, <1>7, <1>8, <1>9, <1>10, <1>11, <1>12,
      <1>13, <1>14, <1>15, <1>16, <1>17, <1>18, <1>19, <1>20, <1>21, <1>22, <1>23 DEF Next

\* No task is up for a decision before its run has published it.
LEMMA ProposedStep == Typed /\ Started /\ Proposed /\ UnderReview /\ [Next]_vars => Proposed'
<1>. SUFFICES ASSUME Typed, Started, Proposed, UnderReview, [Next]_vars PROVE Proposed'
  OBVIOUS
<1>1. ASSUME NEW t \in Task, Start(t) PROVE Proposed'
  <2>1. t \notin Known' /\ run[t] = "none"
    BY <1>1 DEF Start, Started, Known, Typed, TaskTyped
  <2>. QED BY <1>1, <2>1 DEF Start, Proposed, Known, Typed, TaskTyped
<1>2. ASSUME NEW t \in Task, QueueReview(t) PROVE Proposed'
  BY <1>2 DEF QueueReview, taskVars, docVars, reviewVars, Proposed, Known, Typed, TaskTyped
<1>3. ASSUME NEW t \in Task, Publish(t) PROVE Proposed'
  BY <1>3 DEF Publish, taskVars, docVars, reviewVars, Proposed, Known, Typed, TaskTyped
<1>4. ASSUME NEW t \in Task, NEW S \in Target, Save(t, S) PROVE Proposed'
  <2>1. t \notin Known
    BY <1>4 DEF Save, Known
  <2>. QED BY <1>4, <2>1 DEF Save, docVars, reviewVars, Proposed, Known, Typed, TaskTyped
<1>5. ASSUME NEW t \in Task, RejectEnds(t) PROVE Proposed'
  BY <1>5 DEF RejectEnds, OpenNext, taskVars, docVars, reviewVars, Proposed, UnderReview, Known, Rejection, Typed, TaskTyped
<1>6. ASSUME NEW t \in Task, RejectFails(t) PROVE Proposed'
  BY <1>6 DEF RejectFails, Upset, taskVars, docVars, reviewVars, Proposed, Known, Typed, TaskTyped
<1>7. ASSUME NEW d \in Doc, UserSave(d) PROVE Proposed'
  BY <1>7 DEF UserSave, Upset, taskVars, docVars, reviewVars, Proposed, Known, Typed, TaskTyped
<1>8. ASSUME NEW d \in Doc, OpenPage(d) PROVE Proposed'
  BY <1>8 DEF OpenPage, Upset, taskVars, docVars, reviewVars, Proposed, Known, Typed, TaskTyped
<1>9. CASE Restart
  BY <1>9 DEF Restart, Upset, taskVars, docVars, reviewVars, Proposed, Known, Typed, TaskTyped
<1>10. CASE CleanUp
  BY <1>10 DEF CleanUp, taskVars, docVars, reviewVars, Superseded, Proposed, Known, Typed, TaskTyped
<1>11. CASE Read
  BY <1>11 DEF Read, taskVars, docVars, reviewVars, Proposed, Known, Typed, TaskTyped
<1>12. CASE Deliver
  BY <1>12 DEF Deliver, taskVars, docVars, reviewVars, Proposed, Known, Typed, TaskTyped
<1>13. CASE RestoreFails
  BY <1>13 DEF RestoreFails, taskVars, docVars, reviewVars, Proposed, Known, Typed, TaskTyped
<1>14. ASSUME NEW S \in SUBSET Doc, Apply(S) PROVE Proposed'
  BY <1>14 DEF Apply, taskVars, docVars, reviewVars, Proposed, Known, Typed, TaskTyped
<1>15. CASE Write
  <2>1. applying.task \in Known
    BY <1>15 DEF Write, UnderReview
  <2>. QED BY <1>15, <2>1 DEF Write, reviewVars, Proposed, Known, Typed, TaskTyped
<1>16. CASE ApplyFails
  BY <1>16 DEF ApplyFails, Upset, NoUpset, taskVars, docVars, reviewVars, Proposed, Known, Typed, TaskTyped
<1>17. CASE Finish
  BY <1>17 DEF Finish, OpenNext, taskVars, docVars, reviewVars, Proposed, Known, Typed, TaskTyped
<1>18. CASE Report
  BY <1>18 DEF Report, taskVars, docVars, reviewVars, Proposed, UnderReview, Known, Typed, TaskTyped
<1>19. CASE Reject
  BY <1>19 DEF Reject, taskVars, docVars, reviewVars, Proposed, Known, Typed, TaskTyped
<1>20. CASE Undo
  BY <1>20 DEF Undo, taskVars, docVars, reviewVars, Proposed, Known, Typed, TaskTyped
<1>21. CASE UndoFails
  BY <1>21 DEF UndoFails, Upset, taskVars, docVars, reviewVars, Proposed, Known, Typed, TaskTyped
<1>22. CASE UndoDone
  BY <1>22 DEF UndoDone, taskVars, docVars, reviewVars, Proposed, Known, Typed, TaskTyped
<1>23. CASE UNCHANGED vars
  BY <1>23 DEF vars, taskVars, docVars, reviewVars, Proposed, Known, Typed, TaskTyped
<1>. QED BY <1>1, <1>2, <1>3, <1>4, <1>5, <1>6, <1>7, <1>8, <1>9, <1>10, <1>11, <1>12,
      <1>13, <1>14, <1>15, <1>16, <1>17, <1>18, <1>19, <1>20, <1>21, <1>22, <1>23 DEF Next

\* Only known tasks come up for review.
LEMMA UnderReviewStep == Typed /\ Started /\ Proposed /\ UnderReview /\ [Next]_vars => UnderReview'
<1>. SUFFICES ASSUME Typed, Started, Proposed, UnderReview, [Next]_vars PROVE UnderReview'
  OBVIOUS
<1>0. Known \subseteq Known'
  BY KnownStays
<1>1. ASSUME NEW t \in Task, Start(t) PROVE UnderReview'
  <2>1. pending' \in Known' \cup {None}
    BY <1>0, <1>1 DEF Start, taskVars, docVars, reviewVars, UnderReview
  <2>2. queue' \in Seq(Known')
    BY <1>0, <1>1, SeqMonotonic DEF Start, taskVars, docVars, reviewVars, UnderReview
  <2>3. restoring'.pending \in Known' \cup {None}
    BY <1>0, <1>1 DEF Start, taskVars, docVars, reviewVars, UnderReview, Typed, CallTyped, Restoring
  <2>4. applying'.at \in {"write", "written"} => applying'.task \in Known'
    BY <1>0, <1>1 DEF Start, taskVars, docVars, reviewVars, UnderReview, NotApplying
  <2>5. \A v \in Task : rejects'[v] > 0 => v \in Known'
    BY <1>0, <1>1 DEF Start, taskVars, docVars, reviewVars, UnderReview, Typed, CallTyped
  <2>. QED BY <2>1, <2>2, <2>3, <2>4, <2>5 DEF UnderReview
<1>2. ASSUME NEW t \in Task, QueueReview(t) PROVE UnderReview'
  <2>0. t \in Known'
    BY <1>2 DEF QueueReview, Known, Typed, TaskTyped
  <2>1. pending' \in Known' \cup {None}
    BY <1>0, <1>2, <2>0 DEF QueueReview, taskVars, docVars, reviewVars, UnderReview
  <2>2. queue' \in Seq(Known')
    <3>1. queue \in Seq(Known')
      BY <1>0, SeqMonotonic DEF UnderReview
    <3>2. Append(queue, t) \in Seq(Known')
      BY <2>0, <3>1, AppendProperties
    <3>. QED BY <1>2, <3>1, <3>2 DEF QueueReview
  <2>3. restoring'.pending \in Known' \cup {None}
    BY <1>0, <1>2 DEF QueueReview, taskVars, docVars, reviewVars, UnderReview, Typed, CallTyped, Restoring
  <2>4. applying'.at \in {"write", "written"} => applying'.task \in Known'
    BY <1>0, <1>2 DEF QueueReview, taskVars, docVars, reviewVars, UnderReview, NotApplying
  <2>5. \A v \in Task : rejects'[v] > 0 => v \in Known'
    BY <1>0, <1>2 DEF QueueReview, taskVars, docVars, reviewVars, UnderReview, Typed, CallTyped
  <2>. QED BY <2>1, <2>2, <2>3, <2>4, <2>5 DEF UnderReview
<1>3. ASSUME NEW t \in Task, Publish(t) PROVE UnderReview'
  <2>1. pending' \in Known' \cup {None}
    BY <1>0, <1>3 DEF Publish, taskVars, docVars, reviewVars, UnderReview
  <2>2. queue' \in Seq(Known')
    BY <1>0, <1>3, SeqMonotonic DEF Publish, taskVars, docVars, reviewVars, UnderReview
  <2>3. restoring'.pending \in Known' \cup {None}
    BY <1>0, <1>3 DEF Publish, taskVars, docVars, reviewVars, UnderReview, Typed, CallTyped, Restoring
  <2>4. applying'.at \in {"write", "written"} => applying'.task \in Known'
    BY <1>0, <1>3 DEF Publish, taskVars, docVars, reviewVars, UnderReview, NotApplying
  <2>5. \A v \in Task : rejects'[v] > 0 => v \in Known'
    BY <1>0, <1>3 DEF Publish, taskVars, docVars, reviewVars, UnderReview, Typed, CallTyped
  <2>. QED BY <2>1, <2>2, <2>3, <2>4, <2>5 DEF UnderReview
<1>4. ASSUME NEW t \in Task, NEW S \in Target, Save(t, S) PROVE UnderReview'
  <2>1. pending' \in Known' \cup {None}
    BY <1>0, <1>4 DEF Save, taskVars, docVars, reviewVars, UnderReview
  <2>2. queue' \in Seq(Known')
    BY <1>0, <1>4, SeqMonotonic DEF Save, taskVars, docVars, reviewVars, UnderReview
  <2>3. restoring'.pending \in Known' \cup {None}
    BY <1>0, <1>4 DEF Save, taskVars, docVars, reviewVars, UnderReview, Typed, CallTyped, Restoring
  <2>4. applying'.at \in {"write", "written"} => applying'.task \in Known'
    BY <1>0, <1>4 DEF Save, taskVars, docVars, reviewVars, UnderReview, NotApplying
  <2>5. \A v \in Task : rejects'[v] > 0 => v \in Known'
    BY <1>0, <1>4 DEF Save, taskVars, docVars, reviewVars, UnderReview, Typed, CallTyped
  <2>. QED BY <2>1, <2>2, <2>3, <2>4, <2>5 DEF UnderReview
<1>5. ASSUME NEW t \in Task, RejectEnds(t) PROVE UnderReview'
  <2>0. pending' \in Known \cup {None} /\ queue' \in Seq(Known)
    BY <1>5, OpenNextTyped DEF RejectEnds, UnderReview
  <2>1. pending' \in Known' \cup {None}
    BY <1>0, <2>0
  <2>2. queue' \in Seq(Known')
    BY <1>0, <2>0, SeqMonotonic
  <2>3. restoring'.pending \in Known' \cup {None}
    BY <1>0, <1>5 DEF RejectEnds, taskVars, docVars, reviewVars, UnderReview, Typed, CallTyped, Restoring
  <2>4. applying'.at \in {"write", "written"} => applying'.task \in Known'
    BY <1>0, <1>5 DEF RejectEnds, taskVars, docVars, reviewVars, UnderReview, NotApplying
  <2>5. \A v \in Task : rejects'[v] > 0 => v \in Known'
    BY <1>0, <1>5 DEF RejectEnds, taskVars, docVars, reviewVars, UnderReview, Typed, CallTyped
  <2>. QED BY <2>1, <2>2, <2>3, <2>4, <2>5 DEF UnderReview
<1>6. ASSUME NEW t \in Task, RejectFails(t) PROVE UnderReview'
  <2>1. pending' \in Known' \cup {None}
    BY <1>0, <1>6 DEF RejectFails, Upset, taskVars, docVars, reviewVars, UnderReview
  <2>2. queue' \in Seq(Known')
    BY <1>0, <1>6, SeqMonotonic DEF RejectFails, Upset, taskVars, docVars, reviewVars, UnderReview
  <2>3. restoring'.pending \in Known' \cup {None}
    BY <1>0, <1>6 DEF RejectFails, Upset, taskVars, docVars, reviewVars, UnderReview, Typed, CallTyped, Restoring
  <2>4. applying'.at \in {"write", "written"} => applying'.task \in Known'
    BY <1>0, <1>6 DEF RejectFails, Upset, taskVars, docVars, reviewVars, UnderReview, NotApplying
  <2>5. \A v \in Task : rejects'[v] > 0 => v \in Known'
    BY <1>0, <1>6 DEF RejectFails, Upset, taskVars, docVars, reviewVars, UnderReview, Typed, CallTyped
  <2>. QED BY <2>1, <2>2, <2>3, <2>4, <2>5 DEF UnderReview
<1>7. ASSUME NEW d \in Doc, UserSave(d) PROVE UnderReview'
  <2>1. pending' \in Known' \cup {None}
    BY <1>0, <1>7 DEF UserSave, Upset, taskVars, docVars, reviewVars, UnderReview
  <2>2. queue' \in Seq(Known')
    BY <1>0, <1>7, SeqMonotonic DEF UserSave, Upset, taskVars, docVars, reviewVars, UnderReview
  <2>3. restoring'.pending \in Known' \cup {None}
    BY <1>0, <1>7 DEF UserSave, Upset, taskVars, docVars, reviewVars, UnderReview, Typed, CallTyped, Restoring
  <2>4. applying'.at \in {"write", "written"} => applying'.task \in Known'
    BY <1>0, <1>7 DEF UserSave, Upset, taskVars, docVars, reviewVars, UnderReview, NotApplying
  <2>5. \A v \in Task : rejects'[v] > 0 => v \in Known'
    BY <1>0, <1>7 DEF UserSave, Upset, taskVars, docVars, reviewVars, UnderReview, Typed, CallTyped
  <2>. QED BY <2>1, <2>2, <2>3, <2>4, <2>5 DEF UnderReview
<1>8. ASSUME NEW d \in Doc, OpenPage(d) PROVE UnderReview'
  <2>1. pending' \in Known' \cup {None}
    BY <1>0, <1>8 DEF OpenPage, Upset, taskVars, docVars, reviewVars, UnderReview
  <2>2. queue' \in Seq(Known')
    BY <1>0, <1>8, SeqMonotonic DEF OpenPage, Upset, taskVars, docVars, reviewVars, UnderReview
  <2>3. restoring'.pending \in Known' \cup {None}
    BY <1>0, <1>8 DEF OpenPage, Upset, taskVars, docVars, reviewVars, UnderReview, Typed, CallTyped, Restoring
  <2>4. applying'.at \in {"write", "written"} => applying'.task \in Known'
    BY <1>0, <1>8 DEF OpenPage, Upset, taskVars, docVars, reviewVars, UnderReview, NotApplying
  <2>5. \A v \in Task : rejects'[v] > 0 => v \in Known'
    BY <1>0, <1>8 DEF OpenPage, Upset, taskVars, docVars, reviewVars, UnderReview, Typed, CallTyped
  <2>. QED BY <2>1, <2>2, <2>3, <2>4, <2>5 DEF UnderReview
<1>9. CASE Restart
  <2>1. pending' \in Known' \cup {None}
    BY <1>0, <1>9 DEF Restart, Upset, taskVars, docVars, reviewVars, UnderReview
  <2>2. queue' \in Seq(Known')
    BY <1>9, EmptySeq DEF Restart
  <2>3. restoring'.pending \in Known' \cup {None}
    BY <1>0, <1>9 DEF Restart, Upset, taskVars, docVars, reviewVars, UnderReview, Typed, CallTyped, Restoring
  <2>4. applying'.at \in {"write", "written"} => applying'.task \in Known'
    BY <1>0, <1>9 DEF Restart, Upset, taskVars, docVars, reviewVars, UnderReview, NotApplying
  <2>5. \A v \in Task : rejects'[v] > 0 => v \in Known'
    BY <1>0, <1>9 DEF Restart, Upset, taskVars, docVars, reviewVars, UnderReview, Typed, CallTyped
  <2>. QED BY <2>1, <2>2, <2>3, <2>4, <2>5 DEF UnderReview
<1>10. CASE CleanUp
  <2>1. pending' \in Known' \cup {None}
    BY <1>0, <1>10 DEF CleanUp, taskVars, docVars, reviewVars, UnderReview
  <2>2. queue' \in Seq(Known')
    BY <1>0, <1>10, SeqMonotonic DEF CleanUp, taskVars, docVars, reviewVars, UnderReview
  <2>3. restoring'.pending \in Known' \cup {None}
    BY <1>0, <1>10 DEF CleanUp, taskVars, docVars, reviewVars, UnderReview, Typed, CallTyped, Restoring
  <2>4. applying'.at \in {"write", "written"} => applying'.task \in Known'
    BY <1>0, <1>10 DEF CleanUp, taskVars, docVars, reviewVars, UnderReview, NotApplying
  <2>5. \A v \in Task : rejects'[v] > 0 => v \in Known'
    BY <1>0, <1>10 DEF CleanUp, taskVars, docVars, reviewVars, UnderReview, Typed, CallTyped
  <2>. QED BY <2>1, <2>2, <2>3, <2>4, <2>5 DEF UnderReview
<1>11. CASE Read
  <2>0. PICK t, u \in Maybe :
          /\ IF Waiting(restoring.doc) = {} THEN t = None ELSE t \in Newest(Waiting(restoring.doc))
          /\ restoring' = [restoring EXCEPT !.at = "deliver", !.pending = t, !.last = u]
    BY <1>11 DEF Read
  <2>a. t = None \/ t \in Known
    BY <2>0 DEF Newest, Waiting, Proposed
  <2>1. pending' \in Known' \cup {None}
    BY <1>0, <1>11 DEF Read, taskVars, docVars, reviewVars, UnderReview
  <2>2. queue' \in Seq(Known')
    BY <1>0, <1>11, SeqMonotonic DEF Read, taskVars, docVars, reviewVars, UnderReview
  <2>3. restoring'.pending \in Known' \cup {None}
    BY <1>0, <2>0, <2>a DEF Typed, CallTyped, Restoring
  <2>4. applying'.at \in {"write", "written"} => applying'.task \in Known'
    BY <1>0, <1>11 DEF Read, taskVars, docVars, reviewVars, UnderReview, NotApplying
  <2>5. \A v \in Task : rejects'[v] > 0 => v \in Known'
    BY <1>0, <1>11 DEF Read, taskVars, docVars, reviewVars, UnderReview, Typed, CallTyped
  <2>. QED BY <2>1, <2>2, <2>3, <2>4, <2>5 DEF UnderReview
<1>12. CASE Deliver
  <2>1. pending' \in Known' \cup {None}
    BY <1>0, <1>12 DEF Deliver, taskVars, docVars, reviewVars, UnderReview
  <2>2. queue' \in Seq(Known')
    BY <1>12, EmptySeq DEF Deliver
  <2>3. restoring'.pending \in Known' \cup {None}
    BY <1>0, <1>12 DEF Deliver, taskVars, docVars, reviewVars, UnderReview, Typed, CallTyped, Restoring, NotRestoring
  <2>4. applying'.at \in {"write", "written"} => applying'.task \in Known'
    BY <1>0, <1>12 DEF Deliver, taskVars, docVars, reviewVars, UnderReview, NotApplying
  <2>5. \A v \in Task : rejects'[v] > 0 => v \in Known'
    BY <1>0, <1>12 DEF Deliver, taskVars, docVars, reviewVars, UnderReview, Typed, CallTyped
  <2>. QED BY <2>1, <2>2, <2>3, <2>4, <2>5 DEF UnderReview
<1>13. CASE RestoreFails
  <2>1. pending' \in Known' \cup {None}
    BY <1>0, <1>13 DEF RestoreFails, taskVars, docVars, reviewVars, UnderReview
  <2>2. queue' \in Seq(Known')
    BY <1>0, <1>13, SeqMonotonic DEF RestoreFails, taskVars, docVars, reviewVars, UnderReview
  <2>3. restoring'.pending \in Known' \cup {None}
    BY <1>0, <1>13 DEF RestoreFails, taskVars, docVars, reviewVars, UnderReview, Typed, CallTyped, Restoring, NotRestoring
  <2>4. applying'.at \in {"write", "written"} => applying'.task \in Known'
    BY <1>0, <1>13 DEF RestoreFails, taskVars, docVars, reviewVars, UnderReview, NotApplying
  <2>5. \A v \in Task : rejects'[v] > 0 => v \in Known'
    BY <1>0, <1>13 DEF RestoreFails, taskVars, docVars, reviewVars, UnderReview, Typed, CallTyped
  <2>. QED BY <2>1, <2>2, <2>3, <2>4, <2>5 DEF UnderReview
<1>14. ASSUME NEW S \in SUBSET Doc, Apply(S) PROVE UnderReview'
  <2>0. applying'.at = "write" => applying'.task = pending /\ pending # None
    BY <1>14 DEF Apply, NotApplying
  <2>1. pending' \in Known' \cup {None}
    BY <1>0, <1>14 DEF Apply, taskVars, docVars, reviewVars, UnderReview
  <2>2. queue' \in Seq(Known')
    BY <1>0, <1>14, SeqMonotonic DEF Apply, taskVars, docVars, reviewVars, UnderReview
  <2>3. restoring'.pending \in Known' \cup {None}
    BY <1>0, <1>14 DEF Apply, taskVars, docVars, reviewVars, UnderReview, Typed, CallTyped, Restoring
  <2>4. applying'.at \in {"write", "written"} => applying'.task \in Known'
    BY <1>0, <1>14, <2>0 DEF Apply, NotApplying, UnderReview
  <2>5. \A v \in Task : rejects'[v] > 0 => v \in Known'
    BY <1>0, <1>14 DEF Apply, taskVars, docVars, reviewVars, UnderReview, Typed, CallTyped
  <2>. QED BY <2>1, <2>2, <2>3, <2>4, <2>5 DEF UnderReview
<1>15. CASE Write
  <2>1. pending' \in Known' \cup {None}
    BY <1>0, <1>15 DEF Write, taskVars, docVars, reviewVars, UnderReview
  <2>2. queue' \in Seq(Known')
    BY <1>0, <1>15, SeqMonotonic DEF Write, taskVars, docVars, reviewVars, UnderReview
  <2>3. restoring'.pending \in Known' \cup {None}
    BY <1>0, <1>15 DEF Write, taskVars, docVars, reviewVars, UnderReview, Typed, CallTyped, Restoring
  <2>4. applying'.at \in {"write", "written"} => applying'.task \in Known'
    BY <1>0, <1>15 DEF Write, taskVars, docVars, reviewVars, UnderReview, NotApplying
  <2>5. \A v \in Task : rejects'[v] > 0 => v \in Known'
    BY <1>0, <1>15 DEF Write, taskVars, docVars, reviewVars, UnderReview, Typed, CallTyped
  <2>. QED BY <2>1, <2>2, <2>3, <2>4, <2>5 DEF UnderReview
<1>16. CASE ApplyFails
  <2>1. pending' \in Known' \cup {None}
    BY <1>0, <1>16 DEF ApplyFails, Upset, NoUpset, taskVars, docVars, reviewVars, UnderReview
  <2>2. queue' \in Seq(Known')
    BY <1>0, <1>16, SeqMonotonic DEF ApplyFails, Upset, NoUpset, taskVars, docVars, reviewVars, UnderReview
  <2>3. restoring'.pending \in Known' \cup {None}
    BY <1>0, <1>16 DEF ApplyFails, Upset, NoUpset, taskVars, docVars, reviewVars, UnderReview, Typed, CallTyped, Restoring
  <2>4. applying'.at \in {"write", "written"} => applying'.task \in Known'
    BY <1>0, <1>16 DEF ApplyFails, Upset, NoUpset, taskVars, docVars, reviewVars, UnderReview, NotApplying
  <2>5. \A v \in Task : rejects'[v] > 0 => v \in Known'
    BY <1>0, <1>16 DEF ApplyFails, Upset, NoUpset, taskVars, docVars, reviewVars, UnderReview, Typed, CallTyped
  <2>. QED BY <2>1, <2>2, <2>3, <2>4, <2>5 DEF UnderReview
<1>17. CASE Finish
  <2>0. pending' \in Known \cup {None} /\ queue' \in Seq(Known)
    BY <1>17, OpenNextTyped DEF Finish, UnderReview
  <2>1. pending' \in Known' \cup {None}
    BY <1>0, <2>0
  <2>2. queue' \in Seq(Known')
    BY <1>0, <2>0, SeqMonotonic
  <2>3. restoring'.pending \in Known' \cup {None}
    BY <1>0, <1>17 DEF Finish, taskVars, docVars, reviewVars, UnderReview, Typed, CallTyped, Restoring
  <2>4. applying'.at \in {"write", "written"} => applying'.task \in Known'
    BY <1>0, <1>17 DEF Finish, taskVars, docVars, reviewVars, UnderReview, NotApplying
  <2>5. \A v \in Task : rejects'[v] > 0 => v \in Known'
    BY <1>0, <1>17 DEF Finish, taskVars, docVars, reviewVars, UnderReview, Typed, CallTyped
  <2>. QED BY <2>1, <2>2, <2>3, <2>4, <2>5 DEF UnderReview
<1>18. CASE Report
  <2>1. pending' \in Known' \cup {None}
    BY <1>0, <1>18 DEF Report, taskVars, docVars, reviewVars, UnderReview
  <2>2. queue' \in Seq(Known')
    BY <1>0, <1>18, SeqMonotonic DEF Report, taskVars, docVars, reviewVars, UnderReview
  <2>3. restoring'.pending \in Known' \cup {None}
    BY <1>0, <1>18 DEF Report, taskVars, docVars, reviewVars, UnderReview, Typed, CallTyped, Restoring
  <2>4. applying'.at \in {"write", "written"} => applying'.task \in Known'
    BY <1>0, <1>18 DEF Report, taskVars, docVars, reviewVars, UnderReview, NotApplying
  <2>5. \A v \in Task : rejects'[v] > 0 => v \in Known'
    BY <1>0, <1>18 DEF Report, taskVars, docVars, reviewVars, UnderReview, Typed, CallTyped
  <2>. QED BY <2>1, <2>2, <2>3, <2>4, <2>5 DEF UnderReview
<1>19. CASE Reject
  <2>1. pending' \in Known' \cup {None}
    BY <1>0, <1>19 DEF Reject, taskVars, docVars, reviewVars, UnderReview
  <2>2. queue' \in Seq(Known')
    BY <1>0, <1>19, SeqMonotonic DEF Reject, taskVars, docVars, reviewVars, UnderReview
  <2>3. restoring'.pending \in Known' \cup {None}
    BY <1>0, <1>19 DEF Reject, taskVars, docVars, reviewVars, UnderReview, Typed, CallTyped, Restoring
  <2>4. applying'.at \in {"write", "written"} => applying'.task \in Known'
    BY <1>0, <1>19 DEF Reject, taskVars, docVars, reviewVars, UnderReview, NotApplying
  <2>5. \A v \in Task : rejects'[v] > 0 => v \in Known'
    BY <1>0, <1>19 DEF Reject, taskVars, docVars, reviewVars, UnderReview, Typed, CallTyped
  <2>. QED BY <2>1, <2>2, <2>3, <2>4, <2>5 DEF UnderReview
<1>20. CASE Undo
  <2>1. pending' \in Known' \cup {None}
    BY <1>0, <1>20 DEF Undo, taskVars, docVars, reviewVars, UnderReview
  <2>2. queue' \in Seq(Known')
    BY <1>0, <1>20, SeqMonotonic DEF Undo, taskVars, docVars, reviewVars, UnderReview
  <2>3. restoring'.pending \in Known' \cup {None}
    BY <1>0, <1>20 DEF Undo, taskVars, docVars, reviewVars, UnderReview, Typed, CallTyped, Restoring
  <2>4. applying'.at \in {"write", "written"} => applying'.task \in Known'
    BY <1>0, <1>20 DEF Undo, taskVars, docVars, reviewVars, UnderReview, NotApplying
  <2>5. \A v \in Task : rejects'[v] > 0 => v \in Known'
    BY <1>0, <1>20 DEF Undo, taskVars, docVars, reviewVars, UnderReview, Typed, CallTyped
  <2>. QED BY <2>1, <2>2, <2>3, <2>4, <2>5 DEF UnderReview
<1>21. CASE UndoFails
  <2>1. pending' \in Known' \cup {None}
    BY <1>0, <1>21 DEF UndoFails, Upset, taskVars, docVars, reviewVars, UnderReview
  <2>2. queue' \in Seq(Known')
    BY <1>0, <1>21, SeqMonotonic DEF UndoFails, Upset, taskVars, docVars, reviewVars, UnderReview
  <2>3. restoring'.pending \in Known' \cup {None}
    BY <1>0, <1>21 DEF UndoFails, Upset, taskVars, docVars, reviewVars, UnderReview, Typed, CallTyped, Restoring
  <2>4. applying'.at \in {"write", "written"} => applying'.task \in Known'
    BY <1>0, <1>21 DEF UndoFails, Upset, taskVars, docVars, reviewVars, UnderReview, NotApplying
  <2>5. \A v \in Task : rejects'[v] > 0 => v \in Known'
    BY <1>0, <1>21 DEF UndoFails, Upset, taskVars, docVars, reviewVars, UnderReview, Typed, CallTyped
  <2>. QED BY <2>1, <2>2, <2>3, <2>4, <2>5 DEF UnderReview
<1>22. CASE UndoDone
  <2>1. pending' \in Known' \cup {None}
    BY <1>0, <1>22 DEF UndoDone, taskVars, docVars, reviewVars, UnderReview
  <2>2. queue' \in Seq(Known')
    BY <1>0, <1>22, SeqMonotonic DEF UndoDone, taskVars, docVars, reviewVars, UnderReview
  <2>3. restoring'.pending \in Known' \cup {None}
    BY <1>0, <1>22 DEF UndoDone, taskVars, docVars, reviewVars, UnderReview, Typed, CallTyped, Restoring
  <2>4. applying'.at \in {"write", "written"} => applying'.task \in Known'
    BY <1>0, <1>22 DEF UndoDone, taskVars, docVars, reviewVars, UnderReview, NotApplying
  <2>5. \A v \in Task : rejects'[v] > 0 => v \in Known'
    BY <1>0, <1>22 DEF UndoDone, taskVars, docVars, reviewVars, UnderReview, Typed, CallTyped
  <2>. QED BY <2>1, <2>2, <2>3, <2>4, <2>5 DEF UnderReview
<1>23. CASE UNCHANGED vars
  <2>1. pending' \in Known' \cup {None}
    BY <1>0, <1>23 DEF vars, taskVars, docVars, reviewVars, UnderReview
  <2>2. queue' \in Seq(Known')
    BY <1>0, <1>23, SeqMonotonic DEF vars, taskVars, docVars, reviewVars, UnderReview
  <2>3. restoring'.pending \in Known' \cup {None}
    BY <1>0, <1>23 DEF vars, taskVars, docVars, reviewVars, UnderReview, Typed, CallTyped, Restoring
  <2>4. applying'.at \in {"write", "written"} => applying'.task \in Known'
    BY <1>0, <1>23 DEF vars, taskVars, docVars, reviewVars, UnderReview, NotApplying
  <2>5. \A v \in Task : rejects'[v] > 0 => v \in Known'
    BY <1>0, <1>23 DEF vars, taskVars, docVars, reviewVars, UnderReview, Typed, CallTyped
  <2>. QED BY <2>1, <2>2, <2>3, <2>4, <2>5 DEF UnderReview
<1>. QED BY <1>1, <1>2, <1>3, <1>4, <1>5, <1>6, <1>7, <1>8, <1>9, <1>10, <1>11, <1>12,
      <1>13, <1>14, <1>15, <1>16, <1>17, <1>18, <1>19, <1>20, <1>21, <1>22, <1>23 DEF Next

\* What is written has been decided.
LEMMA RecordedStep == Typed /\ Proposed /\ UnderReview /\ ReadIsCurrent /\ Recorded /\ [Next]_vars => Recorded'
<1>. SUFFICES ASSUME Typed, Proposed, UnderReview, ReadIsCurrent, Recorded, [Next]_vars PROVE Recorded'
  OBVIOUS
<1>1. ASSUME NEW t \in Task, Start(t) PROVE Recorded'
  BY <1>1 DEF Start, taskVars, docVars, reviewVars, Recorded, Typed, TaskTyped, DocTyped
<1>2. ASSUME NEW t \in Task, QueueReview(t) PROVE Recorded'
  BY <1>2 DEF QueueReview, taskVars, docVars, reviewVars, Recorded, Typed, TaskTyped, DocTyped
<1>3. ASSUME NEW t \in Task, Publish(t) PROVE Recorded'
  BY <1>3 DEF Publish, taskVars, docVars, reviewVars, Recorded, Typed, TaskTyped, DocTyped
<1>4. ASSUME NEW t \in Task, NEW S \in Target, Save(t, S) PROVE Recorded'
  <2>1. \A d \in Doc : patch[t][d] = "none" /\ tx[t][d].st = "none"
    BY <1>4 DEF Save, Proposed, Recorded
  <2>. QED BY <1>4, <2>1 DEF Save, docVars, Recorded, Typed, TaskTyped
<1>5. ASSUME NEW t \in Task, RejectEnds(t) PROVE Recorded'
  BY <1>5 DEF RejectEnds, OpenNext, taskVars, docVars, reviewVars, Recorded, Rejection, Typed, TaskTyped
<1>6. ASSUME NEW t \in Task, RejectFails(t) PROVE Recorded'
  BY <1>6 DEF RejectFails, Upset, taskVars, docVars, reviewVars, Recorded, Typed, TaskTyped, DocTyped
<1>7. ASSUME NEW d \in Doc, UserSave(d) PROVE Recorded'
  BY <1>7 DEF UserSave, Upset, taskVars, docVars, reviewVars, Recorded, Typed, TaskTyped, DocTyped
<1>8. ASSUME NEW d \in Doc, OpenPage(d) PROVE Recorded'
  BY <1>8 DEF OpenPage, Upset, taskVars, docVars, reviewVars, Recorded, Typed, TaskTyped, DocTyped
<1>9. CASE Restart
  BY <1>9 DEF Restart, Upset, taskVars, docVars, reviewVars, Recorded, Typed, TaskTyped, DocTyped
<1>10. CASE CleanUp
  BY <1>10 DEF CleanUp, taskVars, docVars, reviewVars, Recorded, Typed, TaskTyped
<1>11. CASE Read
  BY <1>11 DEF Read, taskVars, docVars, reviewVars, Recorded, Typed, TaskTyped, DocTyped
<1>12. CASE Deliver
  BY <1>12 DEF Deliver, taskVars, docVars, reviewVars, Recorded, Typed, TaskTyped, DocTyped
<1>13. CASE RestoreFails
  BY <1>13 DEF RestoreFails, taskVars, docVars, reviewVars, Recorded, Typed, TaskTyped, DocTyped
<1>14. ASSUME NEW S \in SUBSET Doc, Apply(S) PROVE Recorded'
  BY <1>14 DEF Apply, taskVars, docVars, reviewVars, Recorded, Typed, TaskTyped, DocTyped
<1>15. CASE Write
  <2>. DEFINE t == applying.task  S == applying.docs
  <2>1. t \in Task /\ S \subseteq Doc
    BY <1>15 DEF Write, UnderReview, Known, Typed, CallTyped, Applying
  <2>2. \A d \in Doc : patch'[t][d] = IF d \in S THEN "accepted"
                                     ELSE IF patch[t][d] = "none" THEN "none" ELSE "rejected"
    BY <1>15, <2>1 DEF Write, Typed, TaskTyped
  <2>3. \A d \in Doc : tx'[t][d].st # tx[t][d].st => d \in S
    BY <1>15, <2>1 DEF Write, Typed, DocTyped
  <2>4. \A d \in S : patch[t][d] = "proposed"
    BY <1>15 DEF Write, Writable, Patches, ReadIsCurrent, Typed, CallTyped, Applying
  <2>5. \A u \in Task \ {t} : patch'[u] = patch[u] /\ tx'[u] = tx[u]
    BY <1>15 DEF Write, Typed, TaskTyped, DocTyped
  <2>6. ASSUME NEW u \in Task, NEW d \in Doc
        PROVE  /\ patch'[u][d] = "none" => base'[u][d] = 0
               /\ patch'[u][d] \in {"none", "proposed"} => tx'[u][d].st = "none"
    <3>1. CASE u = t
      BY <1>15, <2>1, <2>2, <2>3, <3>1 DEF Write, Recorded
    <3>2. CASE u # t
      BY <1>15, <2>5, <3>2 DEF Write, Recorded
    <3>. QED BY <3>1, <3>2
  <2>. QED BY <2>6 DEF Recorded
<1>16. CASE ApplyFails
  BY <1>16 DEF ApplyFails, Upset, NoUpset, taskVars, docVars, reviewVars, Recorded, Typed, TaskTyped, DocTyped
<1>17. CASE Finish
  BY <1>17 DEF Finish, OpenNext, taskVars, docVars, reviewVars, Recorded, Typed, TaskTyped, DocTyped
<1>18. CASE Report
  BY <1>18 DEF Report, taskVars, docVars, reviewVars, Recorded, Typed, TaskTyped, DocTyped
<1>19. CASE Reject
  BY <1>19 DEF Reject, taskVars, docVars, reviewVars, Recorded, Typed, TaskTyped, DocTyped
<1>20. CASE Undo
  <2>1. \A u \in Task, d \in Doc : tx[u][d].st = "none" => tx'[u][d].st = "none"
    BY <1>20 DEF Undo, Written, Typed, DocTyped
  <2>. QED BY <1>20, <2>1 DEF Undo, taskVars, Recorded
<1>21. CASE UndoFails
  BY <1>21 DEF UndoFails, Upset, taskVars, docVars, reviewVars, Recorded, Typed, TaskTyped, DocTyped
<1>22. CASE UndoDone
  BY <1>22 DEF UndoDone, taskVars, docVars, reviewVars, Recorded, Typed, TaskTyped, DocTyped
<1>23. CASE UNCHANGED vars
  BY <1>23 DEF vars, taskVars, docVars, reviewVars, Recorded, Typed, TaskTyped, DocTyped
<1>. QED BY <1>1, <1>2, <1>3, <1>4, <1>5, <1>6, <1>7, <1>8, <1>9, <1>10, <1>11, <1>12,
      <1>13, <1>14, <1>15, <1>16, <1>17, <1>18, <1>19, <1>20, <1>21, <1>22, <1>23 DEF Next

-----------------------------------------------------------------------------
(* What becomes of the documents. *)

\* But for five actions a step leaves the documents alone, and decides patches at
\* most.
Decides ==
  /\ base' = base /\ rev' = rev /\ text' = text /\ tx' = tx
  /\ \A u \in Task, d \in Doc : /\ patch'[u][d] = "none" <=> patch[u][d] = "none"
                                /\ patch'[u][d] = "proposed" => patch[u][d] = "proposed"

LEMMA Writers ==
  Typed /\ [Next]_vars => \/ Decides
                          \/ \E t \in Task, S \in Target : Save(t, S)
                          \/ \E d \in Doc : UserSave(d)
                          \/ Write
                          \/ Undo
<1>. SUFFICES ASSUME Typed, [Next]_vars,
                     ~(\E t \in Task, S \in Target : Save(t, S)),
                     ~(\E d \in Doc : UserSave(d)), ~Write, ~Undo
              PROVE  Decides
  OBVIOUS
<1>1. CASE UNCHANGED <<patch, base, docVars>>
  BY <1>1 DEF docVars, Decides
<1>2. ASSUME NEW t \in Task, RejectEnds(t) PROVE Decides
  BY <1>2 DEF RejectEnds, Rejection, docVars, Decides, Typed, TaskTyped
<1>3. CASE CleanUp
  BY <1>3 DEF CleanUp, docVars, Decides, Typed, TaskTyped
<1>4. ASSUME NEW t \in Task, Start(t) \/ QueueReview(t) \/ Publish(t) \/ RejectFails(t)
      PROVE  UNCHANGED <<patch, base, docVars>>
  BY <1>4 DEF Start, QueueReview, Publish, RejectFails, taskVars
<1>5. ASSUME NEW d \in Doc, OpenPage(d) PROVE UNCHANGED <<patch, base, docVars>>
  BY <1>5 DEF OpenPage, taskVars
<1>6. CASE Restart \/ Read \/ Deliver \/ RestoreFails
  <2>. UNCHANGED <<patch, base, docVars>>
    BY <1>6 DEF Restart, Read, Deliver, RestoreFails, taskVars
  <2>. QED BY <1>1
<1>7. ASSUME NEW S \in SUBSET Doc, Apply(S) PROVE UNCHANGED <<patch, base, docVars>>
  BY <1>7 DEF Apply, taskVars
<1>8. CASE ApplyFails \/ Finish \/ Report \/ Reject
  <2>. UNCHANGED <<patch, base, docVars>>
    BY <1>8 DEF ApplyFails, Finish, Report, Reject, taskVars
  <2>. QED BY <1>1
<1>9. CASE UndoFails \/ UndoDone \/ UNCHANGED vars
  <2>. UNCHANGED <<patch, base, docVars>>
    BY <1>9 DEF UndoFails, UndoDone, vars, taskVars
  <2>. QED BY <1>1
<1>. QED BY <1>1, <1>2, <1>3, <1>4, <1>5, <1>6, <1>7, <1>8, <1>9 DEF Next

\* What savePatchSet leaves behind.
LEMMA SaveEffect ==
  ASSUME Typed, Proposed, Recorded, NEW t \in Task, NEW S \in Target, Save(t, S)
  PROVE  /\ rev' = rev /\ tx' = tx /\ text' = text /\ t \notin Known
         /\ \A d \in Doc : /\ patch[t][d] = "none" /\ tx[t][d].st = "none"
                           /\ patch'[t][d] = IF d \in S THEN "proposed" ELSE "none"
                           /\ base'[t][d] = IF d \in S THEN rev[d] ELSE 0
         /\ \A u \in Task \ {t} : patch'[u] = patch[u] /\ base'[u] = base[u]
         /\ \A d \in S, u \in Task : d \in Doc /\ rev[d] = 0 =>
              patch[u][d] = "none" /\ base[u][d] = 0 /\ tx[u][d].st = "none"
<1>1. \A d \in Doc : patch[t][d] = "none" /\ tx[t][d].st = "none"
  BY DEF Save, Proposed, Recorded
<1>2. \A d \in Doc : /\ patch'[t][d] = IF d \in S THEN "proposed" ELSE "none"
                     /\ base'[t][d] = IF d \in S THEN rev[d] ELSE 0
  BY DEF Save, Typed, TaskTyped
<1>3. \A u \in Task \ {t} : patch'[u] = patch[u] /\ base'[u] = base[u]
  BY DEF Save, Typed, TaskTyped
<1>4. rev' = rev /\ tx' = tx /\ text' = text /\ t \notin Known
  BY DEF Save, docVars, Known
<1>5. \A d \in S, u \in Task : d \in Doc /\ rev[d] = 0 => patch[u][d] = "none"
  BY DEF Save
<1>6. \A d \in S, u \in Task : d \in Doc /\ rev[d] = 0 => base[u][d] = 0 /\ tx[u][d].st = "none"
  BY <1>5 DEF Recorded
<1>. QED BY <1>1, <1>2, <1>3, <1>4, <1>5, <1>6

\* What apply_agent_patch_set leaves behind, for the task that is applied.
LEMMA WriteEffect ==
  ASSUME Typed, UnderReview, Recorded, ReadIsCurrent, Write,
         NEW d \in Doc
  PROVE  /\ applying.task \in Task /\ base' = base
         /\ d \in applying.docs => /\ patch[applying.task][d] = "proposed"
                                   /\ rev[d] = base[applying.task][d]
                                   /\ tx[applying.task][d].st = "none"
         /\ rev'[d] = IF d \in applying.docs THEN rev[d] + 1 ELSE rev[d]
         /\ text'[d] = IF d \in applying.docs THEN text[d] \cup {<<"agent", applying.task>>}
                       ELSE text[d]
         /\ tx'[applying.task][d] =
              IF d \in applying.docs THEN [st |-> "applied", rev |-> rev[d] + 1, before |-> text[d]]
              ELSE tx[applying.task][d]
         /\ patch'[applying.task][d] # "none" => patch[applying.task][d] # "none"
         /\ patch'[applying.task][d] # "proposed"
         /\ \A u \in Task \ {applying.task} : tx'[u] = tx[u] /\ patch'[u] = patch[u]
<1>. DEFINE t == applying.task  S == applying.docs
<1>1. t \in Task
  BY DEF Write, UnderReview, Known, Typed, CallTyped, Applying
<1>2. d \in S => patch[t][d] = "proposed" /\ rev[d] = base[t][d] /\ applying.snap[d] = text[d]
  BY DEF Write, Writable, Patches, ReadIsCurrent, Typed, CallTyped, Applying
<1>3. d \in S => tx[t][d].st = "none"
  BY <1>1, <1>2 DEF Recorded
<1>4. rev'[d] = IF d \in S THEN rev[d] + 1 ELSE rev[d]
  BY DEF Write
<1>5. text'[d] = IF d \in S THEN text[d] \cup {<<"agent", t>>} ELSE text[d]
  <2>1. text'[d] = IF d \in S THEN applying.snap[d] \cup {<<"agent", t>>} ELSE text[d]
    BY DEF Write
  <2>. QED BY <1>2, <2>1
<1>6. tx'[t][d] = IF d \in S THEN [st |-> "applied", rev |-> rev[d] + 1, before |-> text[d]]
                 ELSE tx[t][d]
  BY <1>1 DEF Write, Typed, DocTyped
<1>7. \A u \in Task \ {t} : tx'[u] = tx[u] /\ patch'[u] = patch[u]
  BY DEF Write, Typed, DocTyped, TaskTyped
<1>8. /\ patch'[t][d] # "none" => patch[t][d] # "none"
      /\ patch'[t][d] # "proposed"
  BY <1>1, <1>2 DEF Write, Typed, TaskTyped
<1>9. base' = base
  BY DEF Write
<1>. QED BY <1>1, <1>2, <1>3, <1>4, <1>5, <1>6, <1>7, <1>8, <1>9

\* What the undoing of a write leaves behind.
LEMMA UndoEffect ==
  ASSUME Typed, Recorded, RevisionsGrow, Undo, NEW t, t = last, NEW S, S = Written(last)
  PROVE  /\ t \in Task /\ S \subseteq Doc /\ base' = base /\ patch' = patch
         /\ \A d \in S : /\ tx[t][d].st = "applied" /\ rev[d] = tx[t][d].rev /\ rev[d] > 0
                         /\ patch[t][d] \notin {"none", "proposed"}
         /\ \A d \in Doc : /\ rev'[d] = IF d \notin S THEN rev[d]
                                        ELSE IF base[t][d] = 0 THEN 0 ELSE rev[d] + 1
                           /\ text'[d] = IF d \in S THEN tx[t][d].before ELSE text[d]
         /\ \A u \in Task, d \in Doc :
              /\ tx'[u][d].rev = tx[u][d].rev /\ tx'[u][d].before = tx[u][d].before
              /\ tx'[u][d].st = IF u = t /\ d \in S THEN "undone" ELSE tx[u][d].st
         /\ \A u \in Task, d \in Doc : (u = t => d \notin S) => tx'[u][d] = tx[u][d]
         /\ \A d \in S : tx'[t][d] = [tx[t][d] EXCEPT !.st = "undone"]
<1>1. t \in Task /\ S \subseteq Doc
  BY DEF Undo, Written, Typed, ViewTyped, Maybe
<1>2. \A d \in S : tx[t][d].st = "applied" /\ rev[d] = tx[t][d].rev
  BY DEF Undo, Revertible
<1>3. \A d \in S : rev[d] > 0 /\ patch[t][d] \notin {"none", "proposed"}
  BY <1>1, <1>2 DEF RevisionsGrow, Recorded
<1>4. \A d \in Doc : rev'[d] = IF d \notin S THEN rev[d] ELSE IF base[t][d] = 0 THEN 0 ELSE rev[d] + 1
  BY DEF Undo
<1>5. \A d \in Doc : text'[d] = IF d \in S THEN tx[t][d].before ELSE text[d]
  BY DEF Undo
<1>6. \A d \in Doc : tx'[t][d] = IF d \in S THEN [tx[t][d] EXCEPT !.st = "undone"] ELSE tx[t][d]
  BY <1>1 DEF Undo, Typed, DocTyped
<1>7. \A u \in Task \ {t} : tx'[u] = tx[u]
  BY DEF Undo, Typed, DocTyped
<1>8. \A d \in Doc : tx[t][d] \in Tx
  BY <1>1 DEF Typed, DocTyped
<1>9. ASSUME NEW u \in Task, NEW d \in Doc
      PROVE  /\ tx'[u][d].rev = tx[u][d].rev /\ tx'[u][d].before = tx[u][d].before
             /\ tx'[u][d].st = IF u = t /\ d \in S THEN "undone" ELSE tx[u][d].st
  <2>1. CASE u = t /\ d \in S
    <3>1. tx'[t][d] = [tx[t][d] EXCEPT !.st = "undone"]
      BY <1>6, <2>1
    <3>. QED BY <1>8, <2>1, <3>1 DEF Tx
  <2>2. CASE ~(u = t /\ d \in S)
    BY <1>6, <1>7, <2>2
  <2>. QED BY <2>1, <2>2
<1>10. base' = base /\ patch' = patch
  BY DEF Undo, taskVars
<1>11. \A u \in Task, d \in Doc : (u = t => d \notin S) => tx'[u][d] = tx[u][d]
  BY <1>6, <1>7
<1>12. \A d \in S : tx'[t][d] = [tx[t][d] EXCEPT !.st = "undone"]
  BY <1>1, <1>6
<1>. QED BY <1>1, <1>2, <1>3, <1>4, <1>5, <1>9, <1>10, <1>11, <1>12

\* The numbers of the documents, where they are needed.
LEMMA Numbers ==
  Typed => \A d \in Doc, u \in Task : rev[d] \in Nat /\ base[u][d] \in Nat /\ tx[u][d].rev \in Nat
BY DEF Typed, TaskTyped, DocTyped, Tx

\* A document is created once, before it is changed.
LEMMA CreatedOnceStep ==
  Typed /\ Proposed /\ UnderReview /\ Recorded /\ ReadIsCurrent /\ CreatedOnce /\ RevisionsGrow
    /\ [Next]_vars => CreatedOnce'
<1>. SUFFICES ASSUME Typed, Proposed, UnderReview, Recorded, ReadIsCurrent, CreatedOnce, RevisionsGrow,
                     [Next]_vars, NEW d \in Doc, NEW s \in Task,
                     patch'[s][d] # "none", base'[s][d] = 0
              PROVE  /\ \A u \in Task : patch'[u][d] # "none" /\ base'[u][d] = 0 => u = s
                     /\ rev'[d] = 0 /\ patch'[s][d] = "proposed" =>
                          \A u \in Task : base'[u][d] = 0 /\ tx'[u][d].st = "none"
  BY DEF CreatedOnce
<1>0. rev[d] \in Nat
  BY Numbers
<1>1. CASE Decides
  BY <1>1 DEF Decides, CreatedOnce
<1>2. ASSUME NEW t \in Task, NEW S \in Target, Save(t, S)
      PROVE  /\ \A u \in Task : patch'[u][d] # "none" /\ base'[u][d] = 0 => u = s
             /\ rev'[d] = 0 /\ patch'[s][d] = "proposed" =>
                  \A u \in Task : base'[u][d] = 0 /\ tx'[u][d].st = "none"
  <2>1. /\ rev' = rev /\ tx' = tx
        /\ patch[t][d] = "none" /\ tx[t][d].st = "none"
        /\ patch'[t][d] = IF d \in S THEN "proposed" ELSE "none"
        /\ base'[t][d] = IF d \in S THEN rev[d] ELSE 0
        /\ \A u \in Task \ {t} : patch'[u] = patch[u] /\ base'[u] = base[u]
        /\ d \in S /\ rev[d] = 0 =>
             \A u \in Task : patch[u][d] = "none" /\ base[u][d] = 0 /\ tx[u][d].st = "none"
    BY <1>2, SaveEffect
  <2>2. CASE s = t
    BY <2>1, <2>2
  <2>3. CASE s # t
    <3>1. patch[s][d] # "none" /\ base[s][d] = 0 /\ patch'[s][d] = patch[s][d]
      BY <2>1, <2>3
    <3>2. ~(d \in S /\ rev[d] = 0)
      BY <2>1, <3>1
    <3>3. \A u \in Task : patch'[u][d] # "none" /\ base'[u][d] = 0 => u = s
      BY <2>1, <3>1, <3>2 DEF CreatedOnce
    <3>4. ASSUME rev'[d] = 0, patch'[s][d] = "proposed", NEW u \in Task
          PROVE  base'[u][d] = 0 /\ tx'[u][d].st = "none"
      <4>1. base[u][d] = 0 /\ tx[u][d].st = "none"
        BY <2>1, <3>1, <3>4 DEF CreatedOnce
      <4>. QED BY <2>1, <3>2, <3>4, <4>1
    <3>. QED BY <3>3, <3>4
  <2>. QED BY <2>2, <2>3
<1>3. ASSUME NEW e \in Doc, UserSave(e)
      PROVE  /\ \A u \in Task : patch'[u][d] # "none" /\ base'[u][d] = 0 => u = s
             /\ rev'[d] = 0 /\ patch'[s][d] = "proposed" =>
                  \A u \in Task : base'[u][d] = 0 /\ tx'[u][d].st = "none"
  <2>1. rev'[d] = 0 => rev[d] = 0
    BY <1>0, <1>3 DEF UserSave, Typed, DocTyped
  <2>2. patch' = patch /\ base' = base /\ tx' = tx
    BY <1>3 DEF UserSave, taskVars
  <2>. QED BY <2>1, <2>2 DEF CreatedOnce
<1>4. CASE Write
  <2>. DEFINE t == applying.task  S == applying.docs
  <2>1. /\ t \in Task /\ base' = base
        /\ rev'[d] = IF d \in S THEN rev[d] + 1 ELSE rev[d]
        /\ tx'[t][d] = IF d \in S THEN [st |-> "applied", rev |-> rev[d] + 1, before |-> text[d]]
                       ELSE tx[t][d]
        /\ patch'[t][d] # "none" => patch[t][d] # "none"
        /\ patch'[t][d] # "proposed"
        /\ \A v \in Task \ {t} : tx'[v] = tx[v] /\ patch'[v] = patch[v]
    BY <1>4, WriteEffect
  <2>2. \A u \in Task : patch'[u][d] # "none" => patch[u][d] # "none"
    BY <2>1
  <2>3. \A u \in Task : patch'[u][d] # "none" /\ base'[u][d] = 0 => u = s
    BY <2>1, <2>2 DEF CreatedOnce
  <2>4. ASSUME rev'[d] = 0, patch'[s][d] = "proposed", NEW u \in Task
        PROVE  base'[u][d] = 0 /\ tx'[u][d].st = "none"
    <3>1. d \notin S /\ rev[d] = 0
      BY <1>0, <2>1, <2>4
    <3>2. patch[s][d] = "proposed" /\ base[s][d] = 0
      BY <2>1, <2>4
    <3>3. base[u][d] = 0 /\ tx[u][d].st = "none"
      BY <3>1, <3>2 DEF CreatedOnce
    <3>. QED BY <2>1, <3>1, <3>3
  <2>. QED BY <2>3, <2>4
<1>5. CASE Undo
  <2>. DEFINE t == last  S == Written(last)
  <2>1. /\ t \in Task /\ base' = base /\ patch' = patch
        /\ d \in S => rev[d] > 0 /\ patch[t][d] \notin {"none", "proposed"}
        /\ rev'[d] = IF d \notin S THEN rev[d] ELSE IF base[t][d] = 0 THEN 0 ELSE rev[d] + 1
        /\ \A u \in Task : tx'[u][d].st = IF u = t /\ d \in S THEN "undone" ELSE tx[u][d].st
    BY <1>5, UndoEffect
  <2>2. ASSUME rev'[d] = 0, patch'[s][d] = "proposed", NEW u \in Task
        PROVE  base'[u][d] = 0 /\ tx'[u][d].st = "none"
    <3>1. d \notin S
      BY <1>0, <2>1, <2>2 DEF CreatedOnce
    <3>2. base[u][d] = 0 /\ tx[u][d].st = "none"
      BY <2>1, <2>2, <3>1 DEF CreatedOnce
    <3>. QED BY <2>1, <3>1, <3>2
  <2>. QED BY <2>1, <2>2 DEF CreatedOnce
<1>. QED BY <1>1, <1>2, <1>3, <1>4, <1>5, Writers

\* The revisions of a document that exists only grow.
LEMMA RevisionsGrowStep ==
  Typed /\ Proposed /\ UnderReview /\ Recorded /\ ReadIsCurrent /\ CreatedOnce /\ RevisionsGrow
    /\ [Next]_vars => RevisionsGrow'
<1>. SUFFICES ASSUME Typed, Proposed, UnderReview, Recorded, ReadIsCurrent, CreatedOnce, RevisionsGrow,
                     [Next]_vars, NEW d \in Doc, NEW u \in Task
              PROVE  /\ rev'[d] = 0 \/ base'[u][d] <= rev'[d]
                     /\ tx'[u][d].st # "none" =>
                          tx'[u][d].rev > 0 /\ (rev'[d] = 0 \/ tx'[u][d].rev <= rev'[d])
  BY DEF RevisionsGrow
<1>. DEFINE Goal == /\ rev'[d] = 0 \/ base'[u][d] <= rev'[d]
                    /\ tx'[u][d].st # "none" =>
                         tx'[u][d].rev > 0 /\ (rev'[d] = 0 \/ tx'[u][d].rev <= rev'[d])
<1>a. rev[d] \in Nat /\ base[u][d] \in Nat /\ tx[u][d].rev \in Nat
  BY Numbers
<1>b. /\ rev[d] = 0 \/ base[u][d] <= rev[d]
      /\ tx[u][d].st # "none" => tx[u][d].rev > 0 /\ (rev[d] = 0 \/ tx[u][d].rev <= rev[d])
  BY DEF RevisionsGrow
<1>1. CASE Decides
  BY <1>1, <1>b DEF Decides
<1>2. ASSUME NEW t \in Task, NEW S \in Target, Save(t, S) PROVE Goal
  <2>1. rev' = rev /\ tx' = tx /\ base'[u][d] \in {base[u][d], rev[d], 0}
    BY <1>2, SaveEffect
  <2>. QED BY <1>a, <1>b, <2>1
<1>3. ASSUME NEW e \in Doc, UserSave(e) PROVE Goal
  <2>1. rev'[d] = rev[d] \/ (rev[d] > 0 /\ rev'[d] = rev[d] + 1)
    <3>1. rev \in [Doc -> Nat] /\ rev' = [rev EXCEPT ![e] = @ + 1] /\ rev[e] > 0
      BY <1>3 DEF UserSave, Typed, DocTyped
    <3>2. CASE e = d
      BY <3>1, <3>2
    <3>3. CASE e # d
      BY <3>1, <3>3
    <3>. QED BY <3>2, <3>3
  <2>2. base' = base /\ tx' = tx
    BY <1>3 DEF UserSave, taskVars
  <2>. QED BY <1>a, <1>b, <2>1, <2>2
<1>4. CASE Write
  <2>. DEFINE t == applying.task  S == applying.docs
  <2>1. /\ t \in Task /\ base' = base
        /\ d \in S => patch[t][d] = "proposed" /\ rev[d] = base[t][d] /\ tx[t][d].st = "none"
        /\ rev'[d] = IF d \in S THEN rev[d] + 1 ELSE rev[d]
        /\ tx'[t][d] = IF d \in S THEN [st |-> "applied", rev |-> rev[d] + 1, before |-> text[d]]
                       ELSE tx[t][d]
        /\ \A v \in Task \ {t} : tx'[v] = tx[v] /\ patch'[v] = patch[v]
    BY <1>4, WriteEffect
  <2>2. CASE d \notin S
    BY <1>b, <2>1, <2>2
  <2>3. CASE d \in S /\ rev[d] = 0
    <3>1. base[u][d] = 0 /\ tx[u][d].st = "none"
      BY <2>1, <2>3 DEF CreatedOnce
    <3>2. u = t => tx'[u][d].rev = 1
      BY <2>1, <2>3
    <3>. QED BY <2>1, <2>3, <3>1, <3>2
  <2>4. CASE d \in S /\ rev[d] # 0
    <3>1. u = t => tx'[u][d].rev = rev[d] + 1
      BY <2>1, <2>4
    <3>. QED BY <1>a, <1>b, <2>1, <2>4, <3>1
  <2>. QED BY <2>2, <2>3, <2>4
<1>5. CASE Undo
  <2>. DEFINE t == last  S == Written(last)
  <2>1. /\ base' = base
        /\ d \in S => rev[d] > 0
        /\ rev'[d] = IF d \notin S THEN rev[d] ELSE IF base[t][d] = 0 THEN 0 ELSE rev[d] + 1
        /\ tx'[u][d].rev = tx[u][d].rev
        /\ tx'[u][d].st # "none" => tx[u][d].st # "none"
    <3>1. \A e \in S : tx[t][e].st = "applied"
      BY <1>5, UndoEffect
    <3>. QED BY <1>5, <3>1, UndoEffect
  <2>2. rev'[d] = rev[d] \/ rev'[d] = 0 \/ (rev[d] > 0 /\ rev'[d] = rev[d] + 1)
    <3>1. CASE d \in S
      BY <2>1, <3>1
    <3>2. CASE d \notin S
      BY <2>1, <3>2
    <3>. QED BY <3>1, <3>2
  <2>. QED BY <1>a, <1>b, <2>1, <2>2
<1>. QED BY <1>1, <1>2, <1>3, <1>4, <1>5, Writers

\* A write on its way that will be accepted was computed from what is there.
LEMMA ReadIsCurrentStep ==
  Typed /\ Proposed /\ UnderReview /\ Recorded /\ ReadIsCurrent /\ CreatedOnce /\ RevisionsGrow
    /\ [Next]_vars => ReadIsCurrent'
<1>. SUFFICES ASSUME Typed, Proposed, UnderReview, Recorded, ReadIsCurrent, CreatedOnce, RevisionsGrow,
                     [Next]_vars, applying'.at = "write"
              PROVE  ReadIsCurrent'
  BY DEF ReadIsCurrent
<1>1. ASSUME NEW S \in SUBSET Doc, Apply(S) PROVE ReadIsCurrent'
  <2>1. /\ S \subseteq Patches(pending) /\ patch' = patch /\ rev' = rev /\ text' = text /\ base' = base
        /\ applying' = [at |-> "write", task |-> pending, docs |-> S,
                        snap |-> [d \in Doc |-> IF d \in S THEN text[d] ELSE {}]]
    BY <1>1 DEF Apply, NotApplying, taskVars, docVars
  <2>. QED BY <2>1 DEF ReadIsCurrent, Patches
<1>2. ASSUME ~(\E S \in SUBSET Doc : Apply(S)) PROVE applying' = applying
  <2>1. ~Restart /\ ~Finish /\ ~Report
    BY DEF Restart, Finish, Report, NotApplying
  <2>5. ~Write
    BY DEF Write, NotApplying
  <2>6. ~ApplyFails
    BY DEF ApplyFails, NotApplying
  <2>2. ASSUME NEW t \in Task,
               \/ Start(t) \/ QueueReview(t) \/ Publish(t) \/ (\E S \in Target : Save(t, S))
               \/ RejectEnds(t) \/ RejectFails(t)
        PROVE  applying' = applying
    BY <2>2 DEF Start, QueueReview, Publish, Save, RejectEnds, RejectFails
  <2>3. ASSUME NEW d \in Doc, UserSave(d) \/ OpenPage(d) PROVE applying' = applying
    BY <2>3 DEF UserSave, OpenPage
  <2>4. CASE CleanUp \/ Read \/ Deliver \/ RestoreFails \/ Reject \/ Undo \/ UndoFails \/ UndoDone
             \/ UNCHANGED vars
    BY <2>4 DEF CleanUp, Read, Deliver, RestoreFails, Reject, Undo, UndoFails, UndoDone, vars
  <2>. QED BY <1>2, <2>1, <2>2, <2>3, <2>4, <2>5, <2>6 DEF Next
<1>3. CASE applying' = applying
  <2>. DEFINE a == applying.task
  <2>0. a \in Known /\ a \in Task /\ applying.docs \subseteq Doc
    BY <1>3 DEF UnderReview, Known, Typed, CallTyped, Applying
  <2>. SUFFICES ASSUME NEW d \in applying.docs
                PROVE  /\ patch'[a][d] # "none"
                       /\ patch'[a][d] = "proposed" /\ rev'[d] = base'[a][d] =>
                            applying.snap[d] = text'[d]
    BY <1>3 DEF ReadIsCurrent
  <2>. DEFINE Goal == /\ patch'[a][d] # "none"
                      /\ patch'[a][d] = "proposed" /\ rev'[d] = base'[a][d] =>
                           applying.snap[d] = text'[d]
  <2>a. d \in Doc /\ rev[d] \in Nat /\ base[a][d] \in Nat
    BY <2>0, Numbers
  <2>b. /\ patch[a][d] # "none"
        /\ patch[a][d] = "proposed" /\ rev[d] = base[a][d] => applying.snap[d] = text[d]
    BY <1>3 DEF ReadIsCurrent
  <2>c. rev[d] = 0 \/ base[a][d] <= rev[d]
    BY <2>0, <2>a DEF RevisionsGrow
  <2>1. CASE Decides
    BY <2>0, <2>a, <2>b, <2>1 DEF Decides
  <2>2. ASSUME NEW t \in Task, NEW S \in Target, Save(t, S) PROVE Goal
    <3>1. /\ rev' = rev /\ text' = text /\ t \notin Known
          /\ \A u \in Task \ {t} : patch'[u] = patch[u] /\ base'[u] = base[u]
      BY <2>2, SaveEffect
    <3>. QED BY <2>0, <2>b, <3>1
  <2>3. ASSUME NEW e \in Doc, UserSave(e) PROVE Goal
    <3>1. patch' = patch /\ base' = base
      BY <2>3 DEF UserSave, taskVars
    <3>2. CASE e = d
      <4>1. rev[d] > 0 /\ rev'[d] = rev[d] + 1
        BY <2>3, <2>a, <3>2 DEF UserSave, Typed, DocTyped
      <4>. QED BY <2>a, <2>b, <2>c, <3>1, <4>1
    <3>3. CASE e # d
      <4>1. rev'[d] = rev[d] /\ text'[d] = text[d]
        BY <2>3, <2>a, <3>3 DEF UserSave, Typed, DocTyped
      <4>. QED BY <2>b, <3>1, <4>1
    <3>. QED BY <3>2, <3>3
  <2>4. CASE Write
    BY <1>3, <2>4 DEF Write, NotApplying
  <2>5. CASE Undo
    <3>. DEFINE t == last  S == Written(last)
    <3>1. /\ t \in Task /\ base' = base /\ patch' = patch
          /\ d \in S => rev[d] > 0 /\ patch[t][d] \notin {"none", "proposed"}
          /\ rev'[d] = IF d \notin S THEN rev[d] ELSE IF base[t][d] = 0 THEN 0 ELSE rev[d] + 1
          /\ d \notin S => text'[d] = text[d]
      BY <2>5, <2>a, UndoEffect
    <3>2. CASE d \notin S
      BY <2>b, <3>1, <3>2
    <3>3. CASE d \in S /\ base[t][d] = 0
      <4>1. base[a][d] = 0 => a = t
        BY <2>0, <2>a, <2>b, <3>1, <3>3 DEF CreatedOnce
      <4>. QED BY <2>b, <3>1, <3>3, <4>1
    <3>4. CASE d \in S /\ base[t][d] # 0
      <4>1. rev'[d] = rev[d] + 1 /\ rev[d] > 0
        BY <3>1, <3>4
      <4>. QED BY <2>a, <2>b, <2>c, <3>1, <4>1
    <3>. QED BY <3>2, <3>3, <3>4
  <2>. QED BY <2>1, <2>2, <2>3, <2>4, <2>5, Writers
<1>. QED BY <1>1, <1>2, <1>3

\* A transaction's own words are the only difference it makes.
LEMMA OwnWordsStep ==
  Typed /\ Proposed /\ UnderReview /\ Recorded /\ ReadIsCurrent /\ CreatedOnce /\ RevisionsGrow
    /\ OwnWords /\ [Next]_vars => OwnWords'
<1>. SUFFICES ASSUME Typed, Proposed, UnderReview, Recorded, ReadIsCurrent, CreatedOnce, RevisionsGrow,
                     OwnWords, [Next]_vars, NEW u \in Task, NEW d \in Doc
              PROVE  /\ <<"agent", u>> \in text'[d] => tx'[u][d].st # "none"
                     /\ tx'[u][d].st # "none" => <<"agent", u>> \notin tx'[u][d].before
                     /\ tx'[u][d].st = "applied" /\ rev'[d] = tx'[u][d].rev =>
                          text'[d] = tx'[u][d].before \cup {<<"agent", u>>}
  BY DEF OwnWords
<1>. DEFINE Goal == /\ <<"agent", u>> \in text'[d] => tx'[u][d].st # "none"
                    /\ tx'[u][d].st # "none" => <<"agent", u>> \notin tx'[u][d].before
                    /\ tx'[u][d].st = "applied" /\ rev'[d] = tx'[u][d].rev =>
                         text'[d] = tx'[u][d].before \cup {<<"agent", u>>}
<1>a. rev[d] \in Nat /\ tx[u][d].rev \in Nat
  BY Numbers
<1>b. tx[u][d].st # "none" => tx[u][d].rev > 0 /\ (rev[d] = 0 \/ tx[u][d].rev <= rev[d])
  BY DEF RevisionsGrow
<1>c. /\ <<"agent", u>> \in text[d] => tx[u][d].st # "none"
      /\ tx[u][d].st # "none" => <<"agent", u>> \notin tx[u][d].before
      /\ tx[u][d].st = "applied" /\ rev[d] = tx[u][d].rev =>
           text[d] = tx[u][d].before \cup {<<"agent", u>>}
  BY DEF OwnWords
<1>1. CASE Decides
  BY <1>1, <1>c DEF Decides
<1>2. ASSUME NEW t \in Task, NEW S \in Target, Save(t, S) PROVE Goal
  <2>1. rev' = rev /\ text' = text /\ tx' = tx
    BY <1>2, SaveEffect
  <2>. QED BY <1>c, <2>1
<1>3. ASSUME NEW e \in Doc, UserSave(e) PROVE Goal
  <2>1. tx' = tx
    BY <1>3 DEF UserSave
  <2>2. CASE e = d
    <3>1. rev[d] > 0 /\ rev'[d] = rev[d] + 1 /\ text'[d] = text[d] \cup {<<"user", upsets + 1>>}
      BY <1>3, <1>a, <2>2 DEF UserSave, Typed, DocTyped
    <3>2. <<"agent", u>> \in text'[d] => <<"agent", u>> \in text[d]
      BY <3>1
    <3>3. ~(tx[u][d].st # "none" /\ rev'[d] = tx[u][d].rev)
      BY <1>a, <1>b, <3>1
    <3>. QED BY <1>c, <2>1, <3>2, <3>3
  <2>3. CASE e # d
    <3>1. rev'[d] = rev[d] /\ text'[d] = text[d]
      BY <1>3, <2>3 DEF UserSave, Typed, DocTyped
    <3>. QED BY <1>c, <2>1, <3>1
  <2>. QED BY <2>2, <2>3
<1>4. CASE Write
  <2>. DEFINE t == applying.task  S == applying.docs
  <2>1. /\ t \in Task
        /\ d \in S => patch[t][d] = "proposed" /\ rev[d] = base[t][d] /\ tx[t][d].st = "none"
        /\ rev'[d] = IF d \in S THEN rev[d] + 1 ELSE rev[d]
        /\ text'[d] = IF d \in S THEN text[d] \cup {<<"agent", t>>} ELSE text[d]
        /\ tx'[t][d] = IF d \in S THEN [st |-> "applied", rev |-> rev[d] + 1, before |-> text[d]]
                       ELSE tx[t][d]
        /\ \A v \in Task \ {t} : tx'[v] = tx[v]
    BY <1>4, WriteEffect
  <2>2. CASE d \notin S
    BY <1>c, <2>1, <2>2
  <2>3. CASE d \in S /\ u = t
    BY <1>c, <2>1, <2>3
  <2>4. CASE d \in S /\ u # t
    <3>1. tx'[u][d] = tx[u][d] /\ rev'[d] = rev[d] + 1
      BY <2>1, <2>4
    <3>2. <<"agent", u>> \in text'[d] => <<"agent", u>> \in text[d]
      BY <2>1, <2>4
    <3>3. rev[d] = 0 => tx[u][d].st = "none"
      BY <2>1, <2>4 DEF CreatedOnce
    <3>4. ~(tx[u][d].st # "none" /\ rev'[d] = tx[u][d].rev)
      BY <1>a, <1>b, <3>1, <3>3
    <3>. QED BY <1>c, <3>1, <3>2, <3>4
  <2>. QED BY <2>2, <2>3, <2>4
<1>5. CASE Undo
  <2>. DEFINE t == last  S == Written(last)
  <2>1. /\ t \in Task
        /\ d \in S => tx[t][d].st = "applied" /\ rev[d] = tx[t][d].rev /\ rev[d] > 0
        /\ rev'[d] = IF d \notin S THEN rev[d] ELSE IF base[t][d] = 0 THEN 0 ELSE rev[d] + 1
        /\ text'[d] = IF d \in S THEN tx[t][d].before ELSE text[d]
        /\ tx'[u][d].rev = tx[u][d].rev /\ tx'[u][d].before = tx[u][d].before
        /\ tx'[u][d].st = IF u = t /\ d \in S THEN "undone" ELSE tx[u][d].st
    BY <1>5, UndoEffect
  <2>2. CASE d \notin S
    BY <1>c, <2>1, <2>2
  <2>3. CASE d \in S /\ u = t
    BY <1>c, <2>1, <2>3
  <2>4. CASE d \in S /\ u # t
    <3>1. text[d] = tx[t][d].before \cup {<<"agent", t>>}
      BY <2>1, <2>4 DEF OwnWords
    <3>2. <<"agent", u>> \in text'[d] => <<"agent", u>> \in text[d]
      BY <2>1, <2>4, <3>1
    <3>3. ~(tx[u][d].st # "none" /\ rev'[d] = tx[u][d].rev)
      BY <1>a, <1>b, <2>1, <2>4
    <3>. QED BY <1>c, <2>1, <2>4, <3>2, <3>3
  <2>. QED BY <2>2, <2>3, <2>4
<1>. QED BY <1>1, <1>2, <1>3, <1>4, <1>5, Writers

\* A task is completed with its patches.
LEMMA CompletedIsDecidedStep == Typed /\ Proposed /\ UnderReview /\ Recorded /\ ReadIsCurrent /\ CompletedIsDecided /\ [Next]_vars => CompletedIsDecided'
<1>. SUFFICES ASSUME Typed, Proposed, UnderReview, Recorded, ReadIsCurrent, CompletedIsDecided, [Next]_vars PROVE CompletedIsDecided'
  OBVIOUS
<1>1. ASSUME NEW t \in Task, Start(t) PROVE CompletedIsDecided'
  BY <1>1 DEF Start, taskVars, docVars, reviewVars, CompletedIsDecided, Typed, TaskTyped
<1>2. ASSUME NEW t \in Task, QueueReview(t) PROVE CompletedIsDecided'
  BY <1>2 DEF QueueReview, taskVars, docVars, reviewVars, CompletedIsDecided, Typed, TaskTyped
<1>3. ASSUME NEW t \in Task, Publish(t) PROVE CompletedIsDecided'
  BY <1>3 DEF Publish, taskVars, docVars, reviewVars, CompletedIsDecided, Typed, TaskTyped
<1>4. ASSUME NEW t \in Task, NEW S \in Target, Save(t, S) PROVE CompletedIsDecided'
  <2>1. status[t] # "completed" /\ t \in Task
    BY <1>4 DEF Save, Proposed, Known
  <2>. QED BY <1>4, <2>1, SaveEffect DEF Save, CompletedIsDecided
<1>5. ASSUME NEW t \in Task, RejectEnds(t) PROVE CompletedIsDecided'
  BY <1>5 DEF RejectEnds, OpenNext, taskVars, docVars, reviewVars, Rejection, CompletedIsDecided, Typed, TaskTyped
<1>6. ASSUME NEW t \in Task, RejectFails(t) PROVE CompletedIsDecided'
  BY <1>6 DEF RejectFails, Upset, taskVars, docVars, reviewVars, CompletedIsDecided, Typed, TaskTyped
<1>7. ASSUME NEW d \in Doc, UserSave(d) PROVE CompletedIsDecided'
  BY <1>7 DEF UserSave, Upset, taskVars, docVars, reviewVars, CompletedIsDecided, Typed, TaskTyped
<1>8. ASSUME NEW d \in Doc, OpenPage(d) PROVE CompletedIsDecided'
  BY <1>8 DEF OpenPage, Upset, taskVars, docVars, reviewVars, CompletedIsDecided, Typed, TaskTyped
<1>9. CASE Restart
  BY <1>9 DEF Restart, Upset, taskVars, docVars, reviewVars, CompletedIsDecided, Typed, TaskTyped
<1>10. CASE CleanUp
  <2>1. \A u \in Task, d \in Doc :
          /\ u \in Superseded => patch'[u][d] # "proposed"
          /\ u \notin Superseded => patch'[u][d] = patch[u][d]
    BY <1>10 DEF CleanUp, Typed, TaskTyped
  <2>2. \A u \in Task : status'[u] = "completed" => u \in Superseded \/ status[u] = "completed"
    BY <1>10 DEF CleanUp
  <2>. QED BY <2>1, <2>2 DEF CompletedIsDecided
<1>11. CASE Read
  BY <1>11 DEF Read, taskVars, docVars, reviewVars, CompletedIsDecided, Typed, TaskTyped
<1>12. CASE Deliver
  BY <1>12 DEF Deliver, taskVars, docVars, reviewVars, CompletedIsDecided, Typed, TaskTyped
<1>13. CASE RestoreFails
  BY <1>13 DEF RestoreFails, taskVars, docVars, reviewVars, CompletedIsDecided, Typed, TaskTyped
<1>14. ASSUME NEW S \in SUBSET Doc, Apply(S) PROVE CompletedIsDecided'
  BY <1>14 DEF Apply, taskVars, docVars, reviewVars, CompletedIsDecided, Typed, TaskTyped
<1>15. CASE Write
  <2>. DEFINE t == applying.task
  <2>1. t \in Task /\ \A u \in Task \ {t} : status'[u] = status[u]
    BY <1>15 DEF Write, UnderReview, Known, Typed, CallTyped, TaskTyped, Applying
  <2>2. ASSUME NEW d \in Doc
        PROVE  patch'[t][d] # "proposed" /\ \A u \in Task \ {t} : patch'[u] = patch[u]
    BY <1>15, <2>1 DEF Write, Typed, TaskTyped
  <2>. QED BY <2>1, <2>2 DEF CompletedIsDecided
<1>16. CASE ApplyFails
  BY <1>16 DEF ApplyFails, Upset, NoUpset, taskVars, docVars, reviewVars, CompletedIsDecided, Typed, TaskTyped
<1>17. CASE Finish
  BY <1>17 DEF Finish, OpenNext, taskVars, docVars, reviewVars, CompletedIsDecided, Typed, TaskTyped
<1>18. CASE Report
  BY <1>18 DEF Report, taskVars, docVars, reviewVars, CompletedIsDecided, Typed, TaskTyped
<1>19. CASE Reject
  BY <1>19 DEF Reject, taskVars, docVars, reviewVars, CompletedIsDecided, Typed, TaskTyped
<1>20. CASE Undo
  BY <1>20 DEF Undo, taskVars, docVars, reviewVars, CompletedIsDecided, Typed, TaskTyped
<1>21. CASE UndoFails
  BY <1>21 DEF UndoFails, Upset, taskVars, docVars, reviewVars, CompletedIsDecided, Typed, TaskTyped
<1>22. CASE UndoDone
  BY <1>22 DEF UndoDone, taskVars, docVars, reviewVars, CompletedIsDecided, Typed, TaskTyped
<1>23. CASE UNCHANGED vars
  BY <1>23 DEF vars, taskVars, docVars, reviewVars, CompletedIsDecided, Typed, TaskTyped
<1>. QED BY <1>1, <1>2, <1>3, <1>4, <1>5, <1>6, <1>7, <1>8, <1>9, <1>10, <1>11, <1>12,
      <1>13, <1>14, <1>15, <1>16, <1>17, <1>18, <1>19, <1>20, <1>21, <1>22, <1>23 DEF Next

-----------------------------------------------------------------------------
(* The invariant and what follows from it. *)

IInv ==
  /\ Typed /\ Started /\ Proposed /\ UnderReview /\ Recorded /\ CreatedOnce
  /\ RevisionsGrow /\ ReadIsCurrent /\ OwnWords /\ CompletedIsDecided


LEMMA IInvInit == Init => IInv
<1>. SUFFICES ASSUME Init PROVE IInv
  OBVIOUS
<1>1. Typed
  BY TypeInit
<1>2. Started /\ Proposed /\ Recorded /\ CompletedIsDecided
  BY DEF Init, Started, Proposed, Recorded, CompletedIsDecided, NoTx, Known
<1>3. UnderReview
  BY EmptySeq DEF Init, UnderReview, NotRestoring, NotApplying
<1>4. CreatedOnce /\ ReadIsCurrent
  BY DEF Init, CreatedOnce, ReadIsCurrent, NotApplying
<1>5. RevisionsGrow
  BY DEF Init, RevisionsGrow, NoTx
<1>6. OwnWords
  BY DEF Init, OwnWords, NoTx
<1>. QED BY <1>1, <1>2, <1>3, <1>4, <1>5, <1>6 DEF IInv

LEMMA IInvStep == IInv /\ [Next]_vars => IInv'
<1>. SUFFICES ASSUME IInv, [Next]_vars PROVE IInv'
  OBVIOUS
<1>1. Typed' /\ Started' /\ Proposed'
  BY TypeStep, KnownStep, ProposedStep DEF IInv
<1>2. UnderReview' /\ Recorded'
  BY UnderReviewStep, RecordedStep DEF IInv
<1>3. CreatedOnce' /\ RevisionsGrow'
  BY CreatedOnceStep, RevisionsGrowStep DEF IInv
<1>4. ReadIsCurrent' /\ OwnWords'
  BY ReadIsCurrentStep, OwnWordsStep DEF IInv
<1>5. CompletedIsDecided'
  BY CompletedIsDecidedStep DEF IInv
<1>. QED BY <1>1, <1>2, <1>3, <1>4, <1>5 DEF IInv

LEMMA InvariantHolds == Spec => []IInv
BY IInvInit, IInvStep, PTL DEF Spec

\* Every variable stays in its type, whatever the user and the runs do.
THEOREM TypeCorrect == Spec => []TypeOK
<1>1. IInv => TypeOK
  BY TypedImpliesTypeOK DEF IInv
<1>. QED BY <1>1, InvariantHolds, PTL

\* No patch stays proposed under a completed task (agent_repository.rs,
\* reject_agent_patch_set, apply_agent_patch_set and the clean-up of the start).
THEOREM CompletedTasksAreDecided == Spec => []CompletedIsDecided
<1>1. IInv => CompletedIsDecided
  BY DEF IInv
<1>. QED BY <1>1, InvariantHolds, PTL

\* The step behind the next theorem: a transaction is recorded once and is undone
\* at most.
LEMMA TransactionStep ==
  ASSUME IInv, [Next]_vars, NEW t \in Task, NEW d \in Doc, tx[t][d].st # "none"
  PROVE  tx'[t][d] \in {tx[t][d], [tx[t][d] EXCEPT !.st = "undone"]}
<1>. USE DEF IInv
<1>1. CASE Decides
  BY <1>1 DEF Decides
<1>2. ASSUME NEW u \in Task, NEW S \in Target, Save(u, S) PROVE tx'[t][d] = tx[t][d]
  BY <1>2 DEF Save, docVars
<1>3. ASSUME NEW e \in Doc, UserSave(e) PROVE tx'[t][d] = tx[t][d]
  BY <1>3 DEF UserSave
<1>4. CASE Write
  <2>. DEFINE s == applying.task  S == applying.docs
  <2>1. /\ s \in Task /\ base' = base
        /\ d \in S => patch[s][d] = "proposed" /\ rev[d] = base[s][d] /\ tx[s][d].st = "none"
        /\ tx'[s][d] = IF d \in S THEN [st |-> "applied", rev |-> rev[d] + 1, before |-> text[d]]
                       ELSE tx[s][d]
        /\ \A v \in Task \ {s} : tx'[v] = tx[v] /\ patch'[v] = patch[v]
    BY <1>4, WriteEffect
  <2>. QED BY <2>1
<1>5. CASE Undo
  <2>1. t = last /\ d \in Written(last) => tx'[t][d] = [tx[t][d] EXCEPT !.st = "undone"]
    BY <1>5, UndoEffect
  <2>2. ~(t = last /\ d \in Written(last)) => tx'[t][d] = tx[t][d]
    BY <1>5, UndoEffect
  <2>. QED BY <2>1, <2>2
<1>. QED BY <1>1, <1>2, <1>3, <1>4, <1>5, Writers

\* A proposal is written into a document once (apply_agent_patch_set), whatever a
\* late error made of its task.
THEOREM ProposalsAreWrittenOnce == Spec => ProposalIsWrittenOnce
<1>1. IInv /\ [Next]_vars => [\A t \in Task, d \in Doc :
        tx[t][d].st # "none" => tx'[t][d] \in {tx[t][d], [tx[t][d] EXCEPT !.st = "undone"]}]_vars
  BY TransactionStep
<1>. QED BY <1>1, InvariantHolds, PTL DEF Spec, ProposalIsWrittenOnce

\* The step behind the next theorem.
LEMMA TextStep ==
  ASSUME IInv, [Next]_vars, NEW d \in Doc, text'[d] # text[d]
  PROVE  \/ \E w \in Words : text'[d] = text[d] \cup {w}
         \/ \E t \in Task : text'[d] = text[d] \ {<<"agent", t>>}
<1>. USE DEF IInv
<1>1. CASE Decides
  BY <1>1 DEF Decides
<1>2. ASSUME NEW u \in Task, NEW S \in Target, Save(u, S) PROVE FALSE
  BY <1>2 DEF Save, docVars
<1>3. ASSUME NEW e \in Doc, UserSave(e) PROVE \E w \in Words : text'[d] = text[d] \cup {w}
  <2>1. <<"user", upsets + 1>> \in Words
    BY <1>3 DEF UserSave, Upset, Words, Typed, CallTyped
  <2>2. text'[d] = text[d] \cup {<<"user", upsets + 1>>}
    BY <1>3 DEF UserSave, Typed, DocTyped
  <2>. QED BY <2>1, <2>2
<1>4. CASE Write
  <2>. DEFINE s == applying.task  S == applying.docs
  <2>1. /\ s \in Task /\ base' = base
        /\ text'[d] = IF d \in S THEN text[d] \cup {<<"agent", s>>} ELSE text[d]
        /\ tx'[s][d] = IF d \in S THEN [st |-> "applied", rev |-> rev[d] + 1, before |-> text[d]]
                       ELSE tx[s][d]
        /\ \A v \in Task \ {s} : tx'[v] = tx[v] /\ patch'[v] = patch[v]
    BY <1>4, WriteEffect
  <2>2. <<"agent", s>> \in Words
    BY <2>1 DEF Words
  <2>. QED BY <2>1, <2>2
<1>5. CASE Undo
  <2>1. /\ last \in Task
        /\ d \in Written(last) => tx[last][d].st = "applied" /\ rev[d] = tx[last][d].rev
        /\ text'[d] = IF d \in Written(last) THEN tx[last][d].before ELSE text[d]
    BY <1>5, UndoEffect
  <2>2. d \in Written(last)
    BY <2>1
  <2>3. /\ <<"agent", last>> \notin tx[last][d].before
        /\ text[d] = tx[last][d].before \cup {<<"agent", last>>}
    BY <2>1, <2>2 DEF OwnWords
  <2>4. text'[d] = text[d] \ {<<"agent", last>>}
    BY <2>1, <2>2, <2>3
  <2>. QED BY <2>1, <2>4
<1>. QED BY <1>1, <1>2, <1>3, <1>4, <1>5, Writers

\* A write and its undoing change a document by their own words only, although the
\* text of both was read earlier (useAgentPatchWorkflow.ts, apply_agent_patch_set
\* and rollback_agent_task).
THEOREM RestIsKept == Spec => WritesKeepTheRest
<1>1. IInv /\ [Next]_vars => [\A d \in Doc : text'[d] # text[d] =>
        \/ \E w \in Words : text'[d] = text[d] \cup {w}
        \/ \E t \in Task : text'[d] = text[d] \ {<<"agent", t>>}]_vars
  BY TextStep
<1>. QED BY <1>1, InvariantHolds, PTL DEF Spec, WritesKeepTheRest

=============================================================================
