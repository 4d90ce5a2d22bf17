------------------------------ MODULE AgentRun ------------------------------
(***************************************************************************)
(* The interface's side of an agent run (useAgentRun.ts, its runtime       *)
(* controller and the adapter to the Core): runs of several conversations  *)
(* at once, the questions they ask the user, stopping, the reload of the   *)
(* interface and the snapshots of the Core it is rebuilt from.             *)
(*                                                                         *)
(* A step is what the interface does between two awaits.  The Core is an   *)
(* environment here: it accepts a run, asks, ends it or crashes, keeps the *)
(* last message of the run until it is acknowledged, and sends its events  *)
(* to the interface in order.  AgentWorker is the model of that side.      *)
(***************************************************************************)
EXTENDS Naturals, Sequences, FiniteSets

CONSTANTS
  Conv,       \* conversations
  MaxRuns,    \* bound on the runs started; a run is the number of its start
  Call,       \* bound on the calls of restoreWorkerSnapshot, each made once
  QueueChanges, \* whether the queue of requests changes while the interface runs
  MaxAsks,    \* bound on the questions of one run
  MaxUpsets,  \* bound on the stops and clears of the user, the reloads of the
              \* interface, the crashes of the worker and the failed calls of the
              \* Core, together
  None        \* no conversation, no run, no question

ASSUME BoundAssumption == {MaxRuns, MaxAsks, MaxUpsets} \subseteq Nat
ASSUME QueueAssumption == QueueChanges \in BOOLEAN

Run == 1 .. MaxRuns
Question == Run \X (1 .. MaxAsks)

ASSUME NoneAssumption == None \notin Conv \cup Run \cup Question

VARIABLES
  core,       \* what the Core knows of each run
  retained,   \* runs whose terminal message the Core keeps
  cancelling, \* runs the Core was asked to cancel
  asks,       \* questions asked by each run so far
  open,       \* pending_authorizations of the Core
  feed,       \* events on their way to the interface
  task,       \* the row of each run's task
  session,    \* the conversation of each run
  activeRuns, \* the runs that have an entry in activeRuns
  runtimes,   \* the run whose view each conversation shows
  pc,         \* where run() is for each run
  client,     \* runs whose entry has its runtimeClient
  listening,  \* runs whose adapter listens to the events
  promise,    \* the entry of each run in pendingRuns of its adapter
  view,       \* the status of each run's runtime controller
  pending,    \* pendingAuthorization of each controller
  shown,      \* authorizationRequest of each controller
  steering,   \* answers on their way to the Core
  review,     \* runs whose proposal waits for the user's review
  call,       \* the calls of restoreWorkerSnapshot
  upsets

coreVars == <<core, retained, cancelling, asks, open, task>>
runVars == <<session, pc, client, listening, promise>>
viewVars == <<activeRuns, runtimes, view, pending, shown>>
vars == <<coreVars, feed, runVars, viewVars, steering, review, call, upsets>>

Ended == {"completed", "failed", "cancelled"}
\* run() has not returned.
Live == {"preparing", "working", "running", "resolved", "failing", "aborting", "failed", "aborted"}
Event == [type : {"ask"}, run : Run, n : 1 .. MaxAsks] \cup [type : {"result", "error"}, run : Run, n : {0}]
Idle == [at |-> "unused", actives |-> {}, asking |-> {}, todo |-> {}]

TypeOK ==
  /\ core \in [Run -> {"none", "submitted", "active", "result", "error", "crashed"}]
  /\ retained \subseteq Run /\ cancelling \subseteq Run
  /\ asks \in [Run -> 0 .. MaxAsks] /\ open \subseteq Question
  /\ feed \in Seq(Event)
  /\ task \in [Run -> {"none", "running", "proposed", "decided", "failed", "cancelled"}]
  /\ session \in [Run -> Conv \cup {None}]
  /\ activeRuns \subseteq Run /\ runtimes \in [Conv -> Run \cup {None}]
  /\ pc \in [Run -> Live \cup {"none", "restored", "done", "gone"}]
  /\ client \subseteq Run /\ listening \subseteq Run
  /\ promise \in [Run -> {"none", "waiting", "result", "error", "aborted"}]
  /\ view \in [Run -> Ended \cup {"none", "running", "waiting"}]
  /\ pending \in [Run -> Question \cup {None}] /\ shown \in [Run -> Question \cup {None}]
  /\ steering \subseteq [by : Run, to : Run, question : Question]
  /\ review \subseteq Run
  /\ call \in [Call -> [at : {"unused", "active", "over", "get", "project", "ackResult", "ackError"},
                        actives : SUBSET Run, asking : SUBSET Question, todo : SUBSET Run]]
  /\ upsets \in 0 .. MaxUpsets

Init ==
  /\ core = [r \in Run |-> "none"] /\ retained = {} /\ cancelling = {}
  /\ asks = [r \in Run |-> 0] /\ open = {} /\ feed = <<>> /\ task = [r \in Run |-> "none"]
  /\ session = [r \in Run |-> None] /\ activeRuns = {} /\ runtimes = [c \in Conv |-> None]
  /\ pc = [r \in Run |-> "none"] /\ client = {} /\ listening = {}
  /\ promise = [r \in Run |-> "none"] /\ view = [r \in Run |-> "none"]
  /\ pending = [r \in Run |-> None] /\ shown = [r \in Run |-> None]
  /\ steering = {} /\ review = {} /\ call = [k \in Call |-> Idle]
  /\ upsets = 0

Upset == upsets < MaxUpsets /\ upsets' = upsets + 1
NoUpset == upsets' = upsets
-----------------------------------------------------------------------------
(* activeRuns and the controllers.                                         *)

Entry(c) == {r \in activeRuns : session[r] = c}
\* A mutant of Has: a run without a client yet does not count.
HasClient(c) == Entry(c) \cap client # {}
Has(c) == Entry(c) # {}
\* finishRun: an entry is removed by its own run only.
Finish(r) == activeRuns' = activeRuns \ {r}

\* handleAuthorization of a's adapter is told that its question q is void: it
\* rejects the run q belongs to when that run is pending in this adapter.  A
\* mutant lets that run go on without its question.
VoidedQuietly(a, q, p) == p
Voided(a, q, p) ==
  IF q # None /\ q[1] = a /\ p[a] = "waiting" THEN [p EXCEPT ![a] = "aborted"] ELSE p

\* cancelPendingAuthorization of r's controller.
CancelPending(r) ==
  /\ pending' = [pending EXCEPT ![r] = None]
  /\ shown' = [shown EXCEPT ![r] = IF pending[r] = None THEN @ ELSE None]

\* complete, fail and cancel of r's controller, cancelPendingAuthorization and
\* finishRun: the end of run().
Conclude(r, status) ==
  /\ view' = [view EXCEPT ![r] = status]
  /\ pending' = [pending EXCEPT ![r] = None] /\ shown' = [shown EXCEPT ![r] = None]
  /\ Finish(r)
-----------------------------------------------------------------------------
(* run().                                                                  *)

\* Up to the first await; refused while the conversation has a run.
Start(r, c) ==
  /\ session[r] = None /\ \A s \in 1 .. (r - 1) : session[s] # None
  /\ ~Has(c)
  /\ session' = [session EXCEPT ![r] = c] /\ runtimes' = [runtimes EXCEPT ![c] = r]
  /\ activeRuns' = activeRuns \cup {r}
  /\ pc' = [pc EXCEPT ![r] = "preparing"] /\ view' = [view EXCEPT ![r] = "running"]
  /\ UNCHANGED <<coreVars, feed, client, listening, promise, pending, shown, steering, review, call, upsets>>

\* prepareAgentRun returns: the run goes on, or is refused.
Prepare(r) ==
  /\ pc[r] = "preparing"
  /\ \/ /\ pc' = [pc EXCEPT ![r] = "working"]
        /\ UNCHANGED viewVars
     \/ /\ pc' = [pc EXCEPT ![r] = "done"]
        /\ view' = [view EXCEPT ![r] = "failed"] /\ Finish(r)
        /\ UNCHANGED <<runtimes, pending, shown>>
  /\ UNCHANGED <<coreVars, feed, session, client, listening, promise, steering, review, call, upsets>>

\* The contexts are read: the run is submitted through an adapter of its own,
\* which listens from now on, or the run fails.
Submit(r) ==
  /\ pc[r] = "working"
  /\ \/ /\ pc' = [pc EXCEPT ![r] = "running"] /\ core' = [core EXCEPT ![r] = "submitted"]
        /\ client' = client \cup {r} /\ listening' = listening \cup {r}
        /\ promise' = [promise EXCEPT ![r] = "waiting"]
     \/ /\ pc' = [pc EXCEPT ![r] = "failing"]
        /\ UNCHANGED <<core, client, listening, promise>>
  /\ UNCHANGED <<retained, cancelling, asks, open, task, feed, session, viewVars, steering, review, call, upsets>>

\* The promise of the run is settled.  A result is put up for review.
Settle(r) ==
  /\ pc[r] = "running" /\ promise[r] \in {"result", "error", "aborted"}
  /\ pc' = [pc EXCEPT ![r] = CASE promise[r] = "result" -> "resolved"
                               [] promise[r] = "error" -> "failing"
                               [] OTHER -> "aborting"]
  /\ review' = IF promise[r] = "result" THEN review \cup {r} ELSE review
  /\ promise' = [promise EXCEPT ![r] = "none"]
  /\ UNCHANGED <<coreVars, feed, session, client, listening, viewVars, steering, call, upsets>>

\* The catch block stores the end of the task, if there is a row.
StoreFailure(r) ==
  /\ pc[r] \in {"failing", "aborting"}
  /\ pc' = [pc EXCEPT ![r] = IF @ = "failing" THEN "failed" ELSE "aborted"]
  /\ \/ /\ task' = [task EXCEPT ![r] = CASE @ = "none" -> @
                                        [] pc[r] = "failing" -> "failed"
                                        [] OTHER -> "cancelled"]
        /\ NoUpset
     \/ Upset /\ UNCHANGED task
  /\ UNCHANGED <<core, retained, cancelling, asks, open, feed, session, client, listening, promise,
                 viewVars, steering, review, call>>

\* The terminal message is acknowledged, which may fail, and run() returns.
Acknowledge(r) ==
  /\ pc[r] \in {"resolved", "failed", "aborted"}
  /\ pc' = [pc EXCEPT ![r] = "done"]
  /\ Conclude(r, CASE pc[r] = "resolved" -> "completed" [] pc[r] = "failed" -> "failed"
                   [] OTHER -> "cancelled")
  /\ \/ retained' = (IF r \in client THEN retained \ {r} ELSE retained) /\ NoUpset
     \/ r \in client /\ Upset /\ UNCHANGED retained
  /\ UNCHANGED <<core, cancelling, asks, open, task, feed, session, client, listening, promise,
                 runtimes, steering, review, call>>
-----------------------------------------------------------------------------
(* The user.                                                               *)

\* stop: the run of the conversation, or the only run there is.  The question
\* its controller shows is withdrawn.  A run without a client is told through
\* a signal that the path of the sidecar never reads; a run the Core does not
\* drive yet, or any more, cannot be cancelled there, which is ignored.
Target(c) ==
  IF Has(c) THEN Entry(c) ELSE IF Cardinality(activeRuns) = 1 THEN activeRuns ELSE {}
Withdraw(r) ==
  /\ Upset
  /\ cancelling' = IF r \in client /\ core[r] = "active" THEN cancelling \cup {r} ELSE cancelling
  /\ promise' = Voided(r, pending[r], promise)
  /\ view' = IF pending[r] = None THEN view ELSE [view EXCEPT ![r] = "running"]
  /\ CancelPending(r)

Stop(c) ==
  /\ \E r \in Target(c) : Withdraw(r)
  /\ UNCHANGED <<core, retained, asks, open, task, feed, session, pc, client, listening,
                 activeRuns, runtimes, steering, review, call>>

\* clearAiChat: the view of the conversation is dropped and its run stopped.
Clear(c) ==
  /\ runtimes[c] # None /\ runtimes' = [runtimes EXCEPT ![c] = None]
  /\ IF Has(c)
     THEN \E r \in Entry(c) : Withdraw(r)
     ELSE UNCHANGED <<upsets, cancelling, promise, view, pending, shown>>
  /\ UNCHANGED <<core, retained, asks, open, task, feed, session, pc, client, listening,
                 activeRuns, steering, review, call>>

\* A mutant of Steered: the adapter answers for its own run.
SteeredToItself(r, q) == [by |-> r, to |-> r, question |-> q]
\* answerAuthorization with the question the conversation shows: one of the
\* entries that show it takes the answer (the oldest, an order left open here).
\* Its adapter sends the answer to the run that asked; a restored entry, whose
\* controller does not wait, sends it to its own run.
Steered(r, q) == [by |-> r, to |-> IF pending[r] = q THEN q[1] ELSE r, question |-> q]
Answer(c) ==
  /\ runtimes[c] # None /\ shown[runtimes[c]] # None
  /\ LET q == shown[runtimes[c]]
     IN \E r \in {s \in activeRuns : shown[s] = q} :
          /\ steering' = steering \cup {Steered(r, q)}
          /\ pending' = [pending EXCEPT ![r] = None] /\ shown' = [shown EXCEPT ![r] = None]
          /\ view' = [view EXCEPT ![r] = "running"]
  /\ UNCHANGED <<coreVars, feed, runVars, activeRuns, runtimes, review, call, upsets>>

\* The review of a proposal ends: it is applied or rejected.
Decide(r) ==
  /\ r \in review /\ review' = review \ {r}
  /\ task[r] = "proposed" /\ task' = [task EXCEPT ![r] = "decided"]
  /\ UNCHANGED <<core, retained, cancelling, asks, open, feed, runVars, viewVars, steering, call, upsets>>

\* The interface is loaded again; only the Core remembers the runs.
Reload ==
  /\ Upset
  /\ feed' = <<>> /\ activeRuns' = {} /\ runtimes' = [c \in Conv |-> None]
  /\ pc' = [r \in Run |-> IF pc[r] = "none" THEN "none" ELSE "gone"]
  /\ client' = {} /\ listening' = {} /\ promise' = [r \in Run |-> "none"]
  /\ view' = [r \in Run |-> "none"]
  /\ pending' = [r \in Run |-> None] /\ shown' = [r \in Run |-> None]
  /\ review' = {r \in Run : task[r] = "proposed"}
  /\ call' = [k \in Call |-> IF call[k].at = "unused" THEN Idle ELSE [Idle EXCEPT !.at = "over"]]
  /\ UNCHANGED <<coreVars, session, steering>>
-----------------------------------------------------------------------------
(* The Core and its events.                                                *)

\* An event is sent to the adapters that listen; without one it is lost.
Emit(type, r, n) ==
  feed' = IF listening = {} THEN feed ELSE Append(feed, [type |-> type, run |-> r, n |-> n])

\* The supervisor starts the run, or refuses it and the call fails.
CoreStart(r) ==
  /\ core[r] = "submitted"
  /\ \/ /\ core' = [core EXCEPT ![r] = "active"] /\ task' = [task EXCEPT ![r] = "running"]
        /\ UNCHANGED promise /\ NoUpset
     \/ /\ Upset /\ core' = [core EXCEPT ![r] = "none"] /\ UNCHANGED task
        /\ promise' = IF promise[r] = "waiting" THEN [promise EXCEPT ![r] = "error"] ELSE promise
  /\ UNCHANGED <<retained, cancelling, asks, open, feed, session, pc, client, listening, viewVars,
                 steering, review, call>>

CoreAsk(r) ==
  /\ core[r] = "active" /\ asks[r] < MaxAsks /\ \A q \in open : q[1] # r
  /\ asks' = [asks EXCEPT ![r] = @ + 1] /\ open' = open \cup {<<r, asks[r] + 1>>}
  /\ Emit("ask", r, asks[r] + 1)
  /\ UNCHANGED <<core, retained, cancelling, task, runVars, viewVars, steering, review, call, upsets>>

\* The run ends with a result, whose proposal is stored first, or an error.
\* A run that waits for an answer ends only when it is cancelled.
CoreEnd(r, type) ==
  /\ core[r] = "active" /\ ((r \in cancelling /\ type = "error") \/ \A q \in open : q[1] # r)
  /\ core' = [core EXCEPT ![r] = type] /\ retained' = retained \cup {r}
  /\ open' = {q \in open : q[1] # r}
  /\ task' = IF type = "result" THEN [task EXCEPT ![r] = "proposed"] ELSE task
  /\ Emit(type, r, 0) /\ cancelling' = cancelling \ {r}
  /\ UNCHANGED <<asks, runVars, viewVars, steering, review, call, upsets>>

\* The worker's process ends: its runs get a terminal message, but no event.
CoreCrash ==
  /\ Upset /\ \E r \in Run : core[r] = "active"
  /\ LET lost == {r \in Run : core[r] = "active"}
     IN /\ core' = [r \in Run |-> IF r \in lost THEN "crashed" ELSE core[r]]
        /\ retained' = retained \cup lost
        /\ open' = {}
        /\ task' = [r \in Run |-> IF r \in lost THEN "failed" ELSE task[r]]
  /\ cancelling' = {}
  /\ UNCHANGED <<asks, feed, runVars, viewVars, steering, review, call>>

\* handleAuthorization: every adapter that listens asks its own controller, the
\* ones of other runs and of runs that have returned included.  A question the
\* controller still waits for is voided.
Asked(q) ==
  /\ promise' = [r \in Run |-> IF r \in listening THEN Voided(r, pending[r], promise)[r] ELSE promise[r]]
  /\ pending' = [r \in Run |-> IF r \in listening THEN q ELSE pending[r]]
  /\ shown' = [r \in Run |-> IF r \in listening THEN q ELSE shown[r]]
  /\ view' = [r \in Run |-> IF r \in listening THEN "waiting" ELSE view[r]]
\* handleMessage: the adapter that drives the run settles its promise.
Told(e) ==
  /\ promise' = [promise EXCEPT ![e.run] =
       IF e.run \in listening /\ @ = "waiting" THEN e.type ELSE @]
  /\ UNCHANGED <<pending, shown, view>>
Deliver ==
  /\ feed # <<>> /\ feed' = Tail(feed)
  /\ LET e == Head(feed) IN IF e.type = "ask" THEN Asked(<<e.run, e.n>>) ELSE Told(e)
  /\ UNCHANGED <<coreVars, session, pc, client, listening, activeRuns, runtimes, steering, review, call, upsets>>

\* steerRun: the Core refuses an answer nothing waits for, and the adapter
\* rejects the run it was given for when that run is pending in it.
Steer(s) ==
  /\ s \in steering /\ steering' = steering \ {s}
  /\ IF s.question \in open /\ s.to = s.question[1]
     THEN open' = open \ {s.question} /\ UNCHANGED promise
     ELSE /\ promise' = IF s.question[1] = s.by /\ promise[s.by] = "waiting"
                        THEN [promise EXCEPT ![s.by] = "error"] ELSE promise
          /\ UNCHANGED open
  /\ UNCHANGED <<core, retained, cancelling, asks, task, feed, session, pc, client, listening,
                 viewVars, review, call, upsets>>
-----------------------------------------------------------------------------
(* restoreWorkerSnapshot.                                                  *)

At(k, at) == call' = [call EXCEPT ![k].at = at]

\* The snapshot is taken: at the start of the interface and whenever the queue
\* of requests changes.  A call that has nothing to restore is left out.
Snapshot(k) ==
  /\ call[k].at = "unused" /\ (QueueChanges \/ \E r \in Run : pc[r] = "gone")
  /\ LET actives == {r \in Run : core[r] = "active"}
     IN /\ actives \cup retained # {}
        /\ call' = [call EXCEPT ![k] = [at |-> "active", actives |-> actives,
                                        asking |-> {q \in open : q[1] \in actives}, todo |-> retained]]
  /\ UNCHANGED <<coreVars, feed, runVars, viewVars, steering, review, upsets>>

\* The terminal messages are taken in order; those whose conversation has a run
\* or a view are skipped.
Current(k) == CHOOSE r \in call[k].todo : \A s \in call[k].todo : r <= s
Proceed(k, todo) ==
  LET bare == {r \in todo : runtimes'[session[r]] = None
                             /\ \A s \in activeRuns' : session[s] # session[r]}
  IN call' = [call EXCEPT ![k] = IF bare = {} THEN [Idle EXCEPT !.at = "over"]
                                 ELSE [at |-> "get", actives |-> {}, asking |-> {},
                                       todo |-> {r \in todo : \E s \in bare : s <= r}]]

\* The active runs of conversations without an entry get one, with a view.  Its
\* client was never started, so that no event of the run reaches it.
RestoreActive(k) ==
  LET new == {r \in call[k].actives : ~Has(session[r])
                 /\ \A s \in call[k].actives : session[s] = session[r] => r <= s}
      asked == [r \in new |-> {q \in call[k].asking : q[1] = r}]
  IN /\ call[k].at = "active"
     /\ activeRuns' = activeRuns \cup new
     /\ runtimes' = [c \in Conv |-> IF \E r \in new : session[r] = c
                                    THEN CHOOSE r \in new : session[r] = c ELSE runtimes[c]]
     /\ pc' = [r \in Run |-> IF r \in new THEN "restored" ELSE pc[r]]
     /\ client' = client \cup new /\ listening' = listening \ new
     /\ promise' = [r \in Run |-> IF r \in new THEN "none" ELSE promise[r]]
     /\ pending' = [r \in Run |-> IF r \in new THEN None ELSE pending[r]]
     /\ shown' = [r \in Run |-> IF r \notin new THEN shown[r]
                                ELSE IF asked[r] = {} THEN None ELSE CHOOSE q \in asked[r] : TRUE]
     /\ view' = [r \in Run |-> IF r \notin new THEN view[r]
                               ELSE IF asked[r] = {} THEN "running" ELSE "waiting"]
     /\ Proceed(k, call[k].todo)
     /\ UNCHANGED <<coreVars, feed, session, steering, review, upsets>>

\* The view of the terminal, shown when nothing is left to wait for.
Close(k, status) ==
  /\ runtimes' = [runtimes EXCEPT ![session[Current(k)]] = Current(k)]
  /\ view' = [view EXCEPT ![Current(k)] = status]
  /\ pending' = [pending EXCEPT ![Current(k)] = None] /\ shown' = [shown EXCEPT ![Current(k)] = None]
  /\ listening' = listening \ {Current(k)}
  /\ UNCHANGED activeRuns
  /\ Proceed(k, call[k].todo \ {Current(k)})

Get(k) ==
  /\ call[k].at = "get"
  /\ \/ /\ Current(k) \in retained /\ core[Current(k)] = "result" /\ At(k, "project")
        /\ UNCHANGED <<viewVars, listening>>
     \/ /\ core[Current(k)] # "result" /\ At(k, "ackError")
        /\ UNCHANGED <<viewVars, listening>>
     \/ Current(k) \notin retained /\ core[Current(k)] = "result" /\ Close(k, "failed")
  /\ UNCHANGED <<coreVars, feed, session, pc, client, promise, steering, review, upsets>>

\* A mutant of Unprojected: the message is acknowledged all the same.
ReleasedUnprojected(k) == Close(k, "failed") /\ retained' = retained \ {Current(k)}
Unprojected(k) == Close(k, "failed") /\ UNCHANGED retained

\* The output is resolved once more, which stores the proposal again and puts
\* it up for review.  A result that cannot be projected is kept.
Project(k) ==
  /\ call[k].at = "project"
  /\ \/ /\ task' = [task EXCEPT ![Current(k)] = "proposed"] /\ review' = review \cup {Current(k)}
        /\ At(k, "ackResult") /\ UNCHANGED <<viewVars, listening>>
        /\ UNCHANGED retained
     \/ Unprojected(k) /\ UNCHANGED <<task, review>>
  /\ UNCHANGED <<core, cancelling, asks, open, feed, session, pc, client, promise,
                 steering, upsets>>

\* A message somebody else has acknowledged turns a result into a failure.
AckTerminal(k) ==
  /\ call[k].at \in {"ackResult", "ackError"} /\ retained' = retained \ {Current(k)}
  /\ Close(k, IF call[k].at = "ackResult" /\ Current(k) \in retained THEN "completed" ELSE "failed")
  /\ UNCHANGED <<core, cancelling, asks, open, task, feed, session, pc, client, promise,
                 steering, review, upsets>>
-----------------------------------------------------------------------------
RunStep(r) == Prepare(r) \/ Submit(r) \/ Settle(r) \/ StoreFailure(r) \/ Acknowledge(r)
CoreRun(r) == CoreStart(r) \/ CoreEnd(r, "result") \/ CoreEnd(r, "error")
Restore(k) == RestoreActive(k) \/ Get(k) \/ Project(k) \/ AckTerminal(k)

Next ==
  \/ \E r \in Run, c \in Conv : Start(r, c)
  \/ \E r \in Run : RunStep(r) \/ CoreRun(r) \/ CoreAsk(r) \/ Decide(r)
  \/ \E c \in Conv : Stop(c) \/ Clear(c) \/ Answer(c)
  \/ Reload \/ CoreCrash \/ Deliver
  \/ \E s \in steering : Steer(s)
  \/ \E k \in Call : Snapshot(k) \/ Restore(k)

Spec == Init /\ [][Next]_vars

\* The interface, the Core and its projection keep going, and the user answers
\* the questions shown.  Nobody has to start, stop or decide anything.
FairSpec ==
  /\ Spec
  /\ \A r \in Run : WF_vars(RunStep(r)) /\ WF_vars(CoreRun(r))
  /\ \A k \in Call : WF_vars(Restore(k))
  /\ \A c \in Conv : WF_vars(Answer(c))
  /\ WF_vars(Deliver) /\ WF_vars(\E s \in steering : Steer(s))
-----------------------------------------------------------------------------
(* Properties.                                                             *)

\* The entries of activeRuns are the runs whose run() has not returned and the
\* restored ones, one per conversation, whatever restores and starts overlap:
\* what stop and answerAuthorization look through.
ActiveRunsAreDriven ==
  /\ activeRuns = {r \in Run : pc[r] \in Live \cup {"restored"}}
  /\ \A r, s \in activeRuns : session[r] = session[s] => r = s

\* Every controller that listens shows the question of any run, but the answer
\* is sent to the run that asked.
AnswerReachesItsAsker == \A s \in steering : s.to = s.question[1]

\* A question that has reached the interface and whose run still waits for its
\* end there is shown by some entry or its answer is on the way.
OnItsWay(q) == \E i \in DOMAIN feed : feed[i].type = "ask" /\ <<feed[i].run, feed[i].n>> = q
QuestionIsAnswerable ==
  \A q \in open :
    pc[q[1]] = "running" /\ promise[q[1]] = "waiting" /\ ~OnItsWay(q) =>
      \/ \E r \in activeRuns : shown[r] = q
      \/ \E s \in steering : s.question = q

\* A result leaves the Core only when its proposal is up for review or has been
\* decided, or when the run that waited for it has failed in the interface.
ReviewedBeforeRelease ==
  [][\A r \in retained \ retained' :
       core[r] = "result" => r \in review \/ task[r] = "decided" \/ pc[r] \in {"failed", "aborted"}]_vars

\* A run the interface waits for ends there, with all the questions it asks and
\* those of the other conversations, unless the worker crashed or its view was
\* replaced.
LiveRunEnds ==
  \A r \in Run : pc[r] = "running" ~>
    \/ pc[r] # "running" \/ core[r] = "crashed"
    \/ \E c \in Conv : session[r] = c /\ runtimes[c] # r

\* What does not hold: an event of one run leaves the other runs alone.
EventsStayInTheirRun ==
  [][Deliver =>
       \A r \in Run \ {Head(feed).run} : promise'[r] = promise[r]]_vars
\* What does not hold: the view of a run restored from a snapshot ends with it.
RestoredRunEnds ==
  \A r \in Run : pc[r] = "restored" /\ core[r] \in {"result", "error"} ~> pc[r] # "restored"
\* What does not hold: a proposal the user has decided stays decided.
DecidedStaysDecided == [][\A r \in Run : task[r] = "decided" => task'[r] = "decided"]_vars
=============================================================================
