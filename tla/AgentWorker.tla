---------------------------- MODULE AgentWorker ----------------------------
(***************************************************************************)
(* The Node sidecar that runs agents (packages/agent-runtime-worker) and   *)
(* the supervisor that owns its process (agent_worker_supervisor.rs).  The *)
(* two talk over the pipes of the process, one JSON message per line, in   *)
(* order.  The worker drives the runs: it plans one, asks the model,       *)
(* executes tools through the supervisor, compiles the proposal and sends  *)
(* one result or error.  The supervisor starts and cancels runs, executes  *)
(* the tools, stores the audit, the task and the proposal, and keeps the   *)
(* last message of a run until the application has acknowledged it.        *)
(*                                                                         *)
(* A run waits for one reply at a time; pc[r] names the reply, so that it  *)
(* also says in which pending map of the host the run has an entry.        *)
(***************************************************************************)
EXTENDS Naturals, Sequences

CONSTANTS
  Run,          \* identifiers of runs; the application never uses one twice
  Direct,       \* runs submitted as a complete request (run.start)
  Finalized,    \* planned runs whose result is compiled into a proposal
  Guarded,      \* runs whose tool needs the consent of the user
  MaxTurns,     \* turns of the model in one run
  MaxRestarts,  \* MAX_RESTARTS
  MaxCancels,   \* bound on the cancellations requested
  MaxFaults     \* bound on crashes, signals and failed writes of the database

ASSUME RunAssumption == Direct \subseteq Run /\ Finalized \subseteq Run \ Direct /\ Guarded \subseteq Run
ASSUME BoundAssumption == {MaxTurns, MaxRestarts, MaxCancels, MaxFaults} \subseteq Nat

VARIABLES
  sup,        \* the supervisor serves a process, waits to restart it, or has ended
  restarts,   \* restart_count
  claimed,    \* claimed_run_ids
  active,     \* active_run_ids
  known,      \* the keys of run_requests
  asking,     \* pending_authorizations: the questions shown, each <<run, kind>>
  terminals,  \* terminal_messages: what is kept for each run
  calls,      \* tool and provider calls being executed, each <<run, kind>>
  tasks,      \* agent_tasks: the task of each planned run
  audit,      \* agent_tool_calls: the row of the run's tool call
  consents,   \* runs whose user has allowed the tool
  toWorker, toHost,  \* the pipes
  proc,       \* the process of the worker
  pc,         \* what each run does in the worker
  turn,       \* turns of the model so far
  micro,      \* continuations queued while one chunk of lines is handled
  draining,   \* the chunk is handled, its continuations run
  cancels, faults

supervisor == <<sup, restarts, claimed, active, known, asking, terminals>>
rows == <<tasks, audit, consents>>
worker == <<proc, pc, turn, micro, draining>>
bounds == <<cancels, faults>>
vars == <<supervisor, calls, rows, toWorker, toHost, worker, bounds>>

Waits == {"model", "opened", "asking", "consulting", "tool", "closed", "finalizing"}
Pc == Waits \cup {"none", "planning", "ready", "replied", "aborting", "over"}

Line(type, r, arg) == [type |-> type, run |-> r, arg |-> arg]
Lines == [type : {"start", "cancel", "reply", "prepared", "finalized", "result",
                  "error", "ask", "invoke", "record", "provider"},
          run : Run, arg : Waits \cup {"", "yes", "no"}]

TypeOK ==
  /\ sup \in {"serving", "waiting", "ended"} /\ restarts \in 0 .. MaxRestarts + 1
  /\ claimed \subseteq Run /\ active \subseteq Run /\ known \subseteq Run
  /\ asking \subseteq Run \X {"asking", "consulting"}
  /\ terminals \in [Run -> {"none", "result", "error", "lost"}]
  /\ calls \subseteq Run \X {"model", "tool", "finalizing"}
  /\ tasks \in [Run -> {"none", "running", "proposed", "interrupted"}]
  /\ audit \in [Run -> {"none", "running", "settled"}] /\ consents \subseteq Run
  /\ toWorker \in Seq([type : {"start", "cancel", "reply"}, run : Run,
                       arg : Waits \cup {""}, answer : {"", "yes", "no"}])
  /\ toHost \in Seq(Lines)
  /\ proc \in {"running", "stopping", "exited"} /\ pc \in [Run -> Pc]
  /\ turn \in [Run -> 0 .. MaxTurns] /\ draining \in BOOLEAN
  /\ micro \in Seq({"prepare", "refuse"} \X Run)
  /\ cancels \in 0 .. MaxCancels /\ faults \in 0 .. MaxFaults

Init ==
  /\ sup = "serving" /\ restarts = 0
  /\ claimed = {} /\ active = {} /\ known = {} /\ asking = {} /\ calls = {}
  /\ terminals = [r \in Run |-> "none"] /\ tasks = [r \in Run |-> "none"]
  /\ audit = [r \in Run |-> "none"] /\ consents = {}
  /\ toWorker = <<>> /\ toHost = <<>>
  /\ proc = "running" /\ pc = [r \in Run |-> "none"] /\ turn = [r \in Run |-> 0]
  /\ micro = <<>> /\ draining = FALSE
  /\ cancels = 0 /\ faults = 0

-----------------------------------------------------------------------------
(* What the worker sends.                                                  *)

Alive == proc # "exited"
Order(type, r, arg, answer) == [type |-> type, run |-> r, arg |-> arg, answer |-> answer]
Tell(lines) == toHost' = toHost \o lines
\* Run r goes on to s and sends the lines meanwhile.
Go(r, s, lines) == pc' = [pc EXCEPT ![r] = s] /\ Tell(lines)

\* A run the runtime holds: cancelRun finds it.  It is released before the
\* host compiles the proposal.
InRuntime(r) == pc[r] \notin {"none", "planning", "finalizing", "over"}
\* A run the host waits for: activeRunPromises.
InHost(r) == InRuntime(r) \/ pc[r] = "finalizing"

\* startRun of the host and of the runtime, up to the first turn.
Drive(r, lines) ==
  IF pc[r] \in {"none", "planning"} THEN Go(r, "ready", lines)
  ELSE Go(r, pc[r], lines \o <<Line("error", r, "")>>)

\* The end of executeTool: its row is settled.
CloseCall(r) == Go(r, "closed", <<Line("record", r, "closed")>>)
\* The middle of executeTool: a call on the host, a question to the user, or
\* a proposal and a progress report, which stay in the worker.
Execute(r) ==
  \/ Go(r, "tool", <<Line("invoke", r, "tool")>>)
  \/ Go(r, "consulting", <<Line("ask", r, "consulting")>>)
  \/ CloseCall(r)

Fails(r) == Go(r, "over", <<Line("error", r, "")>>)
\* A mutant of Completes: the result is sent while the proposal is compiled.
CompletesEarly(r) ==
  Go(r, "over", <<Line("result", r, "")>>
                  \o (IF r \in Finalized THEN <<Line("finalized", r, "")>> ELSE <<>>))
Completes(r) ==
  Go(r, "over", (IF r \in Finalized THEN <<Line("finalized", r, "")>> ELSE <<>>)
                  \o <<Line("result", r, "")>>)
-----------------------------------------------------------------------------
(* What the worker receives.                                               *)

\* A mutant of Allowed: any answer of the user is a consent.
AnyAnswer(m) == m.answer # ""
Allowed(m) == m.answer = "yes"

\* A reply resumes the run that waits for it and is dropped otherwise.
Reply(m) ==
  /\ UNCHANGED <<turn, micro, proc>>
  /\ IF pc[m.run] # m.arg
     THEN UNCHANGED <<pc, toHost>>
     ELSE \/ m.arg = "model" /\ m.answer = "yes" /\ Go(m.run, "replied", <<>>)
          \/ m.arg = "model" /\ m.answer = "no" /\ Fails(m.run)
          \/ m.arg = "opened" /\ m.run \in Guarded /\ Go(m.run, "asking", <<Line("ask", m.run, "asking")>>)
          \/ m.arg = "opened" /\ m.run \notin Guarded /\ Execute(m.run)
          \/ m.arg = "asking" /\ Allowed(m) /\ Execute(m.run)
          \/ m.arg = "asking" /\ ~Allowed(m) /\ CloseCall(m.run)
          \/ m.arg \in {"consulting", "tool"} /\ CloseCall(m.run)
          \/ m.arg = "closed" /\ Go(m.run, "ready", <<>>)
          \/ m.arg = "finalizing" /\ m.answer = "yes" /\ Completes(m.run)
          \/ m.arg = "finalizing" /\ Fails(m.run)
\* planSidecarRun is asynchronous: its continuation runs after the chunk.
Start(m) ==
  IF m.run \in Direct
  THEN Drive(m.run, <<>>) /\ UNCHANGED <<turn, micro, proc>>
  ELSE /\ micro' = Append(micro, <<"prepare", m.run>>)
       /\ pc' = [pc EXCEPT ![m.run] = IF @ = "none" THEN "planning" ELSE @]
       /\ UNCHANGED <<turn, proc, toHost>>

\* The abort signal of a run in the runtime rejects what the run waits for;
\* any other run is answered with run_not_found.
Cancel(m) ==
  /\ IF InRuntime(m.run)
     THEN pc' = [pc EXCEPT ![m.run] = "aborting"] /\ UNCHANGED micro
     ELSE micro' = Append(micro, <<"refuse", m.run>>) /\ UNCHANGED pc
  /\ UNCHANGED <<turn, proc, toHost>>

\* onMessage: the lines of one chunk are handled before any continuation,
\* and a worker that stops drops them.
Receive ==
  /\ Alive /\ toWorker # <<>> /\ ~draining
  /\ LET m == Head(toWorker) IN
     IF proc = "stopping" THEN UNCHANGED <<pc, turn, micro, proc, toHost>>
     ELSE \/ m.type = "start" /\ Start(m)
          \/ m.type = "cancel" /\ Cancel(m)
          \/ m.type = "reply" /\ Reply(m)
  /\ toWorker' = Tail(toWorker)
  /\ UNCHANGED <<supervisor, calls, rows, draining, bounds>>

\* The oldest continuation: the planned run starts, or a cancellation fails.
Continue ==
  /\ Alive /\ micro # <<>>
  /\ \/ Head(micro)[1] = "prepare" /\ Drive(Head(micro)[2], <<Line("prepared", Head(micro)[2], "")>>)
     \/ Head(micro)[1] = "refuse" /\ Tell(<<Line("error", Head(micro)[2], "")>>) /\ UNCHANGED pc
  /\ micro' = Tail(micro) /\ draining' = (Len(micro) > 1)
  /\ UNCHANGED <<supervisor, calls, rows, toWorker, proc, turn, bounds>>

-----------------------------------------------------------------------------
(* What the worker does by itself, between two chunks.                     *)

Step(r) == Alive /\ micro = <<>> /\ UNCHANGED <<supervisor, calls, rows, toWorker, proc, micro, draining, bounds>>

\* A turn of the model: its request goes through the supervisor.
AskModel(r) ==
  /\ Step(r) /\ pc[r] = "ready"
  /\ \/ turn[r] < MaxTurns /\ turn' = [turn EXCEPT ![r] = @ + 1] /\ Go(r, "model", <<Line("provider", r, "model")>>)
     \/ Fails(r) /\ UNCHANGED turn

\* executeTool records the call before anything else.
CallTool(r) ==
  /\ Step(r) /\ pc[r] = "replied" /\ turn[r] < MaxTurns
  /\ Go(r, "opened", <<Line("record", r, "opened")>>) /\ UNCHANGED turn
\* The last turn: the result, the proposal compiled from it (which may need
\* the regular expressions of the supervisor), or a result that is refused.
Finish(r) ==
  /\ Step(r) /\ pc[r] = "replied" /\ UNCHANGED turn
  /\ \/ Completes(r)
     \/ r \in Finalized /\ Go(r, "finalizing", <<Line("invoke", r, "finalizing")>>)
     \/ Fails(r)

\* A mutant of Abort: a cancelled run ends without a message.
AbortQuietly(r) == Step(r) /\ pc[r] = "aborting" /\ Go(r, "over", <<>>) /\ UNCHANGED turn
\* An aborted run throws: the settled row of its tool call is not sent.
Abort(r) == Step(r) /\ pc[r] = "aborting" /\ Fails(r) /\ UNCHANGED turn

\* SIGTERM: stop() cancels what the runtime holds.
Signal ==
  /\ proc = "running" /\ faults < MaxFaults /\ faults' = faults + 1 /\ ~draining
  /\ proc' = "stopping"
  /\ pc' = [r \in Run |-> IF InRuntime(r) THEN "aborting" ELSE pc[r]]
  /\ UNCHANGED <<supervisor, calls, rows, toWorker, toHost, turn, micro, draining, cancels>>

\* ... and waits for every run before the process ends.
Exit ==
  /\ proc = "stopping" /\ micro = <<>> /\ \A r \in Run : ~InHost(r)
  /\ proc' = "exited"
  /\ UNCHANGED <<supervisor, calls, rows, toWorker, toHost, pc, turn, micro, draining, bounds>>

Crash ==
  /\ Alive /\ sup = "serving" /\ faults < MaxFaults /\ faults' = faults + 1
  /\ proc' = "exited"
  /\ UNCHANGED <<supervisor, calls, rows, toWorker, toHost, pc, turn, micro, draining, cancels>>

-----------------------------------------------------------------------------
(* The supervisor: commands.                                               *)

Write(order) == toWorker' = Append(toWorker, order)

\* A run is claimed before its line is written, and active once it is.
Submit(r) ==
  /\ sup = "serving" /\ r \notin claimed
  /\ claimed' = claimed \cup {r}
  /\ IF Alive
     THEN /\ Write(Order("start", r, "", ""))
          /\ active' = active \cup {r} /\ known' = known \cup {r}
     ELSE UNCHANGED <<toWorker, active, known>>
  /\ UNCHANGED <<sup, restarts, asking, terminals, calls, rows, toHost, worker, bounds>>

CancelRun(r) ==
  /\ sup = "serving" /\ r \in active /\ Alive
  /\ cancels < MaxCancels /\ cancels' = cancels + 1
  /\ Write(Order("cancel", r, "", ""))
  /\ UNCHANGED <<supervisor, calls, rows, toHost, worker, faults>>

\* steer_run with the answer of the user to the question it has been shown.
Answer(r) == \E k \in {"asking", "consulting"}, answer \in {"yes", "no"} :
  /\ sup = "serving" /\ <<r, k>> \in asking /\ asking' = asking \ {<<r, k>>}
  /\ consents' = IF k = "asking" /\ answer = "yes" THEN consents \cup {r} ELSE consents
  /\ IF Alive THEN Write(Order("reply", r, k, answer)) ELSE UNCHANGED toWorker
  /\ UNCHANGED <<sup, restarts, claimed, active, known, terminals, calls, tasks, audit, toHost, worker, bounds>>

Acknowledge(r) ==
  /\ terminals[r] # "none" /\ terminals' = [terminals EXCEPT ![r] = "none"]
  /\ UNCHANGED <<sup, restarts, claimed, active, known, asking, calls, rows, toWorker, toHost, worker, bounds>>

-----------------------------------------------------------------------------
(* The supervisor: the end of a process.                                   *)

Interrupted == [r \in Run |-> IF r \in active /\ tasks[r] = "running" THEN "interrupted" ELSE tasks[r]]
\* What is still in the pipe is lost; every active run gets an error that
\* may be retried, its unfinished task is interrupted.
Down ==
  /\ terminals' = [r \in Run |-> IF r \in active /\ terminals[r] = "none" THEN "lost" ELSE terminals[r]]
  /\ tasks' = Interrupted
  /\ active' = {} /\ known' = {} /\ asking' = {} /\ calls' = {}
  /\ toWorker' = <<>> /\ toHost' = <<>>
  /\ proc' = "exited" /\ pc' = [r \in Run |-> "none"] /\ turn' = [r \in Run |-> 0]
  /\ micro' = <<>> /\ draining' = FALSE
  /\ restarts' = restarts + 1
  /\ sup' = IF restarts < MaxRestarts THEN "waiting" ELSE "ended"
  /\ UNCHANGED <<claimed, audit, consents>>

EndOfOutput == sup = "serving" /\ proc = "exited" /\ toHost = <<>> /\ Down /\ UNCHANGED bounds

\* A mutant of HeartbeatLost: stop() leaves the heartbeat running.
HeartbeatGoesOn == sup = "serving" /\ proc = "stopping" /\ faults > MaxFaults /\ Down /\ UNCHANGED bounds
\* A worker that stops no longer sends heartbeats.
HeartbeatLost == sup = "serving" /\ proc = "stopping" /\ Down /\ UNCHANGED bounds

Spawn(n) ==
  /\ sup' = "serving" /\ restarts' = n /\ proc' = "running"
  /\ UNCHANGED <<claimed, active, known, asking, terminals, calls, rows, toWorker, toHost, pc, turn, micro, draining, bounds>>
Restart == sup = "waiting" /\ Spawn(restarts)
\* ensure_supervisor: the next submission starts a new supervisor.
Ensure == sup = "ended" /\ Run \ claimed # {} /\ Spawn(0)

\* The user shuts the worker down: its runs are forgotten as they are.
Shutdown ==
  /\ sup = "serving" /\ faults < MaxFaults /\ faults' = faults + 1
  /\ sup' = "ended" /\ proc' = "exited"
  /\ active' = {} /\ known' = {} /\ asking' = {} /\ calls' = {}
  /\ toWorker' = <<>> /\ toHost' = <<>> /\ micro' = <<>> /\ draining' = FALSE
  /\ pc' = [r \in Run |-> "none"] /\ turn' = [r \in Run |-> 0]
  /\ UNCHANGED <<restarts, claimed, terminals, rows, cancels>>

-----------------------------------------------------------------------------
(* The supervisor: lines of the worker.                                    *)

Serves == UNCHANGED <<sup, restarts, claimed, worker>>

Prepared(r) ==
  /\ tasks' = [tasks EXCEPT ![r] = IF @ = "none" THEN "running" ELSE @]
  /\ known' = known \cup {r}
  /\ Serves /\ UNCHANGED <<active, asking, terminals, calls, audit, consents, toWorker>>

Proposed(r) ==
  /\ tasks' = [tasks EXCEPT ![r] = "proposed"]
  /\ Serves /\ UNCHANGED <<active, known, asking, terminals, calls, audit, consents, toWorker>>

Ends(r, outcome) ==
  /\ terminals' = [terminals EXCEPT ![r] = outcome]
  /\ active' = active \ {r} /\ known' = known \ {r} /\ asking' = {q \in asking : q[1] # r}
  /\ Serves /\ UNCHANGED <<calls, rows, toWorker>>

Asks(r, k) ==
  /\ asking' = asking \cup {<<r, k>>}
  /\ Serves /\ UNCHANGED <<active, known, terminals, calls, rows, toWorker>>

Runs(r, k) ==
  /\ calls' = calls \cup {<<r, k>>}
  /\ Serves /\ UNCHANGED <<active, known, asking, terminals, rows, toWorker>>

Records(r, k) ==
  /\ audit' = [audit EXCEPT ![r] = IF k = "opened" THEN "running" ELSE "settled"]
  /\ Write(Order("reply", r, k, "yes"))
  /\ Serves /\ UNCHANGED <<active, known, asking, terminals, calls, tasks, consents>>

Handles(m) ==
  \/ m.type = "prepared" /\ Prepared(m.run)
  \/ m.type = "finalized" /\ Proposed(m.run)
  \/ m.type \in {"result", "error"} /\ Ends(m.run, m.type)
  \/ m.type = "ask" /\ Asks(m.run, m.arg)
  \/ m.type \in {"invoke", "provider"} /\ Runs(m.run, m.arg)
  \/ m.type = "record" /\ Records(m.run, m.arg)

\* A mutant of Refused: the last terminal message of a run is kept.
RefusedUnknown(m) ==
  \/ m.type \in {"finalized", "provider"} /\ m.run \notin known
  \/ m.type = "record" /\ ~Alive
\* The lines handle_worker_line refuses: of a run it does not know, a second
\* terminal message (buffer_terminal_message), a reply that cannot be written.
Refused(m) ==
  \/ m.type \in {"finalized", "provider"} /\ m.run \notin known
  \/ m.type \in {"result", "error"} /\ terminals[m.run] # "none"
  \/ m.type = "record" /\ ~Alive
Stored(m) == m.type \in {"prepared", "finalized", "record"}

HandleLine ==
  /\ sup = "serving" /\ toHost # <<>>
  /\ ~Refused(Head(toHost)) /\ Handles(Head(toHost))
  /\ toHost' = Tail(toHost) /\ UNCHANGED bounds

\* One line that is refused kills the process,
KillWorker ==
  /\ sup = "serving" /\ toHost # <<>> /\ Refused(Head(toHost))
  /\ Down /\ UNCHANGED bounds

\* and so does one that cannot be stored.
StoreFails ==
  /\ sup = "serving" /\ toHost # <<>> /\ Stored(Head(toHost))
  /\ faults < MaxFaults /\ faults' = faults + 1
  /\ Down /\ UNCHANGED cancels

\* A call ends, well or not, and its reply is written.
CallEnds(r, k) == \E answer \in {"yes", "no"} :
  /\ <<r, k>> \in calls /\ calls' = calls \ {<<r, k>>}
  /\ IF Alive THEN Write(Order("reply", r, k, answer)) ELSE UNCHANGED toWorker
  /\ UNCHANGED <<supervisor, rows, toHost, worker, bounds>>

-----------------------------------------------------------------------------
Next ==
  \/ Receive \/ Continue \/ Signal \/ Exit \/ Crash
  \/ \E r \in Run : AskModel(r) \/ CallTool(r) \/ Finish(r) \/ Abort(r)
  \/ \E r \in Run : Submit(r) \/ CancelRun(r) \/ Answer(r) \/ Acknowledge(r)
  \/ \E r \in Run, k \in {"model", "tool", "finalizing"} : CallEnds(r, k)
  \/ EndOfOutput \/ HeartbeatLost \/ Restart \/ Ensure \/ Shutdown \/ HandleLine \/ KillWorker \/ StoreFails

Spec == Init /\ [][Next]_vars

\* The event loop of the worker runs, the calls of the supervisor end (each
\* has a deadline), and so do its loop and the pause before a restart.
Fairness ==
  /\ WF_vars(Receive) /\ WF_vars(Continue)
  /\ \A r \in Run : /\ WF_vars(AskModel(r)) /\ WF_vars(CallTool(r) \/ Finish(r)) /\ WF_vars(Abort(r))
                    /\ \A k \in {"model", "tool", "finalizing"} : WF_vars(CallEnds(r, k))
  /\ WF_vars(HandleLine) /\ WF_vars(KillWorker) /\ WF_vars(EndOfOutput)
  /\ WF_vars(HeartbeatLost) /\ WF_vars(Restart)

FairSpec == Spec /\ Fairness

-----------------------------------------------------------------------------
(* Properties.                                                             *)

InPipe(types, r) == \E i \in DOMAIN toHost : toHost[i].run = r /\ toHost[i].type \in types

\* The two sides agree: a run the supervisor counts as active, in a worker
\* that is not stopping, is on its way there, driven there, or its last
\* message is on its way back (active_run_ids against activeRunIds).
ActiveIsDriven ==
  sup = "serving" /\ proc = "running" =>
    \A r \in active :
      \/ InHost(r) \/ pc[r] = "planning" \/ InPipe({"result", "error"}, r)
      \/ \E i \in DOMAIN toWorker : toWorker[i].type = "start" /\ toWorker[i].run = r

\* The result of a run that proposes changes is kept only once its proposal
\* is stored (orchestration.completed precedes run.result in the pipe).
ResultIsProposed ==
  \A r \in Finalized : terminals[r] = "result" => tasks[r] = "proposed"

\* The supervisor executes a tool only when the row of the call is stored and,
\* for a tool that needs it, the user has allowed it: three messages of the
\* worker and two answers, each of which may fail, lie before the call.
ToolIsCleared ==
  \A r \in Run : <<r, "tool">> \in calls => audit[r] = "running" /\ (r \in Guarded => r \in consents)

\* What a run came to is kept: its terminal message changes only when the
\* application acknowledges it, and a stored proposal survives the end of the
\* process that made it, whatever the run's own last message was
\* (docs/pi-runtime-phase2-decision.md:57).
OutcomeIsKept ==
  [][\A r \in Run :
       /\ terminals[r] # "none" => terminals'[r] \in {terminals[r], "none"}
       /\ tasks[r] = "proposed" => tasks'[r] = "proposed"]_vars

\* A run does not stay active for ever, unless the user owes it an answer:
\* also when the worker hangs in stop(), is killed or restarted.
ActiveRunEnds ==
  \A r \in Run : r \in active ~> r \notin active \/ \E q \in asking : q[1] = r

\* docs/pi-runtime-phase2-decision.md:57 counts the unique terminal message of
\* a cancelled run among what is covered: a terminal message on its way belongs
\* to a run that has not ended.
TerminalEndsAnActiveRun ==
  \A r \in Run : InPipe({"result", "error"}, r) => r \in active

\* docs/agent-runtime.md:133: a run ends only after the tools it has started
\* have written their last state.
EndedRunHasSettledCalls ==
  \A r \in Run : terminals[r] # "none" => audit[r] # "running"
=============================================================================
