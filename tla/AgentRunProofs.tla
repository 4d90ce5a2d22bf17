--------------------------- MODULE AgentRunProofs ---------------------------
(* Theorems about AgentRun, for any conversations and any bounds.           *)
EXTENDS AgentRun, WellFoundedInduction, TLAPS

USE BoundAssumption, NoneAssumption

LEMMA RunIsNat == Run \subseteq Nat
BY DEF Run

\* Every non-empty set of runs has a first one.
LEMMA FirstRun ==
  ASSUME NEW S \in SUBSET Run, S # {}
  PROVE  \E r \in S : \A s \in S : r <= s
<1>1. IsWellFoundedOn(OpToRel(<, Nat), Nat)
  BY NatLessThanWellFounded
<1>2. S \subseteq Nat
  BY RunIsNat
<1>3. PICK r \in S : \A s \in S : ~(<<s, r>> \in OpToRel(<, Nat))
  BY <1>1, <1>2, WFMin, Zenon
<1>4. \A s \in S : ~(s < r)
  BY <1>2, <1>3, Zenon DEF OpToRel
<1>5. \A s \in S : r <= s
  BY <1>2, <1>4
<1>. QED BY <1>5

\* The terminal message a call works on is one of those it has left.
LEMMA CurrentIsLeft ==
  ASSUME NEW k \in Call, call[k].todo \in SUBSET Run, call[k].todo # {}
  PROVE  Current(k) \in call[k].todo
BY FirstRun DEF Current

-----------------------------------------------------------------------------
(* Type correctness, by groups of variables. *)

Promises == {"none", "waiting", "result", "error", "aborted"}
CoreTyped ==
  /\ core \in [Run -> {"none", "submitted", "active", "result", "error", "crashed"}]
  /\ retained \subseteq Run /\ cancelling \subseteq Run
  /\ asks \in [Run -> 0 .. MaxAsks] /\ open \subseteq Question
  /\ feed \in Seq(Event)
  /\ task \in [Run -> {"none", "running", "proposed", "decided", "failed", "cancelled"}]
RunTyped ==
  /\ session \in [Run -> Conv \cup {None}]
  /\ pc \in [Run -> Live \cup {"none", "restored", "done", "gone"}]
  /\ client \subseteq Run /\ listening \subseteq Run
  /\ promise \in [Run -> Promises]
ViewTyped ==
  /\ activeRuns \subseteq Run /\ runtimes \in [Conv -> Run \cup {None}]
  /\ view \in [Run -> Ended \cup {"none", "running", "waiting"}]
  /\ pending \in [Run -> Question \cup {None}] /\ shown \in [Run -> Question \cup {None}]
  /\ steering \subseteq [by : Run, to : Run, question : Question]
  /\ review \subseteq Run
\* A call that works on a terminal message has one left.
CallTyped ==
  /\ call \in [Call -> [at : {"unused", "active", "over", "get", "project", "ackResult", "ackError"},
                        actives : SUBSET Run, asking : SUBSET Question, todo : SUBSET Run]]
  /\ \A k \in Call : call[k].at \in {"get", "project", "ackResult", "ackError"} => call[k].todo # {}
  /\ upsets \in 0 .. MaxUpsets
Typed == CoreTyped /\ RunTyped /\ ViewTyped /\ CallTyped

LEMMA TypedImpliesTypeOK == Typed => TypeOK
BY DEF Typed, CoreTyped, RunTyped, ViewTyped, CallTyped, TypeOK, Promises

LEMMA TypeInit == Init => Typed
BY DEF Init, Typed, CoreTyped, RunTyped, ViewTyped, CallTyped, Idle, Ended, Live, Promises

\* What voiding a question does to the promises of the runs.
LEMMA VoidedTyped ==
  ASSUME NEW p \in [Run -> Promises], NEW a \in Run, NEW q
  PROVE  Voided(a, q, p) \in [Run -> Promises]
BY DEF Voided, Promises

\* An event sent keeps the feed typed.
LEMMA EmitTyped ==
  ASSUME feed \in Seq(Event), NEW t, NEW r, NEW n,
         [type |-> t, run |-> r, n |-> n] \in Event, Emit(t, r, n)
  PROVE  feed' \in Seq(Event)
BY DEF Emit

\* Going on to the next terminal message keeps the calls typed.
LEMMA ProceedTyped ==
  ASSUME CallTyped, NEW k \in Call, NEW todo \in SUBSET Run, Proceed(k, todo),
         UNCHANGED upsets
  PROVE  CallTyped'
<1>. DEFINE bare == {r \in todo : runtimes'[session[r]] = None
                                  /\ \A s \in activeRuns' : session[s] # session[r]}
            rest == {r \in todo : \E s \in bare : s <= r}
            Call1 == [at : {"unused", "active", "over", "get", "project", "ackResult", "ackError"},
                      actives : SUBSET Run, asking : SUBSET Question, todo : SUBSET Run]
<1>1. CASE bare = {}
  <2>1. call' = [call EXCEPT ![k] = [at |-> "over", actives |-> {}, asking |-> {}, todo |-> {}]]
    <3>1. [Idle EXCEPT !.at = "over"] = [at |-> "over", actives |-> {}, asking |-> {}, todo |-> {}]
      BY DEF Idle
    <3>. QED BY <1>1, <3>1 DEF Proceed
  <2>. QED BY <2>1 DEF CallTyped
<1>2. CASE bare # {}
  <2>1. call' = [call EXCEPT ![k] = [at |-> "get", actives |-> {}, asking |-> {}, todo |-> rest]]
    BY <1>2 DEF Proceed
  <2>2. rest # {} /\ rest \in SUBSET Run
    <3>1. PICK s \in bare : TRUE
      BY <1>2
    <3>2. s \in todo
      BY <3>1
    <3>3. s \in Nat
      BY <3>2, RunIsNat
    <3>4. s <= s
      BY <3>3
    <3>. QED BY <3>1, <3>2, <3>4
  <2>. HIDE DEF rest, bare
  <2>3. [at |-> "get", actives |-> {}, asking |-> {}, todo |-> rest] \in Call1
    BY <2>2
  <2>. QED BY <2>1, <2>2, <2>3 DEF CallTyped
<1>. QED BY <1>1, <1>2

\* Every step keeps the variables typed.
LEMMA TypeStep == Typed /\ [Next]_vars => Typed'
<1>. SUFFICES ASSUME Typed, [Next]_vars PROVE Typed'
  OBVIOUS
<1>. USE DEF Typed, coreVars, runVars, viewVars, Upset, NoUpset
<1>1. ASSUME NEW r \in Run, NEW c \in Conv, Start(r, c) PROVE Typed'
  <2>1. CoreTyped'
    BY <1>1 DEF Start, CoreTyped, RunTyped, ViewTyped
  <2>2. RunTyped'
    BY <1>1 DEF Start, RunTyped, ViewTyped, CoreTyped, Live, Promises
  <2>3. ViewTyped'
    BY <1>1 DEF Start, ViewTyped, CoreTyped, RunTyped, Ended
  <2>4. CallTyped'
    BY <1>1 DEF Start, CallTyped, CoreTyped
  <2>. QED BY <2>1, <2>2, <2>3, <2>4
<1>2. ASSUME NEW r \in Run, Prepare(r) PROVE Typed'
  <2>1. CoreTyped'
    BY <1>2 DEF Prepare, Finish, CoreTyped, RunTyped, ViewTyped
  <2>2. RunTyped'
    BY <1>2 DEF Prepare, Finish, RunTyped, Live, Promises
  <2>3. ViewTyped'
    BY <1>2 DEF Prepare, Finish, ViewTyped, Ended
  <2>4. CallTyped'
    BY <1>2 DEF Prepare, Finish, CallTyped, CoreTyped
  <2>. QED BY <2>1, <2>2, <2>3, <2>4
<1>3. ASSUME NEW r \in Run, Submit(r) PROVE Typed'
  <2>1. CoreTyped'
    BY <1>3 DEF Submit, CoreTyped, RunTyped, ViewTyped
  <2>2. RunTyped'
    <3>1. session' \in [Run -> Conv \cup {None}]
      BY <1>3 DEF Submit, RunTyped
    <3>2. pc' \in [Run -> Live \cup {"none", "restored", "done", "gone"}]
      BY <1>3 DEF Submit, RunTyped, Live
    <3>3. client' \subseteq Run /\ listening' \subseteq Run
      BY <1>3 DEF Submit, RunTyped
    <3>4. promise' \in [Run -> Promises]
      BY <1>3 DEF Submit, RunTyped, Promises
    <3>. QED BY <3>1, <3>2, <3>3, <3>4 DEF RunTyped
  <2>3. ViewTyped'
    BY <1>3 DEF Submit, ViewTyped, CoreTyped, RunTyped, Ended
  <2>4. CallTyped'
    BY <1>3 DEF Submit, CallTyped, CoreTyped
  <2>. QED BY <2>1, <2>2, <2>3, <2>4
<1>4. ASSUME NEW r \in Run, Settle(r) PROVE Typed'
  <2>1. CoreTyped'
    BY <1>4 DEF Settle, CoreTyped, RunTyped, ViewTyped
  <2>2. RunTyped'
    BY <1>4 DEF Settle, RunTyped, ViewTyped, CoreTyped, Live, Promises
  <2>3. ViewTyped'
    BY <1>4 DEF Settle, ViewTyped, CoreTyped, RunTyped, Ended
  <2>4. CallTyped'
    BY <1>4 DEF Settle, CallTyped, CoreTyped
  <2>. QED BY <2>1, <2>2, <2>3, <2>4
<1>5. ASSUME NEW r \in Run, StoreFailure(r) PROVE Typed'
  <2>1. CoreTyped'
    BY <1>5 DEF StoreFailure, CoreTyped, RunTyped, ViewTyped
  <2>2. RunTyped'
    BY <1>5 DEF StoreFailure, RunTyped, ViewTyped, CoreTyped, Live, Promises
  <2>3. ViewTyped'
    BY <1>5 DEF StoreFailure, ViewTyped, CoreTyped, RunTyped, Ended
  <2>4. CallTyped'
    BY <1>5 DEF StoreFailure, CallTyped, CoreTyped
  <2>. QED BY <2>1, <2>2, <2>3, <2>4
<1>6. ASSUME NEW r \in Run, Acknowledge(r) PROVE Typed'
  <2>1. CoreTyped'
    BY <1>6 DEF Acknowledge, Conclude, Finish, CoreTyped, RunTyped, ViewTyped
  <2>2. RunTyped'
    BY <1>6 DEF Acknowledge, Conclude, Finish, RunTyped, ViewTyped, CoreTyped, Live, Promises
  <2>3. ViewTyped'
    BY <1>6 DEF Acknowledge, Conclude, Finish, ViewTyped, CoreTyped, RunTyped, Ended
  <2>4. CallTyped'
    BY <1>6 DEF Acknowledge, Conclude, Finish, CallTyped, CoreTyped
  <2>. QED BY <2>1, <2>2, <2>3, <2>4
<1>7. ASSUME NEW c \in Conv, Stop(c) PROVE Typed'
  <2>1. CoreTyped'
    BY <1>7 DEF Stop, Withdraw, Target, Entry, Voided, CancelPending, CoreTyped, RunTyped, ViewTyped
  <2>2. RunTyped'
    BY <1>7 DEF Stop, Withdraw, Target, Entry, Voided, CancelPending, RunTyped, ViewTyped, CoreTyped, Live, Promises
  <2>3. ViewTyped'
    BY <1>7 DEF Stop, Withdraw, Target, Entry, Voided, CancelPending, ViewTyped, CoreTyped, RunTyped, Ended
  <2>4. CallTyped'
    BY <1>7 DEF Stop, Withdraw, Target, Entry, Voided, CancelPending, CallTyped, CoreTyped
  <2>. QED BY <2>1, <2>2, <2>3, <2>4
<1>8. ASSUME NEW c \in Conv, Clear(c) PROVE Typed'
  <2>1. CoreTyped'
    BY <1>8 DEF Clear, Withdraw, Entry, Voided, CancelPending, CoreTyped, RunTyped, ViewTyped
  <2>2. RunTyped'
    <3>1. CASE UNCHANGED promise
      BY <1>8, <3>1 DEF Clear, RunTyped
    <3>2. ASSUME NEW r \in Entry(c), Withdraw(r) PROVE RunTyped'
      BY <1>8, <3>2, VoidedTyped DEF Clear, Withdraw, Entry, RunTyped, ViewTyped
    <3>. QED BY <1>8, <3>1, <3>2 DEF Clear
  <2>3. ViewTyped'
    <3>1. CASE UNCHANGED <<view, pending, shown>>
      BY <1>8, <3>1 DEF Clear, ViewTyped
    <3>2. ASSUME NEW r \in Entry(c), Withdraw(r) PROVE ViewTyped'
      BY <1>8, <3>2 DEF Clear, Withdraw, CancelPending, Entry, ViewTyped, Ended
    <3>. QED BY <1>8, <3>1, <3>2 DEF Clear
  <2>4. CallTyped'
    BY <1>8 DEF Clear, Withdraw, Entry, Voided, CancelPending, CallTyped, CoreTyped
  <2>. QED BY <2>1, <2>2, <2>3, <2>4
<1>9. ASSUME NEW c \in Conv, Answer(c) PROVE Typed'
  <2>1. CoreTyped'
    BY <1>9 DEF Answer, Steered, Question, CoreTyped, RunTyped, ViewTyped
  <2>2. RunTyped'
    BY <1>9 DEF Answer, Steered, Question, RunTyped, ViewTyped, CoreTyped, Live, Promises
  <2>3. ViewTyped'
    BY <1>9 DEF Answer, Steered, Question, ViewTyped, CoreTyped, RunTyped, Ended
  <2>4. CallTyped'
    BY <1>9 DEF Answer, Steered, Question, CallTyped, CoreTyped
  <2>. QED BY <2>1, <2>2, <2>3, <2>4
<1>10. ASSUME NEW r \in Run, Decide(r) PROVE Typed'
  <2>1. CoreTyped'
    BY <1>10 DEF Decide, CoreTyped, RunTyped, ViewTyped
  <2>2. RunTyped'
    BY <1>10 DEF Decide, RunTyped, ViewTyped, CoreTyped, Live, Promises
  <2>3. ViewTyped'
    BY <1>10 DEF Decide, ViewTyped, CoreTyped, RunTyped, Ended
  <2>4. CallTyped'
    BY <1>10 DEF Decide, CallTyped, CoreTyped
  <2>. QED BY <2>1, <2>2, <2>3, <2>4
<1>11. CASE Reload
  <2>1. CoreTyped'
    BY <1>11 DEF Reload, Idle, CoreTyped, RunTyped, ViewTyped
  <2>2. RunTyped'
    BY <1>11 DEF Reload, Idle, RunTyped, ViewTyped, CoreTyped, Live, Promises
  <2>3. ViewTyped'
    BY <1>11 DEF Reload, Idle, ViewTyped, CoreTyped, RunTyped, Ended
  <2>4. CallTyped'
    <3>1. upsets' \in 0 .. MaxUpsets
      BY <1>11 DEF Reload, CallTyped
    <3>2. call' = [k \in Call |-> IF call[k].at = "unused" THEN Idle ELSE [Idle EXCEPT !.at = "over"]]
      BY <1>11 DEF Reload
    <3>3. [Idle EXCEPT !.at = "over"] = [at |-> "over", actives |-> {}, asking |-> {}, todo |-> {}]
      BY DEF Idle
    <3>. QED BY <3>1, <3>2, <3>3 DEF CallTyped, Idle
  <2>. QED BY <2>1, <2>2, <2>3, <2>4
<1>12. ASSUME NEW r \in Run, CoreStart(r) PROVE Typed'
  <2>1. CoreTyped'
    BY <1>12 DEF CoreStart, CoreTyped, RunTyped, ViewTyped
  <2>2. RunTyped'
    <3>1. UNCHANGED <<session, pc, client, listening>>
      BY <1>12 DEF CoreStart
    <3>2. promise' = promise \/ promise' = [promise EXCEPT ![r] = "error"]
      BY <1>12 DEF CoreStart
    <3>3. promise' \in [Run -> Promises]
      BY <3>2 DEF RunTyped, Promises
    <3>. QED BY <3>1, <3>3 DEF RunTyped
  <2>3. ViewTyped'
    BY <1>12 DEF CoreStart, ViewTyped, CoreTyped, RunTyped, Ended
  <2>4. CallTyped'
    BY <1>12 DEF CoreStart, CallTyped, CoreTyped
  <2>. QED BY <2>1, <2>2, <2>3, <2>4
<1>13. ASSUME NEW r \in Run, CoreAsk(r) PROVE Typed'
  <2>1. CoreTyped'
    <3>1. asks[r] + 1 \in 0 .. MaxAsks /\ asks[r] + 1 \in 1 .. MaxAsks
      BY <1>13 DEF CoreAsk, CoreTyped
    <3>2. feed' \in Seq(Event)
      <4>1. [type |-> "ask", run |-> r, n |-> asks[r] + 1] \in Event
        BY <3>1 DEF Event
      <4>. QED BY <1>13, <4>1, EmitTyped DEF CoreAsk, CoreTyped
    <3>3. <<r, asks[r] + 1>> \in Question
      BY <3>1 DEF Question
    <3>. QED BY <1>13, <3>1, <3>2, <3>3 DEF CoreAsk, CoreTyped
  <2>2. RunTyped'
    BY <1>13 DEF CoreAsk, Emit, Question, RunTyped, ViewTyped, CoreTyped, Live, Promises
  <2>3. ViewTyped'
    BY <1>13 DEF CoreAsk, Emit, Question, ViewTyped, CoreTyped, RunTyped, Ended
  <2>4. CallTyped'
    BY <1>13 DEF CoreAsk, Emit, Question, CallTyped, CoreTyped
  <2>. QED BY <2>1, <2>2, <2>3, <2>4
<1>14. ASSUME NEW r \in Run, NEW t \in {"result", "error"}, CoreEnd(r, t) PROVE Typed'
  <2>1. CoreTyped'
    <3>1. feed' \in Seq(Event)
      <4>1. [type |-> t, run |-> r, n |-> 0] \in Event
        BY DEF Event
      <4>. QED BY <1>14, <4>1, EmitTyped DEF CoreEnd, CoreTyped
    <3>. QED BY <1>14, <3>1 DEF CoreEnd, CoreTyped
  <2>2. RunTyped'
    BY <1>14 DEF CoreEnd, Emit, RunTyped, ViewTyped, CoreTyped, Live, Promises
  <2>3. ViewTyped'
    BY <1>14 DEF CoreEnd, Emit, ViewTyped, CoreTyped, RunTyped, Ended
  <2>4. CallTyped'
    BY <1>14 DEF CoreEnd, Emit, CallTyped, CoreTyped
  <2>. QED BY <2>1, <2>2, <2>3, <2>4
<1>15. CASE CoreCrash
  <2>1. CoreTyped'
    BY <1>15 DEF CoreCrash, CoreTyped, RunTyped, ViewTyped
  <2>2. RunTyped'
    BY <1>15 DEF CoreCrash, RunTyped, ViewTyped, CoreTyped, Live, Promises
  <2>3. ViewTyped'
    BY <1>15 DEF CoreCrash, ViewTyped, CoreTyped, RunTyped, Ended
  <2>4. CallTyped'
    BY <1>15 DEF CoreCrash, CallTyped, CoreTyped
  <2>. QED BY <2>1, <2>2, <2>3, <2>4
<1>16. CASE Deliver
  <2>1. CoreTyped'
    BY <1>16 DEF Deliver, Asked, Told, Voided, Question, CoreTyped, RunTyped, ViewTyped
  <2>2. RunTyped'
    <3>1. Head(feed) \in Event
      BY <1>16 DEF Deliver, CoreTyped
    <3>2. ASSUME NEW r \in Run PROVE Voided(r, pending[r], promise)[r] \in Promises
      BY VoidedTyped DEF RunTyped
    <3>3. promise' \in [Run -> Promises]
      <4>1. CASE Asked(<<Head(feed).run, Head(feed).n>>)
        BY <3>2, <4>1 DEF Asked, RunTyped
      <4>2. CASE Told(Head(feed)) /\ Head(feed).type # "ask"
        <5>1. Head(feed).run \in Run /\ Head(feed).type \in Promises
          BY <3>1, <4>2 DEF Event, Promises
        <5>. QED BY <4>2, <5>1 DEF Told, RunTyped
      <4>. QED BY <1>16, <4>1, <4>2 DEF Deliver
    <3>. QED BY <1>16, <3>3 DEF Deliver, RunTyped
  <2>3. ViewTyped'
    <3>1. Head(feed) \in Event
      BY <1>16 DEF Deliver, CoreTyped
    <3>2. CASE Told(Head(feed))
      BY <1>16, <3>2 DEF Deliver, Told, ViewTyped
    <3>3. CASE Asked(<<Head(feed).run, Head(feed).n>>) /\ Head(feed).type = "ask"
      <4>1. <<Head(feed).run, Head(feed).n>> \in Question
        BY <3>1, <3>3 DEF Event, Question
      <4>. QED BY <1>16, <3>3, <4>1 DEF Deliver, Asked, ViewTyped
    <3>. QED BY <1>16, <3>2, <3>3 DEF Deliver
  <2>4. CallTyped'
    BY <1>16 DEF Deliver, Asked, Told, Voided, Question, CallTyped, CoreTyped
  <2>. QED BY <2>1, <2>2, <2>3, <2>4
<1>17. ASSUME NEW s \in steering, Steer(s) PROVE Typed'
  <2>1. CoreTyped'
    BY <1>17 DEF Steer, CoreTyped, RunTyped, ViewTyped
  <2>2. RunTyped'
    <3>1. UNCHANGED <<session, pc, client, listening>>
      BY <1>17 DEF Steer
    <3>2. promise' \in [Run -> Promises]
      BY <1>17 DEF Steer, RunTyped, Promises
    <3>. QED BY <3>1, <3>2 DEF RunTyped
  <2>3. ViewTyped'
    BY <1>17 DEF Steer, ViewTyped, CoreTyped, RunTyped, Ended
  <2>4. CallTyped'
    BY <1>17 DEF Steer, CallTyped, CoreTyped
  <2>. QED BY <2>1, <2>2, <2>3, <2>4
<1>18. ASSUME NEW k \in Call, Snapshot(k) PROVE Typed'
  <2>1. CoreTyped'
    BY <1>18 DEF Snapshot, CoreTyped, RunTyped, ViewTyped
  <2>2. RunTyped'
    BY <1>18 DEF Snapshot, RunTyped, ViewTyped, CoreTyped, Live, Promises
  <2>3. ViewTyped'
    BY <1>18 DEF Snapshot, ViewTyped, CoreTyped, RunTyped, Ended
  <2>4. CallTyped'
    BY <1>18 DEF Snapshot, CallTyped, CoreTyped
  <2>. QED BY <2>1, <2>2, <2>3, <2>4
<1>19. ASSUME NEW k \in Call, RestoreActive(k) PROVE Typed'
  <2>1. CoreTyped'
    BY <1>19 DEF RestoreActive, Proceed, Idle, CoreTyped, RunTyped, ViewTyped, CallTyped
  <2>2. RunTyped'
    BY <1>19 DEF RestoreActive, Proceed, Idle, RunTyped, ViewTyped, CoreTyped, Live, CallTyped, Promises
  <2>3. ViewTyped'
    BY <1>19 DEF RestoreActive, Proceed, Idle, ViewTyped, CoreTyped, RunTyped, Ended, CallTyped
  <2>4. CallTyped'
    <3>1. Proceed(k, call[k].todo) /\ UNCHANGED upsets
      BY <1>19 DEF RestoreActive
    <3>. QED BY <3>1, ProceedTyped DEF CallTyped
  <2>. QED BY <2>1, <2>2, <2>3, <2>4
<1>20. ASSUME NEW k \in Call, Get(k) PROVE Typed'
  <2>0. Current(k) \in call[k].todo /\ Current(k) \in Run
    BY <1>20, CurrentIsLeft DEF Get, CallTyped
  <2>1. CoreTyped'
    BY <1>20, <2>0 DEF Get, Close, Proceed, Idle, At, CoreTyped, RunTyped, ViewTyped, CallTyped
  <2>2. RunTyped'
    BY <1>20, <2>0 DEF Get, Close, Proceed, Idle, At, RunTyped, ViewTyped, CoreTyped, Live, CallTyped, Promises
  <2>3. ViewTyped'
    <3>1. CASE UNCHANGED viewVars
      BY <1>20, <3>1 DEF Get, ViewTyped, CoreTyped
    <3>2. CASE Close(k, "failed")
      <4>1. session[Current(k)] \in Conv \cup {None}
        BY <2>0 DEF RunTyped
      <4>. QED BY <1>20, <2>0, <3>2, <4>1 DEF Get, Close, ViewTyped, CoreTyped, Ended
    <3>. QED BY <1>20, <3>1, <3>2 DEF Get
  <2>4. CallTyped'
    <3>1. CASE At(k, "project") /\ UNCHANGED upsets
      BY <1>20, <2>0, <3>1 DEF Get, At, CallTyped
    <3>2. CASE At(k, "ackError") /\ UNCHANGED upsets
      BY <1>20, <2>0, <3>2 DEF Get, At, CallTyped
    <3>3. CASE Close(k, "failed") /\ UNCHANGED upsets
      BY <2>0, <3>3, ProceedTyped DEF Close, CallTyped
    <3>. QED BY <1>20, <3>1, <3>2, <3>3 DEF Get
  <2>. QED BY <2>1, <2>2, <2>3, <2>4
<1>21. ASSUME NEW k \in Call, Project(k) PROVE Typed'
  <2>0. Current(k) \in call[k].todo /\ Current(k) \in Run
    BY <1>21, CurrentIsLeft DEF Project, CallTyped
  <2>1. CoreTyped'
    BY <1>21, <2>0 DEF Project, Unprojected, CoreTyped
  <2>2. RunTyped'
    BY <1>21, <2>0 DEF Project, Unprojected, Close, Proceed, Idle, At, RunTyped, ViewTyped, CoreTyped, Live, CallTyped, Promises
  <2>3. ViewTyped'
    <3>1. CASE UNCHANGED viewVars
      BY <1>21, <2>0, <3>1 DEF Project, Unprojected, ViewTyped
    <3>2. CASE Close(k, "failed")
      <4>1. session[Current(k)] \in Conv \cup {None}
        BY <2>0 DEF RunTyped
      <4>. QED BY <1>21, <2>0, <3>2, <4>1 DEF Project, Close, ViewTyped, CoreTyped, Ended
    <3>. QED BY <1>21, <3>1, <3>2 DEF Project, Unprojected
  <2>4. CallTyped'
    <3>1. CASE At(k, "ackResult") /\ UNCHANGED upsets
      BY <1>21, <2>0, <3>1 DEF Project, At, CallTyped
    <3>2. CASE Close(k, "failed") /\ UNCHANGED upsets
      BY <2>0, <3>2, ProceedTyped DEF Close, CallTyped
    <3>. QED BY <1>21, <3>1, <3>2 DEF Project, Unprojected
  <2>. QED BY <2>1, <2>2, <2>3, <2>4
<1>22. ASSUME NEW k \in Call, AckTerminal(k) PROVE Typed'
  <2>0. Current(k) \in call[k].todo /\ Current(k) \in Run
    BY <1>22, CurrentIsLeft DEF AckTerminal, CallTyped
  <2>1. CoreTyped'
    BY <1>22, <2>0 DEF AckTerminal, Close, Proceed, Idle, CoreTyped, RunTyped, ViewTyped, CallTyped
  <2>2. RunTyped'
    BY <1>22, <2>0 DEF AckTerminal, Close, Proceed, Idle, RunTyped, ViewTyped, CoreTyped, Live, CallTyped, Promises
  <2>3. ViewTyped'
    BY <1>22, <2>0 DEF AckTerminal, Close, Proceed, Idle, ViewTyped, CoreTyped, RunTyped, Ended, CallTyped
  <2>4. CallTyped'
    <3>1. Proceed(k, call[k].todo \ {Current(k)}) /\ UNCHANGED upsets
      BY <1>22 DEF AckTerminal, Close
    <3>. QED BY <2>0, <3>1, ProceedTyped DEF CallTyped
  <2>. QED BY <2>1, <2>2, <2>3, <2>4
<1>23. CASE UNCHANGED vars
  <2>1. CoreTyped'
    BY <1>23 DEF vars, CoreTyped, RunTyped, ViewTyped
  <2>2. RunTyped'
    BY <1>23 DEF vars, RunTyped, ViewTyped, CoreTyped, Live, Promises
  <2>3. ViewTyped'
    BY <1>23 DEF vars, ViewTyped, CoreTyped, RunTyped, Ended
  <2>4. CallTyped'
    BY <1>23 DEF vars, CallTyped, CoreTyped
  <2>. QED BY <2>1, <2>2, <2>3, <2>4
<1>. QED BY <1>1, <1>2, <1>3, <1>4, <1>5, <1>6, <1>7, <1>8, <1>9, <1>10, <1>11, <1>12, <1>13, <1>14, <1>15, <1>16, <1>17, <1>18, <1>19, <1>20, <1>21, <1>22, <1>23
  DEF Next, RunStep, CoreRun, Restore
-----------------------------------------------------------------------------
(* What the runs went through. *)

\* A run that was not started, or not submitted yet, is unknown to the Core; a
\* question is open only while its run is active; a snapshot names started runs.
Born ==
  /\ \A r \in Run :
        /\ session[r] = None => pc[r] = "none"
        /\ pc[r] \in {"none", "preparing", "working"} => core[r] = "none"
  /\ \A q \in open : core[q[1]] = "active"
  /\ \A k \in Call : \A r \in call[k].actives : session[r] # None

\* A call of restoreWorkerSnapshot never gains a run.
LEMMA CallShrinks ==
  ASSUME Typed, NEW k \in Call, Restore(k)
  PROVE  \A j \in Call : call'[j].actives \subseteq call[j].actives /\ call'[j].todo \subseteq call[j].todo
<1>. DEFINE Shrinks == \A j \in Call : /\ call'[j].actives \subseteq call[j].actives
                                       /\ call'[j].todo \subseteq call[j].todo
<1>1. ASSUME NEW todo \in SUBSET call[k].todo, Proceed(k, todo) PROVE Shrinks
  BY <1>1 DEF Proceed, Idle, Typed, CallTyped
<1>2. ASSUME NEW at, At(k, at) PROVE Shrinks
  BY <1>2 DEF At, Typed, CallTyped
<1>3. CASE RestoreActive(k)
  BY <1>1, <1>3 DEF RestoreActive
<1>4. ASSUME NEW status, Close(k, status) PROVE Shrinks
  BY <1>1, <1>4 DEF Close
<1>5. CASE Get(k) \/ Project(k) \/ AckTerminal(k)
  BY <1>2, <1>4, <1>5 DEF Get, Project, Unprojected, AckTerminal
<1>. QED BY <1>3, <1>5 DEF Restore

\* Every step keeps the histories of the runs in order.
LEMMA BornStep == Typed /\ Born /\ [Next]_vars => Born'
<1>. SUFFICES ASSUME Typed, Born, [Next]_vars PROVE Born'
  OBVIOUS
<1>. USE DEF Born, coreVars, runVars, viewVars
<1>1. ASSUME NEW r \in Run, NEW c \in Conv, Start(r, c) PROVE Born'
  BY <1>1 DEF Start, Typed, CoreTyped, RunTyped, ViewTyped, CallTyped, Live, Question
<1>2. ASSUME NEW r \in Run, Prepare(r) PROVE Born'
  BY <1>2 DEF Prepare, Finish, Typed, CoreTyped, RunTyped, ViewTyped, CallTyped, Live, Question
<1>3. ASSUME NEW r \in Run, Submit(r) PROVE Born'
  <2>1. \A s \in Run : pc'[s] # pc[s] => s = r /\ pc'[s] \in {"running", "failing"}
    BY <1>3 DEF Submit, Typed, RunTyped
  <2>2. \A s \in Run : core'[s] # core[s] => s = r /\ core[s] = "none" /\ pc'[s] = "running"
    BY <1>3 DEF Submit, Typed, RunTyped, CoreTyped
  <2>3. UNCHANGED <<session, open, call>> /\ pc[r] = "working"
    BY <1>3 DEF Submit
  <2>4. \A q \in open : q[1] \in Run
    BY DEF Typed, CoreTyped, Question
  <2>. QED BY <2>1, <2>2, <2>3, <2>4
<1>4. ASSUME NEW r \in Run, Settle(r) PROVE Born'
  BY <1>4 DEF Settle, Typed, CoreTyped, RunTyped, ViewTyped, CallTyped, Live, Question
<1>5. ASSUME NEW r \in Run, StoreFailure(r) PROVE Born'
  BY <1>5 DEF StoreFailure, Typed, CoreTyped, RunTyped, ViewTyped, CallTyped, Live, Question
<1>6. ASSUME NEW r \in Run, Acknowledge(r) PROVE Born'
  BY <1>6 DEF Acknowledge, Conclude, Finish, Typed, CoreTyped, RunTyped, ViewTyped, CallTyped, Live, Question
<1>7. ASSUME NEW c \in Conv, Stop(c) PROVE Born'
  BY <1>7 DEF Stop, Withdraw, Target, Entry, Has, Voided, CancelPending, Typed, CoreTyped, RunTyped, ViewTyped, CallTyped, Live, Question
<1>8. ASSUME NEW c \in Conv, Clear(c) PROVE Born'
  BY <1>8 DEF Clear, Withdraw, Entry, Has, Voided, CancelPending, Typed, CoreTyped, RunTyped, ViewTyped, CallTyped, Live, Question
<1>9. ASSUME NEW c \in Conv, Answer(c) PROVE Born'
  BY <1>9 DEF Answer, Steered, Typed, CoreTyped, RunTyped, ViewTyped, CallTyped, Live, Question
<1>10. ASSUME NEW r \in Run, Decide(r) PROVE Born'
  BY <1>10 DEF Decide, Typed, CoreTyped, RunTyped, ViewTyped, CallTyped, Live, Question
<1>11. CASE Reload
  BY <1>11 DEF Reload, Idle, Typed, CoreTyped, RunTyped, ViewTyped, CallTyped, Live, Question
<1>12. ASSUME NEW r \in Run, CoreStart(r) PROVE Born'
  BY <1>12 DEF CoreStart, Typed, CoreTyped, RunTyped, ViewTyped, CallTyped, Live, Question
<1>13. ASSUME NEW r \in Run, CoreAsk(r) PROVE Born'
  BY <1>13 DEF CoreAsk, Emit, Typed, CoreTyped, RunTyped, ViewTyped, CallTyped, Live, Question
<1>14. ASSUME NEW r \in Run, NEW t \in {"result", "error"}, CoreEnd(r, t) PROVE Born'
  BY <1>14 DEF CoreEnd, Emit, Typed, CoreTyped, RunTyped, ViewTyped, CallTyped, Live, Question
<1>15. CASE CoreCrash
  BY <1>15 DEF CoreCrash, Typed, CoreTyped, RunTyped, ViewTyped, CallTyped, Live, Question
<1>16. CASE Deliver
  BY <1>16 DEF Deliver, Asked, Told, Voided, Typed, CoreTyped, RunTyped, ViewTyped, CallTyped, Live, Question
<1>17. ASSUME NEW s \in steering, Steer(s) PROVE Born'
  BY <1>17 DEF Steer, Typed, CoreTyped, RunTyped, ViewTyped, CallTyped, Live, Question
<1>18. ASSUME NEW k \in Call, Snapshot(k) PROVE Born'
  BY <1>18 DEF Snapshot, Typed, CoreTyped, RunTyped, ViewTyped, CallTyped, Live, Question
<1>19. ASSUME NEW k \in Call, RestoreActive(k) PROVE Born'
  <2>1. \A r \in Run : pc'[r] = "restored" \/ pc'[r] = pc[r]
    BY <1>19 DEF RestoreActive, Typed, RunTyped
  <2>2. \A r \in Run : pc'[r] # pc[r] => session[r] # None
    BY <1>19 DEF RestoreActive, Typed, RunTyped
  <2>3. UNCHANGED <<core, session, open>>
    BY <1>19 DEF RestoreActive
  <2>4. \A j \in Call : call'[j].actives \subseteq call[j].actives
    BY <1>19, CallShrinks DEF Restore
  <2>. QED BY <2>1, <2>2, <2>3, <2>4
<1>20. ASSUME NEW k \in Call, Get(k) PROVE Born'
  <2>1. \A j \in Call : call'[j].actives \subseteq call[j].actives /\ call'[j].todo \subseteq call[j].todo
    BY <1>20, CallShrinks DEF Restore
  <2>2. UNCHANGED <<core, session, open, pc>>
    BY <1>20 DEF Get
  <2>. QED BY <2>1, <2>2
<1>21. ASSUME NEW k \in Call, Project(k) PROVE Born'
  <2>1. \A j \in Call : call'[j].actives \subseteq call[j].actives /\ call'[j].todo \subseteq call[j].todo
    BY <1>21, CallShrinks DEF Restore
  <2>2. UNCHANGED <<core, session, open, pc>>
    BY <1>21 DEF Project
  <2>. QED BY <2>1, <2>2
<1>22. ASSUME NEW k \in Call, AckTerminal(k) PROVE Born'
  <2>1. \A j \in Call : call'[j].actives \subseteq call[j].actives /\ call'[j].todo \subseteq call[j].todo
    BY <1>22, CallShrinks DEF Restore
  <2>2. UNCHANGED <<core, session, open, pc>>
    BY <1>22 DEF AckTerminal
  <2>. QED BY <2>1, <2>2
<1>23. CASE UNCHANGED vars
  BY <1>23 DEF vars, Typed, CoreTyped, RunTyped, ViewTyped, CallTyped, Live, Question
<1>. QED BY <1>1, <1>2, <1>3, <1>4, <1>5, <1>6, <1>7, <1>8, <1>9, <1>10, <1>11, <1>12, <1>13, <1>14,
  <1>15, <1>16, <1>17, <1>18, <1>19, <1>20, <1>21, <1>22, <1>23
  DEF Next, RunStep, CoreRun, Restore

CoreEnded == {"result", "error", "crashed"}

\* Terminal messages, results and the snapshots that name them are of runs that
\* ended so.
Ends ==
  /\ \A r \in retained : core[r] \in CoreEnded
  /\ \A k \in Call : \A r \in call[k].todo : core[r] \in CoreEnded
  /\ \A i \in DOMAIN feed : feed[i].type = "result" => core[feed[i].run] = "result"
  /\ \A r \in Run : promise[r] = "result" \/ pc[r] = "resolved" => core[r] = "result"

\* An event sent adds at most its own message to the feed.
LEMMA Emitted ==
  ASSUME feed \in Seq(Event), NEW t, NEW r, NEW n, Emit(t, r, n)
  PROVE  \A i \in DOMAIN feed' : \/ i \in DOMAIN feed /\ feed'[i] = feed[i]
                                 \/ feed'[i] = [type |-> t, run |-> r, n |-> n]
<1>1. CASE listening = {}
  BY <1>1 DEF Emit
<1>2. CASE listening # {}
  <2>1. feed' = Append(feed, [type |-> t, run |-> r, n |-> n])
    BY <1>2 DEF Emit
  <2>. QED BY <2>1
<1>. QED BY <1>1, <1>2

\* Every step keeps what is said of the ends true.
LEMMA EndsStep == Typed /\ Born /\ Ends /\ [Next]_vars => Ends'
<1>. SUFFICES ASSUME Typed, Born, Ends, [Next]_vars PROVE Ends'
  OBVIOUS
<1>. USE DEF Ends, coreVars, runVars, viewVars
<1>1. ASSUME NEW r \in Run, NEW c \in Conv, Start(r, c) PROVE Ends'
  BY <1>1 DEF Start, Typed, CoreTyped, RunTyped, ViewTyped, CallTyped, Live, CoreEnded, Born, Event, Promises
<1>2. ASSUME NEW r \in Run, Prepare(r) PROVE Ends'
  BY <1>2 DEF Prepare, Finish, Typed, CoreTyped, RunTyped, ViewTyped, CallTyped, Live, CoreEnded, Born, Event, Promises
<1>3. ASSUME NEW r \in Run, Submit(r) PROVE Ends'
  <2>1. \A s \in Run : core'[s] = core[s] \/ core[s] = "none"
    BY <1>3 DEF Submit, Born, Typed, RunTyped, CoreTyped
  <2>2. \A s \in Run : /\ promise'[s] = promise[s] \/ promise'[s] = "waiting"
                       /\ pc'[s] = pc[s] \/ pc'[s] \in {"running", "failing"}
    BY <1>3 DEF Submit, Typed, RunTyped
  <2>3. UNCHANGED <<retained, feed, call>>
    BY <1>3 DEF Submit
  <2>4. \A s \in Run : core[s] \in CoreEnded => core'[s] = core[s]
    BY <2>1 DEF CoreEnded
  <2>5. \A i \in DOMAIN feed : feed[i] \in Event /\ feed[i].run \in Run
    BY DEF Typed, CoreTyped, Event
  <2>6. \A s \in retained' : core'[s] \in CoreEnded
    BY <2>3, <2>4 DEF Typed, CoreTyped
  <2>7. \A k \in Call : \A s \in call'[k].todo : core'[s] \in CoreEnded
    BY <2>3, <2>4 DEF Typed, CallTyped
  <2>8. \A i \in DOMAIN feed' : feed'[i].type = "result" => core'[feed'[i].run] = "result"
    BY <2>3, <2>4, <2>5 DEF CoreEnded
  <2>. QED BY <2>2, <2>3, <2>4, <2>6, <2>7, <2>8 DEF CoreEnded
<1>4. ASSUME NEW r \in Run, Settle(r) PROVE Ends'
  BY <1>4 DEF Settle, Typed, CoreTyped, RunTyped, ViewTyped, CallTyped, Live, CoreEnded, Born, Event, Promises
<1>5. ASSUME NEW r \in Run, StoreFailure(r) PROVE Ends'
  BY <1>5 DEF StoreFailure, Typed, CoreTyped, RunTyped, ViewTyped, CallTyped, Live, CoreEnded, Born, Event, Promises
<1>6. ASSUME NEW r \in Run, Acknowledge(r) PROVE Ends'
  BY <1>6 DEF Acknowledge, Conclude, Finish, Typed, CoreTyped, RunTyped, ViewTyped, CallTyped, Live, CoreEnded, Born, Event, Promises
<1>7. ASSUME NEW c \in Conv, Stop(c) PROVE Ends'
  BY <1>7 DEF Stop, Withdraw, Target, Entry, Has, Voided, CancelPending, Typed, CoreTyped, RunTyped, ViewTyped, CallTyped, Live, CoreEnded, Born, Event, Promises
<1>8. ASSUME NEW c \in Conv, Clear(c) PROVE Ends'
  BY <1>8 DEF Clear, Withdraw, Entry, Has, Voided, CancelPending, Typed, CoreTyped, RunTyped, ViewTyped, CallTyped, Live, CoreEnded, Born, Event, Promises
<1>9. ASSUME NEW c \in Conv, Answer(c) PROVE Ends'
  BY <1>9 DEF Answer, Steered, Typed, CoreTyped, RunTyped, ViewTyped, CallTyped, Live, CoreEnded, Born, Event, Promises
<1>10. ASSUME NEW r \in Run, Decide(r) PROVE Ends'
  BY <1>10 DEF Decide, Typed, CoreTyped, RunTyped, ViewTyped, CallTyped, Live, CoreEnded, Born, Event, Promises
<1>11. CASE Reload
  BY <1>11 DEF Reload, Idle, Typed, CoreTyped, RunTyped, ViewTyped, CallTyped, Live, CoreEnded, Born, Event, Promises
<1>12. ASSUME NEW r \in Run, CoreStart(r) PROVE Ends'
  <2>1. \A s \in Run : core'[s] = core[s] \/ core[s] = "submitted"
    BY <1>12 DEF CoreStart, Typed, CoreTyped
  <2>2. \A s \in Run : promise'[s] = promise[s] \/ promise'[s] = "error"
    BY <1>12 DEF CoreStart, Typed, RunTyped
  <2>3. UNCHANGED <<retained, feed, call, pc>>
    BY <1>12 DEF CoreStart
  <2>4. \A s \in Run : core[s] \in CoreEnded => core'[s] = core[s]
    BY <2>1 DEF CoreEnded
  <2>5. \A i \in DOMAIN feed : feed[i] \in Event /\ feed[i].run \in Run
    BY DEF Typed, CoreTyped, Event
  <2>6. \A s \in retained' : core'[s] \in CoreEnded
    BY <2>3, <2>4 DEF Typed, CoreTyped
  <2>7. \A k \in Call : \A s \in call'[k].todo : core'[s] \in CoreEnded
    BY <2>3, <2>4 DEF Typed, CallTyped
  <2>8. \A i \in DOMAIN feed' : feed'[i].type = "result" => core'[feed'[i].run] = "result"
    BY <2>3, <2>4, <2>5 DEF CoreEnded
  <2>. QED BY <2>2, <2>3, <2>4, <2>6, <2>7, <2>8 DEF CoreEnded
<1>13. ASSUME NEW r \in Run, CoreAsk(r) PROVE Ends'
  <2>1. UNCHANGED <<core, retained, pc, promise, call>> /\ Emit("ask", r, asks[r] + 1)
    BY <1>13 DEF CoreAsk
  <2>2. \A i \in DOMAIN feed' : feed'[i].type = "result" => i \in DOMAIN feed /\ feed'[i] = feed[i]
    BY <2>1, Emitted DEF Typed, CoreTyped
  <2>. QED BY <2>1, <2>2
<1>14. ASSUME NEW r \in Run, NEW t \in {"result", "error"}, CoreEnd(r, t) PROVE Ends'
  <2>1. UNCHANGED <<pc, promise, call>> /\ retained' = retained \cup {r} /\ Emit(t, r, 0)
    BY <1>14 DEF CoreEnd
  <2>2. core[r] = "active" /\ core'[r] = t /\ \A s \in Run \ {r} : core'[s] = core[s]
    BY <1>14 DEF CoreEnd, Typed, CoreTyped
  <2>3. \A s \in Run : core[s] \in CoreEnded => core'[s] = core[s]
    BY <2>2 DEF CoreEnded
  <2>4. core'[r] \in CoreEnded
    BY <2>2 DEF CoreEnded
  <2>5. \A s \in retained' : core'[s] \in CoreEnded
    BY <2>1, <2>3, <2>4 DEF Typed, CoreTyped
  <2>6. \A k \in Call : \A s \in call'[k].todo : core'[s] \in CoreEnded
    BY <2>1, <2>3 DEF Typed, CallTyped
  <2>7. \A i \in DOMAIN feed' : feed'[i].type = "result" => core'[feed'[i].run] = "result"
    <3>1. \A i \in DOMAIN feed : feed[i].run \in Run
      BY DEF Typed, CoreTyped, Event
    <3>2. \A i \in DOMAIN feed : feed[i].type = "result" => core'[feed[i].run] = "result"
      BY <2>3, <3>1 DEF CoreEnded
    <3>3. \A i \in DOMAIN feed' : \/ i \in DOMAIN feed /\ feed'[i] = feed[i]
                                  \/ feed'[i] = [type |-> t, run |-> r, n |-> 0]
      BY <2>1, Emitted DEF Typed, CoreTyped
    <3>. QED BY <2>2, <3>2, <3>3
  <2>8. \A s \in Run : promise'[s] = "result" \/ pc'[s] = "resolved" => core'[s] = "result"
    BY <2>1, <2>3 DEF CoreEnded
  <2>. QED BY <2>5, <2>6, <2>7, <2>8
<1>15. CASE CoreCrash
  BY <1>15 DEF CoreCrash, Typed, CoreTyped, RunTyped, ViewTyped, CallTyped, Live, CoreEnded, Born, Event, Promises
<1>16. CASE Deliver
  BY <1>16 DEF Deliver, Asked, Told, Voided, Typed, CoreTyped, RunTyped, ViewTyped, CallTyped, Live, CoreEnded, Born, Event, Promises
<1>17. ASSUME NEW s \in steering, Steer(s) PROVE Ends'
  BY <1>17 DEF Steer, Typed, CoreTyped, RunTyped, ViewTyped, CallTyped, Live, CoreEnded, Born, Event, Promises
<1>18. ASSUME NEW k \in Call, Snapshot(k) PROVE Ends'
  BY <1>18 DEF Snapshot, Typed, CoreTyped, RunTyped, ViewTyped, CallTyped, Live, CoreEnded, Born, Event, Promises
<1>19. ASSUME NEW k \in Call, RestoreActive(k) PROVE Ends'
  <2>1. \A r \in Run : (pc'[r] = "restored" \/ pc'[r] = pc[r]) /\ promise'[r] \in {"none", promise[r]}
    BY <1>19 DEF RestoreActive, Typed, RunTyped
  <2>2. UNCHANGED <<core, feed, retained>>
    BY <1>19 DEF RestoreActive
  <2>3. \A j \in Call : call'[j].todo \subseteq call[j].todo
    BY <1>19, CallShrinks DEF Restore
  <2>. QED BY <2>1, <2>2, <2>3
<1>20. ASSUME NEW k \in Call, Get(k) PROVE Ends'
  <2>1. \A j \in Call : call'[j].actives \subseteq call[j].actives /\ call'[j].todo \subseteq call[j].todo
    BY <1>20, CallShrinks DEF Restore
  <2>2. UNCHANGED <<core, retained, feed, promise, pc>>
    BY <1>20 DEF Get
  <2>. QED BY <2>1, <2>2
<1>21. ASSUME NEW k \in Call, Project(k) PROVE Ends'
  <2>1. \A j \in Call : call'[j].todo \subseteq call[j].todo
    BY <1>21, CallShrinks DEF Restore
  <2>2. UNCHANGED <<core, feed, promise, pc>> /\ retained' \subseteq retained
    BY <1>21 DEF Project, Unprojected
  <2>. QED BY <2>1, <2>2
<1>22. ASSUME NEW k \in Call, AckTerminal(k) PROVE Ends'
  <2>1. \A j \in Call : call'[j].todo \subseteq call[j].todo
    BY <1>22, CallShrinks DEF Restore
  <2>2. UNCHANGED <<core, feed, promise, pc>> /\ retained' \subseteq retained
    BY <1>22 DEF AckTerminal
  <2>. QED BY <2>1, <2>2
<1>23. CASE UNCHANGED vars
  BY <1>23 DEF vars, Typed, CoreTyped, RunTyped, ViewTyped, CallTyped, Live, CoreEnded, Born, Event, Promises
<1>. QED BY <1>1, <1>2, <1>3, <1>4, <1>5, <1>6, <1>7, <1>8, <1>9, <1>10, <1>11, <1>12, <1>13, <1>14,
  <1>15, <1>16, <1>17, <1>18, <1>19, <1>20, <1>21, <1>22, <1>23
  DEF Next, RunStep, CoreRun, Restore

-----------------------------------------------------------------------------
(* The entries of activeRuns. *)

\* Every step keeps the entries those of the runs that are driven.
LEMMA DrivenStep == Typed /\ Born /\ ActiveRunsAreDriven /\ [Next]_vars => ActiveRunsAreDriven'
<1>. SUFFICES ASSUME Typed, Born, ActiveRunsAreDriven, [Next]_vars PROVE ActiveRunsAreDriven'
  OBVIOUS
<1>. USE DEF ActiveRunsAreDriven, coreVars, runVars, viewVars
<1>1. ASSUME NEW r \in Run, NEW c \in Conv, Start(r, c) PROVE ActiveRunsAreDriven'
  BY <1>1 DEF Start, Has, Entry, Typed, CoreTyped, RunTyped, ViewTyped, Live, Born
<1>2. ASSUME NEW r \in Run, Prepare(r) PROVE ActiveRunsAreDriven'
  BY <1>2 DEF Prepare, Finish, Typed, CoreTyped, RunTyped, ViewTyped, Live, Born
<1>3. ASSUME NEW r \in Run, Submit(r) PROVE ActiveRunsAreDriven'
  BY <1>3 DEF Submit, Typed, CoreTyped, RunTyped, ViewTyped, Live, Born
<1>4. ASSUME NEW r \in Run, Settle(r) PROVE ActiveRunsAreDriven'
  BY <1>4 DEF Settle, Typed, CoreTyped, RunTyped, ViewTyped, Live, Born
<1>5. ASSUME NEW r \in Run, StoreFailure(r) PROVE ActiveRunsAreDriven'
  BY <1>5 DEF StoreFailure, Typed, CoreTyped, RunTyped, ViewTyped, Live, Born
<1>6. ASSUME NEW r \in Run, Acknowledge(r) PROVE ActiveRunsAreDriven'
  BY <1>6 DEF Acknowledge, Conclude, Finish, Typed, CoreTyped, RunTyped, ViewTyped, Live, Born
<1>7. ASSUME NEW c \in Conv, Stop(c) PROVE ActiveRunsAreDriven'
  BY <1>7 DEF Stop, Withdraw, Target, Entry, Has, Voided, CancelPending, Typed, CoreTyped, RunTyped, ViewTyped, Live, Born
<1>8. ASSUME NEW c \in Conv, Clear(c) PROVE ActiveRunsAreDriven'
  BY <1>8 DEF Clear, Withdraw, Entry, Has, Voided, CancelPending, Typed, CoreTyped, RunTyped, ViewTyped, Live, Born
<1>9. ASSUME NEW c \in Conv, Answer(c) PROVE ActiveRunsAreDriven'
  BY <1>9 DEF Answer, Steered, Typed, CoreTyped, RunTyped, ViewTyped, Live, Born
<1>10. ASSUME NEW r \in Run, Decide(r) PROVE ActiveRunsAreDriven'
  BY <1>10 DEF Decide, Typed, CoreTyped, RunTyped, ViewTyped, Live, Born
<1>11. CASE Reload
  BY <1>11 DEF Reload, Idle, Typed, CoreTyped, RunTyped, ViewTyped, Live, Born
<1>12. ASSUME NEW r \in Run, CoreStart(r) PROVE ActiveRunsAreDriven'
  BY <1>12 DEF CoreStart, Typed, CoreTyped, RunTyped, ViewTyped, Live, Born
<1>13. ASSUME NEW r \in Run, CoreAsk(r) PROVE ActiveRunsAreDriven'
  BY <1>13 DEF CoreAsk, Emit, Typed, CoreTyped, RunTyped, ViewTyped, Live, Born
<1>14. ASSUME NEW r \in Run, NEW t \in {"result", "error"}, CoreEnd(r, t) PROVE ActiveRunsAreDriven'
  BY <1>14 DEF CoreEnd, Emit, Typed, CoreTyped, RunTyped, ViewTyped, Live, Born
<1>15. CASE CoreCrash
  BY <1>15 DEF CoreCrash, Typed, CoreTyped, RunTyped, ViewTyped, Live, Born
<1>16. CASE Deliver
  BY <1>16 DEF Deliver, Asked, Told, Voided, Typed, CoreTyped, RunTyped, ViewTyped, Live, Born
<1>17. ASSUME NEW s \in steering, Steer(s) PROVE ActiveRunsAreDriven'
  BY <1>17 DEF Steer, Typed, CoreTyped, RunTyped, ViewTyped, Live, Born
<1>18. ASSUME NEW k \in Call, Snapshot(k) PROVE ActiveRunsAreDriven'
  BY <1>18 DEF Snapshot, Typed, CoreTyped, RunTyped, ViewTyped, Live, Born
<1>19. ASSUME NEW k \in Call, RestoreActive(k) PROVE ActiveRunsAreDriven'
  <2>. DEFINE new == {r \in call[k].actives : ~Has(session[r])
                        /\ \A s \in call[k].actives : session[s] = session[r] => r <= s}
  <2>1. new \subseteq Run /\ activeRuns' = activeRuns \cup new
    BY <1>19 DEF RestoreActive, Typed, CallTyped
  <2>2. \A r \in Run : pc'[r] = IF r \in new THEN "restored" ELSE pc[r]
    BY <1>19 DEF RestoreActive
  <2>3. UNCHANGED session
    BY <1>19 DEF RestoreActive
  <2>4. \A r \in new, s \in activeRuns : session[r] # session[s]
    BY DEF Has, Entry
  <2>5. \A r, s \in new : session[r] = session[s] => r = s
    <3>1. \A r, s \in new : session[r] = session[s] => r <= s /\ s <= r
      OBVIOUS
    <3>2. new \subseteq Nat
      BY <2>1, RunIsNat
    <3>. QED BY <3>1, <3>2
  <2>. HIDE DEF new
  <2>. QED BY <2>1, <2>2, <2>3, <2>4, <2>5 DEF Live
<1>20. ASSUME NEW k \in Call, Get(k) PROVE ActiveRunsAreDriven'
  <2>1. UNCHANGED <<activeRuns, session, pc>>
    BY <1>20 DEF Get, Close, viewVars
  <2>. QED BY <2>1
<1>21. ASSUME NEW k \in Call, Project(k) PROVE ActiveRunsAreDriven'
  <2>1. UNCHANGED <<activeRuns, session, pc>>
    BY <1>21 DEF Project, Unprojected, Close, viewVars
  <2>. QED BY <2>1
<1>22. ASSUME NEW k \in Call, AckTerminal(k) PROVE ActiveRunsAreDriven'
  <2>1. UNCHANGED <<activeRuns, session, pc>>
    BY <1>22 DEF AckTerminal, Close, viewVars
  <2>. QED BY <2>1
<1>23. CASE UNCHANGED vars
  BY <1>23 DEF vars, Typed, CoreTyped, RunTyped, ViewTyped, Live, Born
<1>. QED BY <1>1, <1>2, <1>3, <1>4, <1>5, <1>6, <1>7, <1>8, <1>9, <1>10, <1>11, <1>12, <1>13, <1>14,
  <1>15, <1>16, <1>17, <1>18, <1>19, <1>20, <1>21, <1>22, <1>23
  DEF Next, RunStep, CoreRun, Restore

-----------------------------------------------------------------------------
(* Terminal messages are released after the review has begun. *)

\* A run whose result was projected: it is in review, or was decided since.
Reviewed(r) == r \in review \/ task[r] = "decided"

\* run() of the message a call works on has returned; a result is acknowledged
\* once it is reviewed, and so is the result a live run has settled.
Working ==
  /\ \A k \in Call : \A r \in call[k].todo :
       call[k].at \in {"get", "project", "ackResult", "ackError"} /\ (\A s \in call[k].todo : r <= s) =>
         /\ pc[r] \notin Live
         /\ call[k].at = "ackResult" => Reviewed(r)
         /\ call[k].at = "ackError" => core[r] # "result"
  /\ \A r \in Run : pc[r] = "resolved" => Reviewed(r)

\* What Working says of one call.
Works(k) == \A r \in call[k].todo :
  call[k].at \in {"get", "project", "ackResult", "ackError"} /\ (\A s \in call[k].todo : r <= s) =>
    /\ pc[r] \notin Live
    /\ call[k].at = "ackResult" => Reviewed(r)
    /\ call[k].at = "ackError" => core[r] # "result"

LEMMA CurrentIsFirst ==
  ASSUME Typed, NEW k \in Call, call[k].at \in {"get", "project", "ackResult", "ackError"}
  PROVE  /\ Current(k) \in call[k].todo /\ Current(k) \in Run
         /\ \A s \in call[k].todo : Current(k) <= s
         /\ \A r \in call[k].todo : (\A s \in call[k].todo : r <= s) => r = Current(k)
<1>1. call[k].todo \in SUBSET Run /\ call[k].todo # {}
  BY DEF Typed, CallTyped
<1>2. Current(k) \in call[k].todo /\ \A s \in call[k].todo : Current(k) <= s
  BY <1>1, FirstRun DEF Current
<1>3. call[k].todo \subseteq Nat
  BY <1>1, RunIsNat
<1>4. ASSUME NEW r \in call[k].todo, \A s \in call[k].todo : r <= s PROVE r = Current(k)
  <2>1. r <= Current(k) /\ Current(k) <= r /\ r \in Nat /\ Current(k) \in Nat
    BY <1>2, <1>3, <1>4
  <2>. QED BY <2>1
<1>. QED BY <1>1, <1>2, <1>4

\* A step that leaves the calls and the runs that ended alone.
LEMMA OthersWork ==
  ASSUME Typed, Ends, Working, UNCHANGED call,
         \A r \in Run : core[r] \in CoreEnded => /\ core'[r] = core[r] /\ (Reviewed(r) => Reviewed(r)')
                                                 /\ pc'[r] \in Live => pc[r] \in Live,
         \A r \in Run : pc'[r] = "resolved" => pc[r] = "resolved"
  PROVE  Working'
<1>1. \A k \in Call : Works(k)'
  BY DEF Typed, CallTyped, Ends, Working, Works
<1>2. \A r \in Run : pc'[r] = "resolved" => Reviewed(r)'
  BY DEF Ends, Working, CoreEnded
<1>. QED BY <1>1, <1>2 DEF Working, Works

\* The run a call goes on to has no entry.
LEMMA ProceedWorks ==
  ASSUME Typed, NEW k \in Call, NEW todo \in SUBSET Run, Proceed(k, todo),
         ActiveRunsAreDriven', UNCHANGED session
  PROVE  Works(k)'
<1>. DEFINE bare == {r \in todo : runtimes'[session[r]] = None
                                  /\ \A s \in activeRuns' : session[s] # session[r]}
            rest == {r \in todo : \E s \in bare : s <= r}
<1>1. CASE bare = {}
  <2>1. call'[k].at = "over"
    BY <1>1 DEF Proceed, Idle, Typed, CallTyped
  <2>. QED BY <2>1 DEF Works
<1>2. CASE bare # {}
  <2>1. call'[k].at = "get" /\ call'[k].todo = rest
    BY <1>2 DEF Proceed, Typed, CallTyped
  <2>2. ASSUME NEW r \in rest, \A s \in rest : r <= s PROVE r \in bare
    <3>1. PICK s \in bare : s <= r
      OBVIOUS
    <3>2. r \in Nat /\ s \in Nat
      BY RunIsNat
    <3>3. s <= s
      BY <3>2
    <3>4. s \in rest
      BY <3>3
    <3>5. r <= s
      BY <2>2, <3>4
    <3>6. r = s
      BY <3>1, <3>2, <3>5
    <3>. QED BY <3>6
  <2>3. \A r \in bare : r \in Run /\ pc'[r] \notin Live
    BY DEF ActiveRunsAreDriven
  <2>. HIDE DEF bare, rest
  <2>. QED BY <2>1, <2>2, <2>3 DEF Works
<1>. QED BY <1>1, <1>2

\* Every step keeps the calls and the reviews in that order.
LEMMA WorkingStep == Typed /\ Born /\ Ends /\ ActiveRunsAreDriven /\ Working /\ [Next]_vars => Working'
<1>. SUFFICES ASSUME Typed, Born, Ends, ActiveRunsAreDriven, Working, [Next]_vars PROVE Working'
  OBVIOUS
<1>. USE DEF Working, coreVars, runVars, viewVars
<1>1. ASSUME NEW r \in Run, NEW c \in Conv, Start(r, c) PROVE Working'
  <2>1. UNCHANGED call
    BY <1>1 DEF Start
  <2>2. \A s \in Run : core[s] \in CoreEnded => /\ core'[s] = core[s] /\ (Reviewed(s) => Reviewed(s)')
                                                /\ pc'[s] \in Live => pc[s] \in Live
    BY <1>1 DEF Start, Born, Reviewed, CoreEnded, Typed, CoreTyped, RunTyped
  <2>3. \A s \in Run : pc'[s] = "resolved" => pc[s] = "resolved"
    BY <1>1 DEF Start, Typed, RunTyped
  <2>. QED BY <2>1, <2>2, <2>3, OthersWork
<1>2. ASSUME NEW r \in Run, Prepare(r) PROVE Working'
  BY <1>2 DEF Prepare, Finish, Typed, CoreTyped, RunTyped, ViewTyped, CallTyped, Live, Born, Ends, CoreEnded, Reviewed
<1>3. ASSUME NEW r \in Run, Submit(r) PROVE Working'
  BY <1>3 DEF Submit, Typed, CoreTyped, RunTyped, ViewTyped, CallTyped, Live, Born, Ends, CoreEnded, Reviewed
<1>4. ASSUME NEW r \in Run, Settle(r) PROVE Working'
  BY <1>4 DEF Settle, Typed, CoreTyped, RunTyped, ViewTyped, CallTyped, Live, Born, Ends, CoreEnded, Reviewed
<1>5. ASSUME NEW r \in Run, StoreFailure(r) PROVE Working'
  BY <1>5 DEF StoreFailure, Typed, CoreTyped, RunTyped, ViewTyped, CallTyped, Live, Born, Ends, CoreEnded, Reviewed
<1>6. ASSUME NEW r \in Run, Acknowledge(r) PROVE Working'
  BY <1>6 DEF Acknowledge, Conclude, Finish, Typed, CoreTyped, RunTyped, ViewTyped, CallTyped, Live, Born, Ends, CoreEnded, Reviewed
<1>7. ASSUME NEW c \in Conv, Stop(c) PROVE Working'
  BY <1>7 DEF Stop, Withdraw, Target, Entry, Has, Voided, CancelPending, Typed, CoreTyped, RunTyped, ViewTyped, CallTyped, Live, Born, Ends, CoreEnded, Reviewed
<1>8. ASSUME NEW c \in Conv, Clear(c) PROVE Working'
  BY <1>8 DEF Clear, Withdraw, Entry, Has, Voided, CancelPending, Typed, CoreTyped, RunTyped, ViewTyped, CallTyped, Live, Born, Ends, CoreEnded, Reviewed
<1>9. ASSUME NEW c \in Conv, Answer(c) PROVE Working'
  BY <1>9 DEF Answer, Steered, Typed, CoreTyped, RunTyped, ViewTyped, CallTyped, Live, Born, Ends, CoreEnded, Reviewed
<1>10. ASSUME NEW r \in Run, Decide(r) PROVE Working'
  BY <1>10 DEF Decide, Typed, CoreTyped, RunTyped, ViewTyped, CallTyped, Live, Born, Ends, CoreEnded, Reviewed
<1>11. CASE Reload
  BY <1>11 DEF Reload, Idle, Typed, CoreTyped, RunTyped, ViewTyped, CallTyped, Live, Born, Ends, CoreEnded, Reviewed
<1>12. ASSUME NEW r \in Run, CoreStart(r) PROVE Working'
  <2>1. UNCHANGED call
    BY <1>12 DEF CoreStart
  <2>2. \A s \in Run : core[s] \in CoreEnded => /\ core'[s] = core[s] /\ (Reviewed(s) => Reviewed(s)')
                                                /\ pc'[s] \in Live => pc[s] \in Live
    BY <1>12 DEF CoreStart, Born, Reviewed, CoreEnded, Typed, CoreTyped, RunTyped
  <2>3. \A s \in Run : pc'[s] = "resolved" => pc[s] = "resolved"
    BY <1>12 DEF CoreStart, Typed, RunTyped
  <2>. QED BY <2>1, <2>2, <2>3, OthersWork
<1>13. ASSUME NEW r \in Run, CoreAsk(r) PROVE Working'
  BY <1>13 DEF CoreAsk, Emit, Typed, CoreTyped, RunTyped, ViewTyped, CallTyped, Live, Born, Ends, CoreEnded, Reviewed
<1>14. ASSUME NEW r \in Run, NEW t \in {"result", "error"}, CoreEnd(r, t) PROVE Working'
  <2>1. UNCHANGED call
    BY <1>14 DEF CoreEnd
  <2>2. \A s \in Run : core[s] \in CoreEnded => /\ core'[s] = core[s] /\ (Reviewed(s) => Reviewed(s)')
                                                /\ pc'[s] \in Live => pc[s] \in Live
    BY <1>14 DEF CoreEnd, Born, Reviewed, CoreEnded, Typed, CoreTyped, RunTyped
  <2>3. \A s \in Run : pc'[s] = "resolved" => pc[s] = "resolved"
    BY <1>14 DEF CoreEnd, Typed, RunTyped
  <2>. QED BY <2>1, <2>2, <2>3, OthersWork
<1>15. CASE CoreCrash
  <2>1. UNCHANGED <<call, pc, review>>
    BY <1>15 DEF CoreCrash
  <2>2. \A s \in Run : core[s] \in CoreEnded => core'[s] = core[s]
    BY <1>15 DEF CoreCrash, CoreEnded
  <2>3. \A s \in Run : core[s] \in CoreEnded => task'[s] = task[s]
    BY <1>15 DEF CoreCrash, CoreEnded
  <2>4. \A s \in Run : core[s] \in CoreEnded /\ Reviewed(s) => Reviewed(s)'
    BY <2>1, <2>3 DEF Reviewed
  <2>. QED BY <2>1, <2>2, <2>4, OthersWork
<1>16. CASE Deliver
  BY <1>16 DEF Deliver, Asked, Told, Voided, Typed, CoreTyped, RunTyped, ViewTyped, CallTyped, Live, Born, Ends, CoreEnded, Reviewed
<1>17. ASSUME NEW s \in steering, Steer(s) PROVE Working'
  BY <1>17 DEF Steer, Typed, CoreTyped, RunTyped, ViewTyped, CallTyped, Live, Born, Ends, CoreEnded, Reviewed
<1>18. ASSUME NEW k \in Call, Snapshot(k) PROVE Working'
  BY <1>18 DEF Snapshot, Typed, CoreTyped, RunTyped, ViewTyped, CallTyped, Live, Born, Ends, CoreEnded, Reviewed
<1>19. ASSUME NEW k \in Call, RestoreActive(k) PROVE Working'
  <2>1. Works(k)'
    BY <1>19, DrivenStep, ProceedWorks DEF RestoreActive, Typed, CallTyped
  <2>2. \A r \in Run : pc'[r] = pc[r] \/ pc'[r] = "restored"
    BY <1>19 DEF RestoreActive, Typed, RunTyped
  <2>3. UNCHANGED <<core, review, task>> /\ \A j \in Call \ {k} : call'[j] = call[j]
    BY <1>19 DEF RestoreActive, Proceed, coreVars, Typed, CallTyped
  <2>. QED BY <2>1, <2>2, <2>3 DEF Works, Reviewed, Live, Typed, CallTyped
<1>20. ASSUME NEW k \in Call, Get(k) PROVE Working'
  <2>1. Current(k) \in call[k].todo /\ Current(k) \in Run /\ \A s \in call[k].todo : Current(k) <= s
    BY <1>20, CurrentIsFirst DEF Get
  <2>2. ASSUME Close(k, "failed") PROVE Works(k)'
    BY <1>20, <2>1, <2>2, DrivenStep, ProceedWorks DEF Get, Close, Typed, CallTyped
  <2>3. ASSUME At(k, "project") PROVE Works(k)'
    BY <1>20, <2>3 DEF Get, At, Works, Typed, CallTyped
  <2>4. ASSUME At(k, "ackError"), core[Current(k)] # "result" PROVE Works(k)'
    <3>1. \A r \in call[k].todo : (\A s \in call[k].todo : r <= s) => r = Current(k)
      BY <1>20, CurrentIsFirst DEF Get, Project
    <3>. QED BY <1>20, <2>4, <3>1 DEF Get, At, Works, Typed, CallTyped
  <2>5. UNCHANGED <<core, pc, review, task>> /\ \A j \in Call \ {k} : call'[j] = call[j]
    BY <1>20 DEF Get, At, Close, Proceed, coreVars, Typed, CallTyped
  <2>6. Works(k)'
    BY <1>20, <2>2, <2>3, <2>4 DEF Get
  <2>. QED BY <2>5, <2>6 DEF Works, Reviewed, Typed, CallTyped
<1>21. ASSUME NEW k \in Call, Project(k) PROVE Working'
  <2>1. Current(k) \in call[k].todo /\ Current(k) \in Run /\ \A s \in call[k].todo : Current(k) <= s
    BY <1>21, CurrentIsFirst DEF Project
  <2>2. ASSUME Close(k, "failed") PROVE Works(k)'
    BY <1>21, <2>1, <2>2, DrivenStep, ProceedWorks DEF Project, Close, Typed, CallTyped
  <2>3. ASSUME At(k, "ackResult"), review' = review \cup {Current(k)} PROVE Works(k)'
    <3>1. \A r \in call[k].todo : (\A s \in call[k].todo : r <= s) => r = Current(k)
      BY <1>21, CurrentIsFirst DEF Get, Project
    <3>. QED BY <1>21, <2>3, <3>1 DEF Project, At, Works, Reviewed, Typed, CallTyped
  <2>4. UNCHANGED <<core, pc>> /\ \A j \in Call \ {k} : call'[j] = call[j]
    BY <1>21 DEF Project, Unprojected, At, Close, Proceed, coreVars, Typed, CallTyped
  <2>5. \A r \in Run : Reviewed(r) => Reviewed(r)'
    BY <1>21 DEF Project, Unprojected, Reviewed, Typed, CoreTyped
  <2>6. Works(k)'
    BY <1>21, <2>2, <2>3 DEF Project, Unprojected
  <2>. QED BY <2>4, <2>5, <2>6 DEF Works, Typed, CallTyped
<1>22. ASSUME NEW k \in Call, AckTerminal(k) PROVE Working'
  <2>1. Current(k) \in call[k].todo /\ Current(k) \in Run
    BY <1>22, CurrentIsFirst DEF AckTerminal
  <2>2. Works(k)'
    BY <1>22, <2>1, DrivenStep, ProceedWorks DEF AckTerminal, Close, Typed, CallTyped
  <2>3. UNCHANGED <<core, pc, review, task>> /\ \A j \in Call \ {k} : call'[j] = call[j]
    BY <1>22 DEF AckTerminal, Close, Proceed, coreVars, Typed, CallTyped
  <2>. QED BY <2>2, <2>3 DEF Works, Reviewed, Typed, CallTyped
<1>23. CASE UNCHANGED vars
  BY <1>23 DEF vars, Typed, CoreTyped, RunTyped, ViewTyped, CallTyped, Live, Born, Ends, CoreEnded, Reviewed
<1>. QED BY <1>1, <1>2, <1>3, <1>4, <1>5, <1>6, <1>7, <1>8, <1>9, <1>10, <1>11, <1>12, <1>13, <1>14,
  <1>15, <1>16, <1>17, <1>18, <1>19, <1>20, <1>21, <1>22, <1>23
  DEF Next, RunStep, CoreRun, Restore


\* A result leaves the Core after its review has begun.
LEMMA ReleaseStep ==
  Typed /\ Working /\ [Next]_vars =>
    [\A r \in retained \ retained' :
       core[r] = "result" => r \in review \/ task[r] = "decided" \/ pc[r] \in {"failed", "aborted"}]_vars
<1>. SUFFICES ASSUME Typed, Working, Next, NEW r \in retained \ retained', core[r] = "result"
     PROVE Reviewed(r) \/ pc[r] \in {"failed", "aborted"}
  BY DEF Reviewed
<1>1. ASSUME NEW s \in Run, Acknowledge(s) PROVE Reviewed(r) \/ pc[r] \in {"failed", "aborted"}
  BY <1>1 DEF Acknowledge, Working, Typed, CoreTyped
<1>2. ASSUME NEW k \in Call, AckTerminal(k) PROVE Reviewed(r)
  <2>1. /\ Current(k) \in call[k].todo
        /\ \A s \in call[k].todo : Current(k) <= s
    BY <1>2, CurrentIsFirst DEF AckTerminal
  <2>2. r = Current(k) /\ call[k].at \in {"ackResult", "ackError"}
    BY <1>2 DEF AckTerminal
  <2>. QED BY <2>1, <2>2 DEF Working
<1>3. ASSUME UNCHANGED retained PROVE FALSE
  BY <1>3
<1>4. ASSUME retained \subseteq retained' PROVE FALSE
  BY <1>4
<1>5. ASSUME NEW s \in Run, RunStep(s), ~Acknowledge(s) PROVE FALSE
  BY <1>3, <1>5 DEF RunStep, Prepare, Submit, Settle, StoreFailure, coreVars
<1>6. ASSUME NEW s \in Run, CoreRun(s) \/ CoreAsk(s) \/ Decide(s) PROVE FALSE
  BY <1>4, <1>6 DEF CoreRun, CoreStart, CoreEnd, CoreAsk, Decide
<1>7. ASSUME NEW k \in Call, Snapshot(k) \/ RestoreActive(k) \/ Get(k) \/ Project(k), ~AckTerminal(k) PROVE FALSE
  BY <1>3, <1>7 DEF Snapshot, RestoreActive, Get, Project, Unprojected, coreVars
<1>8. ASSUME \/ \E s \in Run, c \in Conv : Start(s, c)
             \/ \E c \in Conv : Stop(c) \/ Clear(c) \/ Answer(c)
             \/ Reload \/ CoreCrash \/ Deliver
             \/ \E s \in steering : Steer(s)
      PROVE FALSE
  BY <1>4, <1>8 DEF Start, Stop, Clear, Answer, Reload, CoreCrash, Deliver, Steer, coreVars
<1>. QED BY <1>1, <1>2, <1>5, <1>6, <1>7, <1>8 DEF Next, Restore

-----------------------------------------------------------------------------
(* Questions and answers. *)

\* A controller that shows a question it does not wait for has been restored,
\* and shows a question of its own run.
OwnQuestion == \A r \in Run : shown[r] = None \/ pending[r] = shown[r] \/ shown[r][1] = r

\* Every step keeps foreign questions those that are waited for.
LEMMA OwnQuestionStep == Typed /\ OwnQuestion /\ [Next]_vars => OwnQuestion'
<1>. SUFFICES ASSUME Typed, OwnQuestion, [Next]_vars PROVE OwnQuestion'
  OBVIOUS
<1>. USE DEF OwnQuestion, coreVars, runVars, viewVars
<1>1. ASSUME NEW r \in Run, NEW c \in Conv, Start(r, c) PROVE OwnQuestion'
  BY <1>1 DEF Start, Typed, CoreTyped, RunTyped, ViewTyped, CallTyped
<1>2. ASSUME NEW r \in Run, Prepare(r) PROVE OwnQuestion'
  BY <1>2 DEF Prepare, Finish, Typed, CoreTyped, RunTyped, ViewTyped, CallTyped
<1>3. ASSUME NEW r \in Run, Submit(r) PROVE OwnQuestion'
  BY <1>3 DEF Submit, Typed, CoreTyped, RunTyped, ViewTyped, CallTyped
<1>4. ASSUME NEW r \in Run, Settle(r) PROVE OwnQuestion'
  BY <1>4 DEF Settle, Typed, CoreTyped, RunTyped, ViewTyped, CallTyped
<1>5. ASSUME NEW r \in Run, StoreFailure(r) PROVE OwnQuestion'
  BY <1>5 DEF StoreFailure, Typed, CoreTyped, RunTyped, ViewTyped, CallTyped
<1>6. ASSUME NEW r \in Run, Acknowledge(r) PROVE OwnQuestion'
  BY <1>6 DEF Acknowledge, Conclude, Finish, Typed, CoreTyped, RunTyped, ViewTyped, CallTyped
<1>7. ASSUME NEW c \in Conv, Stop(c) PROVE OwnQuestion'
  BY <1>7 DEF Stop, Withdraw, Target, Entry, Has, Voided, CancelPending, Typed, CoreTyped, RunTyped, ViewTyped, CallTyped
<1>8. ASSUME NEW c \in Conv, Clear(c) PROVE OwnQuestion'
  <2>1. CASE UNCHANGED <<pending, shown>>
    BY <2>1
  <2>2. ASSUME NEW r \in Entry(c), Withdraw(r) PROVE OwnQuestion'
    BY <2>2 DEF Withdraw, CancelPending, Entry, Typed, ViewTyped
  <2>. QED BY <1>8, <2>1, <2>2 DEF Clear
<1>9. ASSUME NEW c \in Conv, Answer(c) PROVE OwnQuestion'
  BY <1>9 DEF Answer, Steered, Typed, CoreTyped, RunTyped, ViewTyped, CallTyped
<1>10. ASSUME NEW r \in Run, Decide(r) PROVE OwnQuestion'
  BY <1>10 DEF Decide, Typed, CoreTyped, RunTyped, ViewTyped, CallTyped
<1>11. CASE Reload
  BY <1>11 DEF Reload, Idle, Typed, CoreTyped, RunTyped, ViewTyped, CallTyped
<1>12. ASSUME NEW r \in Run, CoreStart(r) PROVE OwnQuestion'
  BY <1>12 DEF CoreStart, Typed, CoreTyped, RunTyped, ViewTyped, CallTyped
<1>13. ASSUME NEW r \in Run, CoreAsk(r) PROVE OwnQuestion'
  BY <1>13 DEF CoreAsk, Emit, Typed, CoreTyped, RunTyped, ViewTyped, CallTyped
<1>14. ASSUME NEW r \in Run, NEW t \in {"result", "error"}, CoreEnd(r, t) PROVE OwnQuestion'
  BY <1>14 DEF CoreEnd, Emit, Typed, CoreTyped, RunTyped, ViewTyped, CallTyped
<1>15. CASE CoreCrash
  BY <1>15 DEF CoreCrash, Typed, CoreTyped, RunTyped, ViewTyped, CallTyped
<1>16. CASE Deliver
  <2>1. CASE Asked(<<Head(feed).run, Head(feed).n>>)
    BY <2>1 DEF Asked
  <2>2. CASE UNCHANGED <<pending, shown>>
    BY <2>2
  <2>. QED BY <1>16, <2>1, <2>2 DEF Deliver, Told
<1>17. ASSUME NEW s \in steering, Steer(s) PROVE OwnQuestion'
  BY <1>17 DEF Steer, Typed, CoreTyped, RunTyped, ViewTyped, CallTyped
<1>18. ASSUME NEW k \in Call, Snapshot(k) PROVE OwnQuestion'
  BY <1>18 DEF Snapshot, Typed, CoreTyped, RunTyped, ViewTyped, CallTyped
<1>19. ASSUME NEW k \in Call, RestoreActive(k) PROVE OwnQuestion'
  BY <1>19 DEF RestoreActive, Proceed, Idle, Entry, Has, Typed, CoreTyped, RunTyped, ViewTyped, CallTyped
<1>20. ASSUME NEW k \in Call, Get(k) PROVE OwnQuestion'
  BY <1>20 DEF Get, Close, Proceed, Idle, At, Typed, CoreTyped, RunTyped, ViewTyped, CallTyped
<1>21. ASSUME NEW k \in Call, Project(k) PROVE OwnQuestion'
  BY <1>21 DEF Project, Unprojected, Close, Proceed, Idle, At, Typed, CoreTyped, RunTyped, ViewTyped, CallTyped
<1>22. ASSUME NEW k \in Call, AckTerminal(k) PROVE OwnQuestion'
  BY <1>22 DEF AckTerminal, Close, Proceed, Idle, Typed, CoreTyped, RunTyped, ViewTyped, CallTyped
<1>23. CASE UNCHANGED vars
  BY <1>23 DEF vars, Typed, CoreTyped, RunTyped, ViewTyped, CallTyped
<1>. QED BY <1>1, <1>2, <1>3, <1>4, <1>5, <1>6, <1>7, <1>8, <1>9, <1>10, <1>11, <1>12, <1>13, <1>14,
  <1>15, <1>16, <1>17, <1>18, <1>19, <1>20, <1>21, <1>22, <1>23
  DEF Next, RunStep, CoreRun, Restore

\* Every answer is sent to its asker.
LEMMA AskerStep == Typed /\ OwnQuestion /\ AnswerReachesItsAsker /\ [Next]_vars => AnswerReachesItsAsker'
<1>. SUFFICES ASSUME Typed, OwnQuestion, AnswerReachesItsAsker, [Next]_vars PROVE AnswerReachesItsAsker'
  OBVIOUS
<1>. USE DEF AnswerReachesItsAsker, coreVars, runVars, viewVars
<1>1. ASSUME NEW r \in Run, NEW c \in Conv, Start(r, c) PROVE AnswerReachesItsAsker'
  BY <1>1 DEF Start, Typed, ViewTyped, OwnQuestion
<1>2. ASSUME NEW r \in Run, Prepare(r) PROVE AnswerReachesItsAsker'
  BY <1>2 DEF Prepare, Finish, Typed, ViewTyped, OwnQuestion
<1>3. ASSUME NEW r \in Run, Submit(r) PROVE AnswerReachesItsAsker'
  BY <1>3 DEF Submit, Typed, ViewTyped, OwnQuestion
<1>4. ASSUME NEW r \in Run, Settle(r) PROVE AnswerReachesItsAsker'
  BY <1>4 DEF Settle, Typed, ViewTyped, OwnQuestion
<1>5. ASSUME NEW r \in Run, StoreFailure(r) PROVE AnswerReachesItsAsker'
  BY <1>5 DEF StoreFailure, Typed, ViewTyped, OwnQuestion
<1>6. ASSUME NEW r \in Run, Acknowledge(r) PROVE AnswerReachesItsAsker'
  BY <1>6 DEF Acknowledge, Conclude, Finish, Typed, ViewTyped, OwnQuestion
<1>7. ASSUME NEW c \in Conv, Stop(c) PROVE AnswerReachesItsAsker'
  BY <1>7 DEF Stop, Withdraw, Target, Entry, Has, Voided, CancelPending, Typed, ViewTyped, OwnQuestion
<1>8. ASSUME NEW c \in Conv, Clear(c) PROVE AnswerReachesItsAsker'
  BY <1>8 DEF Clear, Withdraw, Entry, Has, Voided, CancelPending, Typed, ViewTyped, OwnQuestion
<1>9. ASSUME NEW c \in Conv, Answer(c) PROVE AnswerReachesItsAsker'
  BY <1>9 DEF Answer, Steered, Typed, ViewTyped, OwnQuestion
<1>10. ASSUME NEW r \in Run, Decide(r) PROVE AnswerReachesItsAsker'
  BY <1>10 DEF Decide, Typed, ViewTyped, OwnQuestion
<1>11. CASE Reload
  BY <1>11 DEF Reload, Idle, Typed, ViewTyped, OwnQuestion
<1>12. ASSUME NEW r \in Run, CoreStart(r) PROVE AnswerReachesItsAsker'
  BY <1>12 DEF CoreStart, Typed, ViewTyped, OwnQuestion
<1>13. ASSUME NEW r \in Run, CoreAsk(r) PROVE AnswerReachesItsAsker'
  BY <1>13 DEF CoreAsk, Emit, Typed, ViewTyped, OwnQuestion
<1>14. ASSUME NEW r \in Run, NEW t \in {"result", "error"}, CoreEnd(r, t) PROVE AnswerReachesItsAsker'
  BY <1>14 DEF CoreEnd, Emit, Typed, ViewTyped, OwnQuestion
<1>15. CASE CoreCrash
  BY <1>15 DEF CoreCrash, Typed, ViewTyped, OwnQuestion
<1>16. CASE Deliver
  BY <1>16 DEF Deliver, Asked, Told, Voided, Typed, ViewTyped, OwnQuestion
<1>17. ASSUME NEW s \in steering, Steer(s) PROVE AnswerReachesItsAsker'
  BY <1>17 DEF Steer, Typed, ViewTyped, OwnQuestion
<1>18. ASSUME NEW k \in Call, Snapshot(k) PROVE AnswerReachesItsAsker'
  BY <1>18 DEF Snapshot, Typed, ViewTyped, OwnQuestion
<1>19. ASSUME NEW k \in Call, RestoreActive(k) PROVE AnswerReachesItsAsker'
  BY <1>19 DEF RestoreActive, Proceed, Idle, Entry, Has, Typed, ViewTyped, OwnQuestion
<1>20. ASSUME NEW k \in Call, Get(k) PROVE AnswerReachesItsAsker'
  BY <1>20 DEF Get, Close, Proceed, Idle, At, Typed, ViewTyped, OwnQuestion
<1>21. ASSUME NEW k \in Call, Project(k) PROVE AnswerReachesItsAsker'
  BY <1>21 DEF Project, Unprojected, Close, Proceed, Idle, At, Typed, ViewTyped, OwnQuestion
<1>22. ASSUME NEW k \in Call, AckTerminal(k) PROVE AnswerReachesItsAsker'
  BY <1>22 DEF AckTerminal, Close, Proceed, Idle, Typed, ViewTyped, OwnQuestion
<1>23. CASE UNCHANGED vars
  BY <1>23 DEF vars, Typed, ViewTyped, OwnQuestion
<1>. QED BY <1>1, <1>2, <1>3, <1>4, <1>5, <1>6, <1>7, <1>8, <1>9, <1>10, <1>11, <1>12, <1>13, <1>14,
  <1>15, <1>16, <1>17, <1>18, <1>19, <1>20, <1>21, <1>22, <1>23
  DEF Next, RunStep, CoreRun, Restore

\* The interface listens to a run it waits for, and a question of such a run that
\* has reached it is shown by the run's own controller or is being answered.
Waited(r) == pc[r] = "running" /\ promise[r] = "waiting"
Faced(q) == (pending[q[1]] = q /\ shown[q[1]] = q) \/ \E s \in steering : s.question = q
Answerable ==
  /\ \A r \in Run : Waited(r) => r \in listening
  /\ \A q \in open : Waited(q[1]) /\ ~OnItsWay(q) => Faced(q)

\* A step that leaves the own questions of the runs waited for alone.
LEMMA QuestionsKept ==
  ASSUME Typed, Answerable, open' \subseteq open, steering \subseteq steering',
         UNCHANGED feed \/ \E e \in Event : feed' = Append(feed, e),
         \A r \in Run : Waited(r)' =>
           /\ Waited(r) /\ (r \in listening => r \in listening')
           /\ pending[r] \in Question /\ pending[r][1] = r =>
                pending'[r] = pending[r] /\ shown'[r] = shown[r]
  PROVE  Answerable'
<1>1. \A r \in Run : Waited(r)' => r \in listening'
  BY DEF Answerable
<1>2. ASSUME NEW q, OnItsWay(q) PROVE OnItsWay(q)'
  <2>1. PICK i \in DOMAIN feed : feed[i].type = "ask" /\ <<feed[i].run, feed[i].n>> = q
    BY <1>2 DEF OnItsWay
  <2>2. i \in DOMAIN feed' /\ feed'[i] = feed[i]
    <3>1. CASE UNCHANGED feed
      BY <3>1
    <3>2. ASSUME NEW e \in Event, feed' = Append(feed, e) PROVE i \in DOMAIN feed' /\ feed'[i] = feed[i]
      BY <3>2 DEF Typed, CoreTyped
    <3>. QED BY <3>1, <3>2
  <2>. QED BY <2>1, <2>2 DEF OnItsWay
<1>3. ASSUME NEW q \in open', Waited(q[1])', ~OnItsWay(q)' PROVE Faced(q)'
  <2>1. q \in open /\ q \in Question /\ q[1] \in Run
    BY DEF Typed, CoreTyped, Question
  <2>2. Faced(q)
    BY <1>2, <1>3, <2>1 DEF Answerable
  <2>. QED BY <1>3, <2>1, <2>2 DEF Faced
<1>. QED BY <1>1, <1>3 DEF Answerable

\* Every step keeps the questions answerable.
LEMMA AnswerableStep == Typed /\ Born /\ Ends /\ Working /\ OwnQuestion /\ AnswerReachesItsAsker /\ Answerable /\ [Next]_vars => Answerable'
<1>. SUFFICES ASSUME Typed, Born, Ends, Working, OwnQuestion, AnswerReachesItsAsker, Answerable, [Next]_vars PROVE Answerable'
  OBVIOUS
<1>. USE DEF Answerable, coreVars, runVars, viewVars
<1>1. ASSUME NEW r \in Run, NEW c \in Conv, Start(r, c) PROVE Answerable'
  <2>1. open' \subseteq open /\ steering \subseteq steering'
    BY <1>1 DEF Start
  <2>2. UNCHANGED feed
    BY <1>1 DEF Start
  <2>3. ASSUME NEW u \in Run, Waited(u)'
        PROVE  /\ Waited(u) /\ (u \in listening => u \in listening')
               /\ pending[u] \in Question /\ pending[u][1] = u =>
                    pending'[u] = pending[u] /\ shown'[u] = shown[u]
    BY <1>1, <2>3 DEF Waited, Start, Typed, CoreTyped, RunTyped, ViewTyped
  <2>. QED BY <2>1, <2>2, <2>3, QuestionsKept
<1>2. ASSUME NEW r \in Run, Prepare(r) PROVE Answerable'
  <2>1. open' \subseteq open /\ steering \subseteq steering'
    BY <1>2 DEF Prepare
  <2>2. UNCHANGED feed
    BY <1>2 DEF Prepare
  <2>3. ASSUME NEW u \in Run, Waited(u)'
        PROVE  /\ Waited(u) /\ (u \in listening => u \in listening')
               /\ pending[u] \in Question /\ pending[u][1] = u =>
                    pending'[u] = pending[u] /\ shown'[u] = shown[u]
    BY <1>2, <2>3 DEF Waited, Prepare, Finish, Typed, CoreTyped, RunTyped, ViewTyped
  <2>. QED BY <2>1, <2>2, <2>3, QuestionsKept
<1>3. ASSUME NEW r \in Run, Submit(r) PROVE Answerable'
  <2>1. UNCHANGED <<open, feed, pending, shown, steering>>
    BY <1>3 DEF Submit
  <2>2. core[r] = "none" /\ \A u \in Run \ {r} : Waited(u)' => Waited(u)
    BY <1>3 DEF Submit, Born, Waited, Typed, RunTyped
  <2>3. \A u \in Run : Waited(u)' => u \in listening'
    BY <1>3 DEF Submit, Waited, Typed, RunTyped
  <2>4. \A q \in open : q[1] \in Run \ {r}
    BY <2>2 DEF Typed, CoreTyped, Question, Born
  <2>. QED BY <2>1, <2>2, <2>3, <2>4 DEF OnItsWay, Faced
<1>4. ASSUME NEW r \in Run, Settle(r) PROVE Answerable'
  <2>1. open' \subseteq open /\ steering \subseteq steering'
    BY <1>4 DEF Settle
  <2>2. UNCHANGED feed
    BY <1>4 DEF Settle
  <2>3. ASSUME NEW u \in Run, Waited(u)'
        PROVE  /\ Waited(u) /\ (u \in listening => u \in listening')
               /\ pending[u] \in Question /\ pending[u][1] = u =>
                    pending'[u] = pending[u] /\ shown'[u] = shown[u]
    BY <1>4, <2>3 DEF Waited, Settle, Typed, CoreTyped, RunTyped, ViewTyped
  <2>. QED BY <2>1, <2>2, <2>3, QuestionsKept
<1>5. ASSUME NEW r \in Run, StoreFailure(r) PROVE Answerable'
  <2>1. open' \subseteq open /\ steering \subseteq steering'
    BY <1>5 DEF StoreFailure
  <2>2. UNCHANGED feed
    BY <1>5 DEF StoreFailure
  <2>3. ASSUME NEW u \in Run, Waited(u)'
        PROVE  /\ Waited(u) /\ (u \in listening => u \in listening')
               /\ pending[u] \in Question /\ pending[u][1] = u =>
                    pending'[u] = pending[u] /\ shown'[u] = shown[u]
    BY <1>5, <2>3 DEF Waited, StoreFailure, Typed, CoreTyped, RunTyped, ViewTyped
  <2>. QED BY <2>1, <2>2, <2>3, QuestionsKept
<1>6. ASSUME NEW r \in Run, Acknowledge(r) PROVE Answerable'
  <2>1. open' \subseteq open /\ steering \subseteq steering'
    BY <1>6 DEF Acknowledge
  <2>2. UNCHANGED feed
    BY <1>6 DEF Acknowledge
  <2>3. ASSUME NEW u \in Run, Waited(u)'
        PROVE  /\ Waited(u) /\ (u \in listening => u \in listening')
               /\ pending[u] \in Question /\ pending[u][1] = u =>
                    pending'[u] = pending[u] /\ shown'[u] = shown[u]
    BY <1>6, <2>3 DEF Waited, Acknowledge, Conclude, Finish, Typed, CoreTyped, RunTyped, ViewTyped
  <2>. QED BY <2>1, <2>2, <2>3, QuestionsKept
<1>7. ASSUME NEW c \in Conv, Stop(c) PROVE Answerable'
  <2>1. open' \subseteq open /\ steering \subseteq steering' /\ UNCHANGED <<feed, pc, listening>>
    BY <1>7 DEF Stop
  <2>2. ASSUME NEW r \in Run, Withdraw(r), NEW u \in Run, Waited(u)'
        PROVE  /\ Waited(u)
               /\ pending[u] \in Question /\ pending[u][1] = u =>
                    pending'[u] = pending[u] /\ shown'[u] = shown[u]
    BY <2>1, <2>2 DEF Withdraw, Waited, Voided, CancelPending, Typed, RunTyped, ViewTyped
  <2>3. \/ \E r \in Run : Withdraw(r)
        \/ UNCHANGED <<promise, pending, shown>>
    BY <1>7 DEF Stop, Entry, Target, Typed, ViewTyped
  <2>. QED BY <2>1, <2>2, <2>3, QuestionsKept DEF Waited
<1>8. ASSUME NEW c \in Conv, Clear(c) PROVE Answerable'
  <2>1. open' \subseteq open /\ steering \subseteq steering' /\ UNCHANGED <<feed, pc, listening>>
    BY <1>8 DEF Clear
  <2>2. ASSUME NEW r \in Run, Withdraw(r), NEW u \in Run, Waited(u)'
        PROVE  /\ Waited(u)
               /\ pending[u] \in Question /\ pending[u][1] = u =>
                    pending'[u] = pending[u] /\ shown'[u] = shown[u]
    BY <2>1, <2>2 DEF Withdraw, Waited, Voided, CancelPending, Typed, RunTyped, ViewTyped
  <2>3. \/ \E r \in Run : Withdraw(r)
        \/ UNCHANGED <<promise, pending, shown>>
    BY <1>8 DEF Clear, Entry, Target, Typed, ViewTyped
  <2>. QED BY <2>1, <2>2, <2>3, QuestionsKept DEF Waited
<1>9. ASSUME NEW c \in Conv, Answer(c) PROVE Answerable'
  <2>. DEFINE q == shown[runtimes[c]]
  <2>1. PICK r \in activeRuns : shown[r] = q /\ steering' = steering \cup {Steered(r, q)}
                                /\ pending' = [pending EXCEPT ![r] = None] /\ shown' = [shown EXCEPT ![r] = None]
    BY <1>9 DEF Answer
  <2>2. UNCHANGED <<open, feed, pc, promise, listening>>
    BY <1>9 DEF Answer
  <2>3. ASSUME NEW p \in open, Faced(p) PROVE Faced(p)'
    <3>1. p[1] \in Run
      BY DEF Typed, CoreTyped, Question
    <3>2. CASE \E s \in steering : s.question = p
      BY <2>1, <3>2 DEF Faced
    <3>3. CASE pending[p[1]] = p /\ shown[p[1]] = p /\ p[1] # r
      BY <2>1, <3>1, <3>3 DEF Faced, Typed, ViewTyped
    <3>4. CASE shown[p[1]] = p /\ p[1] = r
      <4>1. p = q /\ Steered(r, q) \in steering' /\ Steered(r, q).question = p
        BY <2>1, <3>4 DEF Steered
      <4>. QED BY <4>1 DEF Faced
    <3>. QED BY <2>3, <3>2, <3>3, <3>4 DEF Faced
  <2>. QED BY <2>2, <2>3 DEF Waited, OnItsWay
<1>10. ASSUME NEW r \in Run, Decide(r) PROVE Answerable'
  <2>1. open' \subseteq open /\ steering \subseteq steering'
    BY <1>10 DEF Decide
  <2>2. UNCHANGED feed
    BY <1>10 DEF Decide
  <2>3. ASSUME NEW u \in Run, Waited(u)'
        PROVE  /\ Waited(u) /\ (u \in listening => u \in listening')
               /\ pending[u] \in Question /\ pending[u][1] = u =>
                    pending'[u] = pending[u] /\ shown'[u] = shown[u]
    BY <1>10, <2>3 DEF Waited, Decide, Typed, CoreTyped, RunTyped, ViewTyped
  <2>. QED BY <2>1, <2>2, <2>3, QuestionsKept
<1>11. CASE Reload
  <2>1. \A r \in Run : ~Waited(r)'
    BY <1>11 DEF Reload, Waited
  <2>2. \A q \in open' : q[1] \in Run
    BY <1>11 DEF Reload, Typed, CoreTyped, Question
  <2>. QED BY <2>1, <2>2
<1>12. ASSUME NEW r \in Run, CoreStart(r) PROVE Answerable'
  <2>1. open' \subseteq open /\ steering \subseteq steering'
    BY <1>12 DEF CoreStart
  <2>2. UNCHANGED feed
    BY <1>12 DEF CoreStart
  <2>3. ASSUME NEW u \in Run, Waited(u)'
        PROVE  /\ Waited(u) /\ (u \in listening => u \in listening')
               /\ pending[u] \in Question /\ pending[u][1] = u =>
                    pending'[u] = pending[u] /\ shown'[u] = shown[u]
    BY <1>12, <2>3 DEF Waited, CoreStart, Typed, CoreTyped, RunTyped, ViewTyped
  <2>. QED BY <2>1, <2>2, <2>3, QuestionsKept
<1>13. ASSUME NEW r \in Run, CoreAsk(r) PROVE Answerable'
  <2>. DEFINE new == <<r, asks[r] + 1>>
              e == [type |-> "ask", run |-> r, n |-> asks[r] + 1]
  <2>1. UNCHANGED <<pc, promise, pending, shown, steering, listening>> /\ open' = open \cup {new}
    BY <1>13 DEF CoreAsk
  <2>2. feed' = IF listening = {} THEN feed ELSE Append(feed, e)
    BY <1>13 DEF CoreAsk, Emit
  <2>3. ASSUME NEW q, OnItsWay(q) PROVE OnItsWay(q)'
    <3>1. PICK i \in DOMAIN feed : feed[i].type = "ask" /\ <<feed[i].run, feed[i].n>> = q
      BY <2>3 DEF OnItsWay
    <3>2. i \in DOMAIN feed' /\ feed'[i] = feed[i]
      BY <2>2 DEF Typed, CoreTyped
    <3>. QED BY <3>1, <3>2 DEF OnItsWay
  <2>4. ASSUME NEW q, q = new, Waited(r) PROVE OnItsWay(q)'
    <3>1. feed' = Append(feed, e)
      BY <2>2, <2>4
    <3>2. Len(feed) + 1 \in DOMAIN feed' /\ feed'[Len(feed) + 1] = e
      BY <3>1 DEF Typed, CoreTyped
    <3>3. e.type = "ask" /\ <<e.run, e.n>> = q
      BY <2>4
    <3>. HIDE DEF e, new
    <3>. QED BY <3>2, <3>3 DEF OnItsWay
  <2>5. new[1] = r
    OBVIOUS
  <2>. HIDE DEF new
  <2>6. ASSUME NEW q \in open', Waited(q[1])', ~OnItsWay(q)' PROVE Faced(q)'
    <3>1. q # new /\ q \in open
      BY <2>1, <2>4, <2>5, <2>6 DEF Waited
    <3>2. Faced(q)
      BY <2>1, <2>3, <2>6, <3>1 DEF Waited
    <3>. QED BY <2>1, <3>2 DEF Faced
  <2>. QED BY <2>1, <2>6 DEF Waited
<1>14. ASSUME NEW r \in Run, NEW t \in {"result", "error"}, CoreEnd(r, t) PROVE Answerable'
  <2>1. open' \subseteq open /\ UNCHANGED <<pc, promise, pending, shown, steering, listening>>
    BY <1>14 DEF CoreEnd
  <2>2. UNCHANGED feed \/ feed' = Append(feed, [type |-> t, run |-> r, n |-> 0])
    BY <1>14 DEF CoreEnd, Emit
  <2>3. [type |-> t, run |-> r, n |-> 0] \in Event
    BY DEF Event
  <2>. QED BY <2>1, <2>2, <2>3, QuestionsKept DEF Waited
<1>15. CASE CoreCrash
  BY <1>15 DEF CoreCrash, Typed, CoreTyped, RunTyped, ViewTyped, CallTyped, Waited, Faced, OnItsWay, Born
<1>16. CASE Deliver
  <2>. DEFINE e == Head(feed)
              asked == <<e.run, e.n>>
  <2>1. feed # <<>> /\ feed' = Tail(feed) /\ UNCHANGED <<open, steering, pc, listening>>
    BY <1>16 DEF Deliver
  <2>2. ASSUME NEW q, OnItsWay(q), e.type # "ask" \/ q # asked PROVE OnItsWay(q)'
    <3>1. PICK i \in DOMAIN feed : feed[i].type = "ask" /\ <<feed[i].run, feed[i].n>> = q
      BY <2>2 DEF OnItsWay
    <3>2. e = feed[1] /\ i # 1
      BY <2>1, <2>2, <3>1 DEF Typed, CoreTyped
    <3>3. i - 1 \in DOMAIN feed' /\ feed'[i - 1] = feed[i]
      BY <2>1, <3>2 DEF Typed, CoreTyped
    <3>. QED BY <3>1, <3>3 DEF OnItsWay
  <2>3. ASSUME NEW r \in Run, Waited(r)' PROVE Waited(r) /\ r \in listening
    <3>1. e \in Event
      BY <2>1 DEF Typed, CoreTyped
    <3>2. promise[r] = "waiting"
      <4>1. CASE Asked(asked)
        BY <2>3, <4>1 DEF Asked, Voided, Waited, Typed, RunTyped
      <4>2. CASE Told(e) /\ e.type # "ask"
        BY <2>3, <3>1, <4>2 DEF Told, Waited, Event, Typed, RunTyped
      <4>. QED BY <1>16, <4>1, <4>2 DEF Deliver
    <3>. QED BY <2>1, <2>3, <3>2 DEF Waited
  <2>4. ASSUME NEW q \in open, Waited(q[1])', ~OnItsWay(q)' PROVE Faced(q)'
    <3>1. q \in Question /\ q[1] \in Run
      BY DEF Typed, CoreTyped, Question
    <3>2. Waited(q[1]) /\ q[1] \in listening
      BY <2>3, <2>4, <3>1
    <3>3. CASE e.type = "ask" /\ q = asked
      <4>1. Asked(asked)
        BY <1>16, <3>3 DEF Deliver
      <4>. HIDE DEF asked
      <4>. QED BY <3>1, <3>2, <3>3, <4>1 DEF Asked, Faced
    <3>4. CASE e.type # "ask" \/ q # asked
      <4>1. Faced(q)
        BY <2>2, <2>4, <3>2, <3>4
      <4>2. CASE Told(e)
        BY <2>1, <4>1, <4>2 DEF Told, Faced
      <4>3. CASE Asked(asked)
        <5>1. pending[q[1]] # q
          BY <2>4, <3>1, <3>2, <4>3 DEF Asked, Voided, Waited, Typed, RunTyped
        <5>. QED BY <2>1, <4>1, <5>1 DEF Faced
      <4>. QED BY <1>16, <4>2, <4>3 DEF Deliver
    <3>. QED BY <3>3, <3>4
  <2>. QED BY <2>1, <2>3, <2>4
<1>17. ASSUME NEW s \in steering, Steer(s) PROVE Answerable'
  <2>1. UNCHANGED <<pc, feed, pending, shown, listening>> /\ steering' = steering \ {s}
    BY <1>17 DEF Steer
  <2>2. open' \subseteq open /\ s.question \notin open'
    BY <1>17 DEF Steer, AnswerReachesItsAsker
  <2>3. \A r \in Run : Waited(r)' => Waited(r)
    BY <1>17 DEF Steer, Waited, Typed, RunTyped
  <2>4. \A q \in open' : q[1] \in Run /\ (Faced(q) => Faced(q)')
    BY <2>1, <2>2 DEF Faced, Typed, CoreTyped, Question
  <2>. QED BY <2>1, <2>2, <2>3, <2>4 DEF OnItsWay
<1>18. ASSUME NEW k \in Call, Snapshot(k) PROVE Answerable'
  <2>1. open' \subseteq open /\ steering \subseteq steering'
    BY <1>18 DEF Snapshot
  <2>2. UNCHANGED feed
    BY <1>18 DEF Snapshot
  <2>3. ASSUME NEW u \in Run, Waited(u)'
        PROVE  /\ Waited(u) /\ (u \in listening => u \in listening')
               /\ pending[u] \in Question /\ pending[u][1] = u =>
                    pending'[u] = pending[u] /\ shown'[u] = shown[u]
    BY <1>18, <2>3 DEF Waited, Snapshot, Typed, CoreTyped, RunTyped, ViewTyped
  <2>. QED BY <2>1, <2>2, <2>3, QuestionsKept
<1>19. ASSUME NEW k \in Call, RestoreActive(k) PROVE Answerable'
  <2>1. open' \subseteq open /\ steering \subseteq steering'
    BY <1>19 DEF RestoreActive
  <2>2. UNCHANGED feed
    BY <1>19 DEF RestoreActive
  <2>3. ASSUME NEW u \in Run, Waited(u)'
        PROVE  /\ Waited(u) /\ (u \in listening => u \in listening')
               /\ pending[u] \in Question /\ pending[u][1] = u =>
                    pending'[u] = pending[u] /\ shown'[u] = shown[u]
    BY <1>19, <2>3 DEF Waited, RestoreActive, Typed, CoreTyped, RunTyped, ViewTyped
  <2>. QED BY <2>1, <2>2, <2>3, QuestionsKept
<1>20. ASSUME NEW k \in Call, Get(k) PROVE Answerable'
  <2>1. UNCHANGED <<open, steering, feed, pc, promise>>
    BY <1>20 DEF Get
  <2>2. pc[Current(k)] \notin Live
    BY <1>20, CurrentIsFirst DEF Get, Working
  <2>3. \A u \in Run \ {Current(k)} : pending'[u] = pending[u] /\ shown'[u] = shown[u]
                                     /\ (u \in listening => u \in listening')
    BY <1>20 DEF Get, Close, Typed, ViewTyped
  <2>. QED BY <2>1, <2>2, <2>3, QuestionsKept DEF Waited, Live
<1>21. ASSUME NEW k \in Call, Project(k) PROVE Answerable'
  <2>1. UNCHANGED <<open, steering, feed, pc, promise>>
    BY <1>21 DEF Project
  <2>2. pc[Current(k)] \notin Live
    BY <1>21, CurrentIsFirst DEF Project, Working
  <2>3. \A u \in Run \ {Current(k)} : pending'[u] = pending[u] /\ shown'[u] = shown[u]
                                     /\ (u \in listening => u \in listening')
    BY <1>21 DEF Project, Unprojected, Close, Typed, ViewTyped
  <2>. QED BY <2>1, <2>2, <2>3, QuestionsKept DEF Waited, Live
<1>22. ASSUME NEW k \in Call, AckTerminal(k) PROVE Answerable'
  <2>1. UNCHANGED <<open, steering, feed, pc, promise>>
    BY <1>22 DEF AckTerminal
  <2>2. pc[Current(k)] \notin Live
    BY <1>22, CurrentIsFirst DEF AckTerminal, Working
  <2>3. \A u \in Run \ {Current(k)} : pending'[u] = pending[u] /\ shown'[u] = shown[u]
                                     /\ (u \in listening => u \in listening')
    BY <1>22 DEF AckTerminal, Close, Typed, ViewTyped
  <2>. QED BY <2>1, <2>2, <2>3, QuestionsKept DEF Waited, Live
<1>23. CASE UNCHANGED vars
  BY <1>23 DEF vars, Typed, CoreTyped, RunTyped, ViewTyped, CallTyped, Waited, Faced, OnItsWay, Born
<1>. QED BY <1>1, <1>2, <1>3, <1>4, <1>5, <1>6, <1>7, <1>8, <1>9, <1>10, <1>11, <1>12, <1>13, <1>14,
  <1>15, <1>16, <1>17, <1>18, <1>19, <1>20, <1>21, <1>22, <1>23
  DEF Next, RunStep, CoreRun, Restore

-----------------------------------------------------------------------------
(* The inductive invariant and what follows from it. *)

IInv ==
  /\ Typed /\ Born /\ Ends /\ ActiveRunsAreDriven /\ Working
  /\ OwnQuestion /\ AnswerReachesItsAsker /\ Answerable

LEMMA InvariantHoldsAtFirst == Init => IInv
<1>. SUFFICES ASSUME Init PROVE IInv
  OBVIOUS
<1>1. Typed
  BY TypeInit
<1>2. Born /\ Ends /\ Working
  BY DEF Init, Born, Ends, Working, Idle
<1>3. ActiveRunsAreDriven
  BY DEF Init, ActiveRunsAreDriven, Live
<1>4. OwnQuestion /\ AnswerReachesItsAsker /\ Answerable
  BY DEF Init, OwnQuestion, AnswerReachesItsAsker, Answerable, Waited
<1>. QED BY <1>1, <1>2, <1>3, <1>4 DEF IInv

LEMMA InvariantIsKept == IInv /\ [Next]_vars => IInv'
BY TypeStep, BornStep, EndsStep, DrivenStep, WorkingStep, OwnQuestionStep, AskerStep, AnswerableStep
   DEF IInv

LEMMA InvariantHolds == Spec => []IInv
BY InvariantHoldsAtFirst, InvariantIsKept, PTL DEF Spec

\* The state of useAgentRun, its controllers and adapters is always well-formed.
THEOREM TypeCorrect == Spec => []TypeOK
<1>1. IInv => TypeOK
  BY TypedImpliesTypeOK DEF IInv
<1>. QED BY <1>1, InvariantHolds, PTL

\* activeRuns holds the runs whose run() has not returned and the restored ones,
\* one per conversation, however starts, restores and reloads overlap.
THEOREM EntriesAreDriven == Spec => []ActiveRunsAreDriven
<1>1. IInv => ActiveRunsAreDriven
  BY DEF IInv
<1>. QED BY <1>1, InvariantHolds, PTL

\* Every answer the adapters send to the Core names the run that asked, although
\* every controller that listens shows the questions of all runs.
THEOREM AnswersReachTheirAskers == Spec => []AnswerReachesItsAsker
<1>1. IInv => AnswerReachesItsAsker
  BY DEF IInv
<1>. QED BY <1>1, InvariantHolds, PTL

\* A question of a run that waits is shown by an entry of activeRuns, or is being
\* answered, as soon as its event was delivered.
THEOREM QuestionsAreAnswerable == Spec => []QuestionIsAnswerable
<1>1. IInv => QuestionIsAnswerable
  <2>1. ASSUME IInv, NEW q \in open, pc[q[1]] = "running", promise[q[1]] = "waiting", ~OnItsWay(q)
        PROVE  (\E r \in activeRuns : shown[r] = q) \/ (\E s \in steering : s.question = q)
    <3>1. q[1] \in Run
      BY <2>1 DEF IInv, Typed, CoreTyped, Question
    <3>2. q[1] \in activeRuns
      BY <2>1, <3>1 DEF IInv, ActiveRunsAreDriven, Live
    <3>3. Faced(q)
      BY <2>1 DEF IInv, Answerable, Waited
    <3>. QED BY <3>2, <3>3 DEF Faced
  <2>. QED BY <2>1 DEF QuestionIsAnswerable
<1>. QED BY <1>1, InvariantHolds, PTL

\* A result that run() or a restore acknowledges is in review or was decided, or
\* its run has failed in the interface.
THEOREM ResultsAreReviewedFirst == Spec => ReviewedBeforeRelease
<1>. DEFINE Released == \A r \in retained \ retained' :
       core[r] = "result" => r \in review \/ task[r] = "decided" \/ pc[r] \in {"failed", "aborted"}
<1>1. IInv /\ [Next]_vars => [Released]_vars
  BY ReleaseStep DEF IInv
<1>. QED BY <1>1, InvariantHolds, PTL DEF Spec, ReviewedBeforeRelease
=============================================================================
