------------------------- MODULE AgentWorkerProofs -------------------------
(***************************************************************************)
(* Theorems about AgentWorker, for every set of runs and every bound.       *)
(*                                                                          *)
(* What the two processes hold true of each other has to be true of every   *)
(* line between them.  A run waits for one reply at a time, and its request *)
(* is in one place only: a line to the host, a call or question of the      *)
(* supervisor, or the reply on its way back (OneAtATime).  Hence a tool     *)
(* call that is under way cannot meet the row of its own end, and what each *)
(* line says of audit row and consent stays true while it is on its way     *)
(* (LinesAreTrue, RepliesAreTrue, OpenAreTrue).                             *)
(***************************************************************************)
EXTENDS AgentWorker, SequenceTheorems, TLAPS

USE RunAssumption, BoundAssumption

-----------------------------------------------------------------------------
(* The invariant *)

Elements(s) == {s[i] : i \in DOMAIN s}
Positions(s, r, types) == {i \in DOMAIN s : s[i].run = r /\ s[i].type \in types}
AtMostOne(S) == \A x, y \in S : x = y

\* The lines that ask for a reply.
RequestTypes == {"ask", "invoke", "provider", "record"}

Requests(r) == Positions(toHost, r, RequestTypes)
Replies(r) == Positions(toWorker, r, {"reply"})
Open(r) == {q \in calls \cup asking : q[1] = r}

\* At most one of three sets has an element, and only one.
Single(A, B, C) ==
    /\ AtMostOne(A) /\ AtMostOne(B) /\ AtMostOne(C)
    /\ A # {} => B = {} /\ C = {}
    /\ B # {} => C = {}

\* What a run does in the worker when it waits for no reply.
Idle == {"none", "planning", "ready", "replied"}

OneAtATime(r) ==
    /\ Single(Requests(r), Replies(r), Open(r))
    /\ pc[r] \in Idle => Requests(r) = {} /\ Replies(r) = {} /\ Open(r) = {}

\* The supervisor's life, and what the lines of each type carry.
Supervised ==
    /\ sup # "ended" => restarts <= MaxRestarts
    /\ sup # "serving" => active = {}

LineFits(m) ==
    /\ m.type = "ask" => m.arg \in {"asking", "consulting"}
    /\ m.type = "invoke" => m.arg \in {"tool", "finalizing"}
    /\ m.type = "provider" => m.arg = "model"
    /\ m.type = "record" => m.arg \in {"opened", "closed"}

OrderFits(m) == m.type = "reply" => m.arg \in Waits

LinesFit ==
    /\ \A m \in Elements(toHost) : LineFits(m)
    /\ \A m \in Elements(toWorker) : OrderFits(m)

\* The tool call of run r has its row; a tool that needs it has its consent.
Recorded(r) == audit[r] = "running"
Consented(r) == r \in Guarded => r \in consents

LinesAreTrue ==
    \A m \in Elements(toHost) :
        m.type \in {"ask", "invoke"} /\ m.arg # "finalizing" =>
            Recorded(m.run) /\ (m.arg = "tool" => Consented(m.run))

RepliesAreTrue ==
    \A m \in Elements(toWorker) :
        m.type = "reply" /\ m.arg \in {"opened", "asking", "consulting", "tool"} =>
            /\ Recorded(m.run)
            /\ m.arg = "asking" /\ m.answer = "yes" => m.run \in consents

OpenAreTrue ==
    \A r \in Run : \A q \in Open(r) :
        q[2] \in {"asking", "consulting", "tool"} =>
            Recorded(r) /\ (q[2] = "tool" => Consented(r))

\* A result of a run that proposes is behind its proposal.
ProposalPrecedes ==
    \A i \in DOMAIN toHost :
        toHost[i].type = "result" /\ toHost[i].run \in Finalized =>
            \/ tasks[toHost[i].run] = "proposed"
            \/ \E j \in 1 .. i - 1 : /\ toHost[j].type = "finalized"
                                     /\ toHost[j].run = toHost[i].run

\* A run is started by one line, the first the worker hears of it.
StartedOnce ==
    \A r \in Run :
        LET starts == Positions(toWorker, r, {"start"}) IN
        /\ AtMostOne(starts)
        /\ starts # {} => pc[r] = "none" /\ r \in claimed
        /\ r \notin claimed => pc[r] = "none"
        /\ <<"prepare", r>> \in Elements(micro) => pc[r] # "none"

IInv ==
    /\ TypeOK /\ Supervised /\ LinesFit
    /\ \A r \in Run : OneAtATime(r)
    /\ LinesAreTrue /\ RepliesAreTrue /\ OpenAreTrue
    /\ ProposalPrecedes /\ ResultIsProposed
    /\ StartedOnce /\ ActiveIsDriven
-----------------------------------------------------------------------------
(* Lemmas about pipes: lines are appended at the end and taken at the head. *)

LEMMA ElementsOfConcat ==
    ASSUME NEW X, NEW s \in Seq(X), NEW t \in Seq(X)
    PROVE  Elements(s \o t) = Elements(s) \cup Elements(t)
<1>1. /\ s \o t \in Seq(X) /\ Len(s) \in Nat /\ Len(t) \in Nat
      /\ DOMAIN s = 1 .. Len(s) /\ DOMAIN t = 1 .. Len(t)
      /\ DOMAIN (s \o t) = 1 .. Len(s) + Len(t)
  BY ConcatProperties, LenProperties
<1>2. ASSUME NEW i \in DOMAIN (s \o t)
      PROVE  (s \o t)[i] \in Elements(s) \cup Elements(t)
  <2>1. CASE i <= Len(s)
    <3>1. i \in DOMAIN s /\ (s \o t)[i] = s[i]
      BY <1>1, <2>1, ConcatProperties
    <3> QED BY <3>1 DEF Elements
  <2>2. CASE ~(i <= Len(s))
    <3>1. i - Len(s) \in DOMAIN t /\ (s \o t)[i] = t[i - Len(s)]
      BY <1>1, <2>2, ConcatProperties
    <3> QED BY <3>1 DEF Elements
  <2> QED BY <2>1, <2>2
<1>3. ASSUME NEW i \in DOMAIN s PROVE s[i] \in Elements(s \o t)
  <2>1. i \in DOMAIN (s \o t) /\ (s \o t)[i] = s[i]
    BY <1>1, ConcatProperties
  <2> QED BY <2>1 DEF Elements
<1>4. ASSUME NEW i \in DOMAIN t PROVE t[i] \in Elements(s \o t)
  <2>1. i + Len(s) \in DOMAIN (s \o t) /\ (s \o t)[i + Len(s)] = t[i]
    BY <1>1, ConcatProperties
  <2> QED BY <2>1 DEF Elements
<1> QED BY <1>2, <1>3, <1>4 DEF Elements

LEMMA ElementsOfOne ==
    /\ Elements(<<>>) = {}
    /\ \A x : Elements(<<x>>) = {x}
<1>1. DOMAIN <<>> = {}
  BY SMT
<1>2. ASSUME NEW x PROVE DOMAIN <<x>> = {1} /\ <<x>>[1] = x
  BY SMT
<1> QED BY <1>1, <1>2 DEF Elements

LEMMA ElementsOfAppend ==
    ASSUME NEW X, NEW s \in Seq(X), NEW x \in X
    PROVE  Elements(Append(s, x)) = Elements(s) \cup {x}
<1>1. /\ Append(s, x) \in Seq(X) /\ Len(s) \in Nat
      /\ DOMAIN s = 1 .. Len(s) /\ DOMAIN Append(s, x) = 1 .. Len(s) + 1
      /\ \A i \in 1 .. Len(s) : Append(s, x)[i] = s[i]
      /\ Append(s, x)[Len(s) + 1] = x
  BY AppendProperties, LenProperties
<1> QED BY <1>1 DEF Elements

LEMMA ElementsOfTail ==
    ASSUME NEW X, NEW s \in Seq(X), s # <<>>
    PROVE  Elements(Tail(s)) \subseteq Elements(s) /\ Head(s) \in Elements(s)
<1>1. /\ Len(s) \in Nat \ {0} /\ DOMAIN s = 1 .. Len(s)
      /\ Tail(s) \in Seq(X) /\ DOMAIN Tail(s) = 1 .. Len(s) - 1
      /\ \A i \in 1 .. Len(s) - 1 : Tail(s)[i] = s[i + 1]
      /\ Head(s) = s[1]
  BY HeadTailProperties, LenProperties, EmptySeq
<1> QED BY <1>1 DEF Elements

LEMMA PositionsOfTail ==
    ASSUME NEW X, NEW s \in Seq(X), s # <<>>, NEW r, NEW types
    PROVE  /\ \A i \in Positions(Tail(s), r, types) :
                  i \in Nat \ {0} /\ i + 1 \in Positions(s, r, types)
           /\ \A i \in Positions(s, r, types) :
                  i \in Nat /\ (i = 1 \/ i - 1 \in Positions(Tail(s), r, types))
           /\ 1 \in Positions(s, r, types) <=> Head(s).run = r /\ Head(s).type \in types
<1>1. /\ Len(s) \in Nat \ {0} /\ DOMAIN s = 1 .. Len(s)
      /\ Tail(s) \in Seq(X) /\ DOMAIN Tail(s) = 1 .. Len(s) - 1
      /\ \A i \in 1 .. Len(s) - 1 : Tail(s)[i] = s[i + 1]
      /\ Head(s) = s[1]
  BY HeadTailProperties, LenProperties, EmptySeq
<1> QED BY <1>1 DEF Positions

\* A pipe from which a line is taken has no more lines of a kind than before,
\* and none if the one that was taken was the only one.
LEMMA TailHasFewer ==
    ASSUME NEW X, NEW s \in Seq(X), s # <<>>, NEW r, NEW types
    PROVE  /\ Positions(s, r, types) = {} => Positions(Tail(s), r, types) = {}
           /\ AtMostOne(Positions(s, r, types)) =>
                 AtMostOne(Positions(Tail(s), r, types))
           /\ AtMostOne(Positions(s, r, types)) /\ Head(s).run = r /\ Head(s).type \in types =>
                 Positions(Tail(s), r, types) = {}
           /\ Head(s).run # r \/ Head(s).type \notin types =>
                 (Positions(Tail(s), r, types) = {} => Positions(s, r, types) = {})
<1>1. Positions(s, r, types) = {} => Positions(Tail(s), r, types) = {}
  BY PositionsOfTail
<1>2. AtMostOne(Positions(s, r, types)) => AtMostOne(Positions(Tail(s), r, types))
  <2> SUFFICES ASSUME AtMostOne(Positions(s, r, types)),
                      NEW i \in Positions(Tail(s), r, types),
                      NEW j \in Positions(Tail(s), r, types)
               PROVE  i = j
    BY DEF AtMostOne
  <2>1. i \in Nat /\ j \in Nat /\ i + 1 = j + 1
    BY PositionsOfTail DEF AtMostOne
  <2> QED BY <2>1
<1>3. ASSUME AtMostOne(Positions(s, r, types)), Head(s).run = r, Head(s).type \in types
      PROVE  Positions(Tail(s), r, types) = {}
  <2> SUFFICES ASSUME NEW i \in Positions(Tail(s), r, types) PROVE FALSE
    OBVIOUS
  <2>1. i \in Nat \ {0} /\ i + 1 = 1
    BY <1>3, PositionsOfTail DEF AtMostOne
  <2> QED BY <2>1
<1>4. ASSUME Head(s).run # r \/ Head(s).type \notin types, Positions(Tail(s), r, types) = {}
      PROVE  Positions(s, r, types) = {}
  BY <1>4, PositionsOfTail
<1> QED BY <1>1, <1>2, <1>3, <1>4

LEMMA PositionsOfAppend ==
    ASSUME NEW X, NEW s \in Seq(X), NEW x \in X, NEW r, NEW types
    PROVE  Positions(Append(s, x), r, types) =
              Positions(s, r, types) \cup
              (IF x.run = r /\ x.type \in types THEN {Len(s) + 1} ELSE {})
<1>1. /\ Append(s, x) \in Seq(X) /\ Len(s) \in Nat
      /\ DOMAIN s = 1 .. Len(s) /\ DOMAIN Append(s, x) = 1 .. Len(s) + 1
      /\ \A i \in 1 .. Len(s) : Append(s, x)[i] = s[i]
      /\ Append(s, x)[Len(s) + 1] = x
  BY AppendProperties, LenProperties
<1> QED BY <1>1 DEF Positions

LEMMA PositionsOfConcat ==
    ASSUME NEW X, NEW s \in Seq(X), NEW t \in Seq(X), NEW r, NEW types
    PROVE  /\ \A i \in Positions(s \o t, r, types) :
                  \/ i \in Positions(s, r, types)
                  \/ i \in Nat /\ Len(s) \in Nat /\ i - Len(s) \in Positions(t, r, types)
           /\ Positions(s, r, types) \subseteq Positions(s \o t, r, types)
           /\ \A i \in Positions(t, r, types) :
                  i \in Nat /\ i + Len(s) \in Positions(s \o t, r, types)
<1>1. /\ s \o t \in Seq(X) /\ Len(s) \in Nat /\ Len(t) \in Nat
      /\ DOMAIN s = 1 .. Len(s) /\ DOMAIN t = 1 .. Len(t)
      /\ DOMAIN (s \o t) = 1 .. Len(s) + Len(t)
      /\ \A i \in 1 .. Len(s) + Len(t) :
            (s \o t)[i] = IF i <= Len(s) THEN s[i] ELSE t[i - Len(s)]
  BY ConcatProperties, LenProperties
<1>2. ASSUME NEW i \in Positions(s \o t, r, types)
      PROVE  \/ i \in Positions(s, r, types)
             \/ i \in Nat /\ Len(s) \in Nat /\ i - Len(s) \in Positions(t, r, types)
  BY <1>1, <1>2 DEF Positions
<1>3. Positions(s, r, types) \subseteq Positions(s \o t, r, types)
  BY <1>1 DEF Positions
<1>4. ASSUME NEW i \in Positions(t, r, types)
      PROVE  i \in Nat /\ i + Len(s) \in Positions(s \o t, r, types)
  BY <1>1 DEF Positions
<1> QED BY <1>2, <1>3, <1>4
-----------------------------------------------------------------------------
(* The steps of the worker: those in which a run sends lines, and the rest.  *)

Orders == [type : {"start", "cancel", "reply"}, run : Run,
           arg : Waits \cup {""}, answer : {"", "yes", "no"}]

Takes == toWorker # <<>> /\ toWorker' = Tail(toWorker)
TakesOf(r, type) == Takes /\ Head(toWorker).run = r /\ Head(toWorker).type = type

\* Run r has no reply to wait for, before this step or from now on.
Free(r) == pc[r] \in Idle \/ TakesOf(r, "reply")

NoRequest(lines) == \A m \in Elements(lines) : m.type \notin RequestTypes

\* What the worker may say for run r while it goes on to s.
MaySay(r, s, lines) ==
    /\ \A m \in Elements(lines) : m.run = r /\ LineFits(m)
    /\ \/ NoRequest(lines) /\ (s \in Idle => Free(r))
       \/ (\E m \in Lines : lines = <<m>>) /\ s \notin Idle /\ Free(r)
    /\ \A m \in Elements(lines) :
          m.type \in {"ask", "invoke"} /\ m.arg # "finalizing" =>
              Recorded(r) /\ (m.arg = "tool" => Consented(r))
    /\ \A i \in DOMAIN lines :
          lines[i].type = "result" /\ r \in Finalized =>
              \E j \in 1 .. i - 1 : lines[j].type = "finalized"
    /\ s \in {"none", "over"} =>
          \E m \in Elements(lines) : m.type \in {"result", "error"}
    /\ pc[r] = "none" => s = "none" \/ TakesOf(r, "start")
    /\ s = "none" => pc[r] = "none"

Prepares == \A x \in Elements(micro') :
    x \in Elements(micro) \/ x[1] = "refuse" \/ pc'[x[2]] # "none"

\* A start that a running worker takes makes the run known there.
StartIsHeard ==
    Takes /\ Head(toWorker).type = "start" /\ proc' = "running" =>
        pc'[Head(toWorker).run] \notin {"none", "over"}

WorkerOnly ==
    /\ UNCHANGED <<supervisor, calls, rows>>
    /\ toWorker' = toWorker \/ Takes
    /\ proc' = "running" => proc = "running"
    /\ Prepares /\ StartIsHeard

Says(r) ==
    /\ WorkerOnly
    /\ \E s \in Pc, lines \in Seq(Lines) : Go(r, s, lines) /\ MaySay(r, s, lines)

Listens ==
    /\ WorkerOnly /\ toHost' = toHost /\ pc' \in [Run -> Pc]
    /\ \A r \in Run :
          \/ pc'[r] = pc[r]
          \/ InRuntime(r) /\ pc'[r] = "aborting"
          \/ pc[r] = "none" /\ pc'[r] = "planning" /\ TakesOf(r, "start")

LEMMA OneIsSeq == ASSUME NEW X, NEW x \in X PROVE <<x>> \in Seq(X)
  BY SMT

LEMMA OneLine ==
    ASSUME NEW m \in Lines
    PROVE  <<m>> \in Seq(Lines) /\ Elements(<<m>>) = {m}
  BY OneIsSeq, ElementsOfOne

LEMMA MoreLines ==
    ASSUME NEW s \in Seq(Lines), NEW t \in Seq(Lines)
    PROVE  s \o t \in Seq(Lines) /\ Elements(s \o t) = Elements(s) \cup Elements(t)
  BY ElementsOfConcat, ConcatProperties

LEMMA QuietLine ==
    ASSUME NEW r \in Run, NEW type \in {"error", "result", "finalized", "prepared"}
    PROVE  /\ Line(type, r, "") \in Lines
           /\ Line(type, r, "").type = type /\ Line(type, r, "").run = r
  BY DEF Line, Lines

\* A line that asks for a reply, said by a run that waits for none.
LEMMA RequestMaySay ==
    ASSUME NEW r \in Run, NEW s \in Waits, Free(r), pc[r] # "none",
           NEW type \in RequestTypes, NEW arg \in Waits, LineFits(Line(type, r, arg)),
           type \in {"ask", "invoke"} /\ arg # "finalizing" =>
               Recorded(r) /\ (arg = "tool" => Consented(r))
    PROVE  MaySay(r, s, <<Line(type, r, arg)>>)
<1> DEFINE m == Line(type, r, arg)
<1>1. /\ m \in Lines /\ type # "result"
      /\ m.type = type /\ m.run = r /\ m.arg = arg
  BY DEF Line, Lines, RequestTypes
<1>2. Elements(<<m>>) = {m}
  BY <1>1, OneLine
<1>3. s \notin Idle /\ s # "none" /\ s # "over"
  BY DEF Waits, Idle
<1> HIDE DEF m
<1>4. \A i \in DOMAIN <<m>> : <<m>>[i].type # "result"
  BY <1>1, <1>2 DEF Elements
<1>5. MaySay(r, s, <<m>>)
  BY <1>1, <1>2, <1>3, <1>4 DEF MaySay, m
<1> QED BY <1>5 DEF m

LEMMA FailsSays ==
    ASSUME TypeOK, NEW r \in Run, WorkerOnly, Fails(r), pc[r] # "none"
    PROVE  Says(r)
<1> DEFINE m == Line("error", r, "")
<1>1. m \in Lines /\ m.type = "error" /\ m.run = r
  BY QuietLine
<1>2. <<m>> \in Seq(Lines) /\ Elements(<<m>>) = {m}
  BY <1>1, OneLine
<1>3. Go(r, "over", <<m>>) /\ "over" \in Pc
  BY DEF Fails, Pc
<1> HIDE DEF m
<1>4. \A i \in DOMAIN <<m>> : <<m>>[i].type # "result"
  BY <1>1, <1>2 DEF Elements
<1>5. MaySay(r, "over", <<m>>)
  BY <1>1, <1>2, <1>4 DEF MaySay, NoRequest, RequestTypes, LineFits, Idle
<1> QED BY <1>2, <1>3, <1>5 DEF Says

LEMMA CompletesSays ==
    ASSUME TypeOK, NEW r \in Run, WorkerOnly, Completes(r), pc[r] # "none"
    PROVE  Says(r)
<1> DEFINE done == Line("result", r, "")
           stored == Line("finalized", r, "")
<1>1. /\ done \in Lines /\ <<done>> \in Seq(Lines) /\ Elements(<<done>>) = {done}
      /\ done.type = "result" /\ done.run = r
  <2>1. done \in Lines /\ done.type = "result" /\ done.run = r
    BY QuietLine
  <2> QED BY <2>1, OneLine
<1>2. /\ stored \in Lines /\ <<stored>> \in Seq(Lines) /\ Elements(<<stored>>) = {stored}
      /\ stored.type = "finalized" /\ stored.run = r
  <2>1. stored \in Lines /\ stored.type = "finalized" /\ stored.run = r
    BY QuietLine
  <2> QED BY <2>1, OneLine
<1>3. CASE r \in Finalized
  <2> DEFINE lines == <<stored>> \o <<done>>
  <2>1. lines \in Seq(Lines) /\ Elements(lines) = {stored, done}
    <3>1. /\ <<stored>> \o <<done>> \in Seq(Lines)
          /\ Elements(<<stored>> \o <<done>>) = Elements(<<stored>>) \cup Elements(<<done>>)
      BY <1>1, <1>2, MoreLines, Zenon
    <3> QED BY <1>1, <1>2, <3>1, Zenon
  <2>2. DOMAIN lines = 1 .. 2 /\ lines[1] = stored
    BY SMT
  <2>3. MaySay(r, "over", lines)
    <3> HIDE DEF done, stored, lines
    <3>1. \A i \in DOMAIN lines : lines[i].type = "result" =>
              \E j \in 1 .. i - 1 : lines[j].type = "finalized"
      BY <1>1, <1>2, <2>2
    <3> QED BY <1>1, <1>2, <2>1, <3>1 DEF MaySay, NoRequest, RequestTypes, LineFits, Idle
  <2>4. Go(r, "over", lines)
    BY <1>3 DEF Completes
  <2> QED BY <2>1, <2>3, <2>4 DEF Says, Pc
<1>4. CASE r \notin Finalized
  <2>1. Go(r, "over", <<done>>)
    <3>1. <<>> \o <<done>> = <<done>>
      BY <1>1, ConcatEmptySeq
    <3> QED BY <1>4, <3>1 DEF Completes
  <2>2. MaySay(r, "over", <<done>>)
    <3> HIDE DEF done
    <3> QED BY <1>1, <1>4 DEF MaySay, NoRequest, RequestTypes, LineFits, Idle
  <2> QED BY <1>1, <2>1, <2>2 DEF Says, Pc
<1> QED BY <1>3, <1>4

\* A request is said by a run that waits for no reply.
LEMMA RequestSays ==
    ASSUME TypeOK, NEW r \in Run, WorkerOnly, Free(r), pc[r] # "none",
           NEW type \in RequestTypes, NEW arg \in Waits, NEW s \in Waits,
           Go(r, s, <<Line(type, r, arg)>>), LineFits(Line(type, r, arg)),
           type \in {"ask", "invoke"} /\ arg # "finalizing" =>
               Recorded(r) /\ (arg = "tool" => Consented(r))
    PROVE  Says(r)
<1>1. MaySay(r, s, <<Line(type, r, arg)>>)
  BY RequestMaySay, Zenon
<1>2. Line(type, r, arg) \in Lines /\ s \in Pc
  BY DEF Line, Lines, RequestTypes, Pc
<1>3. <<Line(type, r, arg)>> \in Seq(Lines)
  BY <1>2, OneLine
<1> QED BY <1>1, <1>2, <1>3 DEF Says

LEMMA CloseCallSays ==
    ASSUME TypeOK, NEW r \in Run, WorkerOnly, CloseCall(r), Free(r), pc[r] # "none"
    PROVE  Says(r)
<1>1. LineFits(Line("record", r, "closed")) /\ "record" \in RequestTypes /\ "closed" \in Waits
  BY DEF LineFits, Line, RequestTypes, Waits
<1>2. Go(r, "closed", <<Line("record", r, "closed")>>)
  BY DEF CloseCall
<1> QED BY <1>1, <1>2, RequestSays

LEMMA ExecuteSays ==
    ASSUME TypeOK, NEW r \in Run, WorkerOnly, Execute(r), Free(r), pc[r] # "none",
           Recorded(r), Consented(r)
    PROVE  Says(r)
<1>1. CASE Go(r, "tool", <<Line("invoke", r, "tool")>>)
  <2>1. LineFits(Line("invoke", r, "tool")) /\ "invoke" \in RequestTypes /\ "tool" \in Waits
    BY DEF LineFits, Line, RequestTypes, Waits
  <2> QED BY <1>1, <2>1, RequestSays
<1>2. CASE Go(r, "consulting", <<Line("ask", r, "consulting")>>)
  <2>1. LineFits(Line("ask", r, "consulting")) /\ "ask" \in RequestTypes /\ "consulting" \in Waits
    BY DEF LineFits, Line, RequestTypes, Waits
  <2> QED BY <1>2, <2>1, RequestSays
<1> QED BY <1>1, <1>2, CloseCallSays DEF Execute

\* A run goes on without a line.
LEMMA SilenceSays ==
    ASSUME TypeOK, NEW r \in Run, WorkerOnly, NEW s \in Pc \ {"none", "over"},
           Go(r, s, <<>>), Free(r), pc[r] # "none" \/ TakesOf(r, "start")
    PROVE  Says(r)
<1>1. <<>> \in Seq(Lines) /\ Elements(<<>>) = {} /\ DOMAIN <<>> = {}
  BY ElementsOfOne
<1>2. MaySay(r, s, <<>>)
  BY <1>1 DEF MaySay, NoRequest
<1> QED BY <1>1, <1>2 DEF Says

\* A run stays where it is, and its last line is an error.
LEMMA RefusalSays ==
    ASSUME TypeOK, NEW r \in Run, WorkerOnly, NEW lines \in Seq(Lines),
           \A m \in Elements(lines) : m.run = r /\ m.type = "prepared",
           Go(r, pc[r], lines \o <<Line("error", r, "")>>)
    PROVE  Says(r)
<1> DEFINE last == Line("error", r, "")
           all == lines \o <<last>>
<1>1. last \in Lines /\ <<last>> \in Seq(Lines) /\ Elements(<<last>>) = {last}
      /\ last.type = "error" /\ last.run = r
  <2>1. last \in Lines /\ last.type = "error" /\ last.run = r
    BY QuietLine
  <2> QED BY <2>1, OneLine
<1>2. all \in Seq(Lines) /\ Elements(all) = Elements(lines) \cup {last}
  <2>1. /\ lines \o <<last>> \in Seq(Lines)
        /\ Elements(lines \o <<last>>) = Elements(lines) \cup Elements(<<last>>)
    BY <1>1, MoreLines, Zenon
  <2> QED BY <1>1, <2>1, Zenon
<1>3. pc[r] \in Pc
  BY DEF TypeOK
<1>4. MaySay(r, pc[r], all)
  <2> HIDE DEF last, all
  <2>1. \A i \in DOMAIN all : all[i].type # "result"
    BY <1>1, <1>2 DEF Elements
  <2>2. \A m \in Elements(all) : m.run = r /\ m.type \in {"prepared", "error"}
    BY <1>1, <1>2
  <2>3. last \in Elements(all)
    BY <1>2
  <2> QED BY <1>1, <2>1, <2>2, <2>3 DEF MaySay, NoRequest, RequestTypes, LineFits, Free
<1> QED BY <1>2, <1>3, <1>4 DEF Says
-----------------------------------------------------------------------------
(* Each action of the worker is of one of these kinds.                      *)

KnownOfPipes == TypeOK /\ LinesFit /\ RepliesAreTrue /\ StartedOnce

LEMMA TailIsShorter ==
    ASSUME NEW X, NEW s \in Seq(X), s # <<>>
    PROVE  Tail(s) # s
  BY HeadTailProperties, EmptySeq

LEMMA HeadOfOrders ==
    ASSUME KnownOfPipes, toWorker # <<>>
    PROVE  LET m == Head(toWorker) IN
           /\ m \in Orders /\ m.run \in Run /\ OrderFits(m)
           /\ m \in Elements(toWorker)
           /\ m.type = "start" => pc[m.run] = "none"
<1> DEFINE m == Head(toWorker)
<1>1. toWorker \in Seq(Orders)
  BY DEF KnownOfPipes, TypeOK, Orders
<1>2. m \in Elements(toWorker) /\ m \in Orders
  BY <1>1, ElementsOfTail, HeadTailProperties
<1>3. m.run \in Run /\ OrderFits(m)
  BY <1>2 DEF Orders, KnownOfPipes, LinesFit
<1>4. ASSUME m.type = "start" PROVE pc[m.run] = "none"
  <2>1. 1 \in Positions(toWorker, m.run, {"start"})
    BY <1>1, <1>4, PositionsOfTail
  <2> QED BY <1>3, <2>1 DEF KnownOfPipes, StartedOnce
<1> QED BY <1>2, <1>3, <1>4

\* A step that leaves the pipe to the worker alone.
LEMMA OwnStep ==
    ASSUME KnownOfPipes, UNCHANGED <<supervisor, calls, rows, toWorker>>,
           proc' = "running" => proc = "running",
           \A x \in Elements(micro') : x \in Elements(micro)
    PROVE  WorkerOnly
<1>1. toWorker # <<>> => Tail(toWorker) # toWorker
  <2>1. toWorker \in Seq(Orders)
    BY DEF KnownOfPipes, TypeOK, Orders
  <2> QED BY <2>1, TailIsShorter
<1> QED BY <1>1 DEF WorkerOnly, Prepares, StartIsHeard, Takes

LEMMA ByItself ==
    ASSUME KnownOfPipes, NEW r \in Run, Step(r)
    PROVE  WorkerOnly
  BY OwnStep DEF Step

LEMMA AskModelSays == ASSUME KnownOfPipes, NEW r \in Run, AskModel(r) PROVE Says(r)
<1>1. WorkerOnly /\ TypeOK /\ pc[r] = "ready" /\ Free(r)
  BY ByItself DEF AskModel, KnownOfPipes, Free, Idle
<1>2. CASE Go(r, "model", <<Line("provider", r, "model")>>)
  <2>1. LineFits(Line("provider", r, "model")) /\ "provider" \in RequestTypes /\ "model" \in Waits
    BY DEF LineFits, Line, RequestTypes, Waits
  <2> QED BY <1>1, <1>2, <2>1, RequestSays
<1>3. CASE Fails(r)
  BY <1>1, <1>3, FailsSays
<1> QED BY <1>2, <1>3 DEF AskModel

LEMMA CallToolSays == ASSUME KnownOfPipes, NEW r \in Run, CallTool(r) PROVE Says(r)
<1>1. WorkerOnly /\ TypeOK /\ pc[r] = "replied" /\ Free(r)
  BY ByItself DEF CallTool, KnownOfPipes, Free, Idle
<1>2. Go(r, "opened", <<Line("record", r, "opened")>>)
  BY DEF CallTool
<1>3. LineFits(Line("record", r, "opened")) /\ "record" \in RequestTypes /\ "opened" \in Waits
  BY DEF LineFits, Line, RequestTypes, Waits
<1> QED BY <1>1, <1>2, <1>3, RequestSays

LEMMA FinishSays == ASSUME KnownOfPipes, NEW r \in Run, Finish(r) PROVE Says(r)
<1>1. WorkerOnly /\ TypeOK /\ pc[r] = "replied" /\ Free(r)
  BY ByItself DEF Finish, KnownOfPipes, Free, Idle
<1>2. CASE Go(r, "finalizing", <<Line("invoke", r, "finalizing")>>)
  <2>1. /\ LineFits(Line("invoke", r, "finalizing")) /\ "invoke" \in RequestTypes
        /\ "finalizing" \in Waits
    BY DEF LineFits, Line, RequestTypes, Waits
  <2> QED BY <1>1, <1>2, <2>1, RequestSays
<1> QED BY <1>1, <1>2, FailsSays, CompletesSays DEF Finish

LEMMA AbortSays == ASSUME KnownOfPipes, NEW r \in Run, Abort(r) PROVE Says(r)
<1>1. WorkerOnly /\ TypeOK /\ pc[r] = "aborting"
  BY ByItself DEF Abort, KnownOfPipes
<1> QED BY <1>1, FailsSays DEF Abort

LEMMA EndingListens ==
    ASSUME KnownOfPipes, Signal \/ Exit \/ Crash
    PROVE  Listens
<1>1. WorkerOnly
  BY OwnStep DEF Signal, Exit, Crash
<1>2. pc \in [Run -> Pc] /\ "aborting" \in Pc
  BY DEF KnownOfPipes, TypeOK, Pc
<1>3. toHost' = toHost /\ pc' \in [Run -> Pc]
  BY <1>2 DEF Signal, Exit, Crash
<1>4. ASSUME NEW r \in Run PROVE pc'[r] = pc[r] \/ (InRuntime(r) /\ pc'[r] = "aborting")
  <2>1. CASE Signal
    <3>1. pc'[r] = IF InRuntime(r) THEN "aborting" ELSE pc[r]
      BY <2>1 DEF Signal
    <3> QED BY <3>1
  <2>2. CASE Exit \/ Crash
    BY <2>2 DEF Exit, Crash
  <2> QED BY <2>1, <2>2
<1> QED BY <1>1, <1>3, <1>4 DEF Listens

LEMMA ContinueSays ==
    ASSUME KnownOfPipes, Continue
    PROVE  \E r \in Run : Says(r)
<1> DEFINE r == Head(micro)[2]
<1>1. TypeOK /\ micro \in Seq({"prepare", "refuse"} \X Run) /\ micro # <<>>
  BY DEF KnownOfPipes, TypeOK, Continue
<1>2. /\ Head(micro) \in {"prepare", "refuse"} \X Run
      /\ Head(micro) \in Elements(micro) /\ Elements(Tail(micro)) \subseteq Elements(micro)
  BY <1>1, ElementsOfTail, HeadTailProperties
<1>3. r \in Run /\ Head(micro) = <<Head(micro)[1], r>>
  BY <1>2
<1>4. WorkerOnly
  BY <1>2, OwnStep DEF Continue
<1>5. <<>> \in Seq(Lines) /\ Elements(<<>>) = {}
  BY ElementsOfOne
<1>6. CASE Head(micro)[1] = "prepare" /\ Drive(r, <<Line("prepared", r, "")>>)
  <2> DEFINE m == Line("prepared", r, "")
  <2>1. m \in Lines /\ m.type = "prepared" /\ m.run = r
    BY <1>3, QuietLine
  <2>2. <<m>> \in Seq(Lines) /\ Elements(<<m>>) = {m}
    BY <2>1, OneLine
  <2>3. pc[r] # "none"
    BY <1>2, <1>3, <1>6 DEF KnownOfPipes, StartedOnce
  <2>4. CASE pc[r] = "planning"
    <3>1. Go(r, "ready", <<m>>) /\ "ready" \in Pc /\ Free(r)
      BY <1>6, <2>4 DEF Drive, Pc, Free, Idle
    <3>2. MaySay(r, "ready", <<m>>)
      <4> HIDE DEF m
      <4>1. \A i \in DOMAIN <<m>> : <<m>>[i].type # "result"
        BY <2>1, <2>2 DEF Elements
      <4> QED BY <2>1, <2>2, <2>3, <3>1, <4>1
              DEF MaySay, NoRequest, RequestTypes, LineFits
    <3> QED BY <1>3, <1>4, <2>2, <3>1, <3>2 DEF Says
  <2>5. CASE pc[r] # "planning"
    <3>1. Go(r, pc[r], <<m>> \o <<Line("error", r, "")>>)
      BY <1>6, <2>3, <2>5 DEF Drive
    <3>2. \A x \in Elements(<<m>>) : x.run = r /\ x.type = "prepared"
      BY <2>1, <2>2
    <3> QED BY <1>1, <1>3, <1>4, <2>2, <3>1, <3>2, RefusalSays
  <2> QED BY <2>4, <2>5
<1>7. CASE Tell(<<Line("error", r, "")>>) /\ UNCHANGED pc
  <2> DEFINE m == Line("error", r, "")
  <2>1. m \in Lines
    BY <1>3, QuietLine
  <2>2. <<>> \o <<m>> = <<m>>
    BY <2>1, OneLine, ConcatEmptySeq
  <2>3. Go(r, pc[r], <<>> \o <<m>>)
    BY <1>1, <1>7, <2>2 DEF TypeOK, Go
  <2> QED BY <1>1, <1>3, <1>4, <1>5, <2>3, RefusalSays
<1> QED BY <1>6, <1>7 DEF Continue

LEMMA ReplyKind ==
    ASSUME KnownOfPipes, WorkerOnly, Takes, NEW m \in Orders, m = Head(toWorker),
           m.type = "reply", Reply(m)
    PROVE  Says(m.run) \/ Listens
<1> DEFINE r == m.run
<1>1. /\ r \in Run /\ TypeOK /\ m.arg \in Waits /\ m \in Elements(toWorker)
      /\ pc \in [Run -> Pc]
  BY HeadOfOrders DEF KnownOfPipes, TypeOK, OrderFits, Takes
<1>2. CASE pc[r] # m.arg
  BY <1>1, <1>2 DEF Reply, Listens
<1>3. CASE pc[r] = m.arg
  <2>1. Free(r) /\ pc[r] # "none"
    BY <1>1, <1>3 DEF Free, TakesOf, Waits
  <2>2. m.arg \in {"opened", "asking", "consulting", "tool"} =>
            Recorded(r) /\ (m.arg = "asking" /\ m.answer = "yes" => r \in consents)
    BY <1>1 DEF KnownOfPipes, RepliesAreTrue
  <2>3. CASE m.arg = "model" /\ m.answer = "yes" /\ Go(r, "replied", <<>>)
    BY <1>1, <2>1, <2>3, SilenceSays DEF Pc
  <2>4. CASE Fails(r)
    BY <1>1, <2>1, <2>4, FailsSays
  <2>5. CASE m.arg = "opened" /\ r \in Guarded /\ Go(r, "asking", <<Line("ask", r, "asking")>>)
    <3>1. LineFits(Line("ask", r, "asking")) /\ "ask" \in RequestTypes /\ "asking" \in Waits
      BY DEF LineFits, Line, RequestTypes, Waits
    <3> QED BY <1>1, <2>1, <2>2, <2>5, <3>1, RequestSays
  <2>6. CASE m.arg = "opened" /\ r \notin Guarded /\ Execute(r)
    BY <1>1, <2>1, <2>2, <2>6, ExecuteSays DEF Consented
  <2>7. CASE m.arg = "asking" /\ Allowed(m) /\ Execute(r)
    BY <1>1, <2>1, <2>2, <2>7, ExecuteSays DEF Consented, Allowed
  <2>8. CASE CloseCall(r)
    BY <1>1, <2>1, <2>8, CloseCallSays
  <2>9. CASE m.arg = "closed" /\ Go(r, "ready", <<>>)
    BY <1>1, <2>1, <2>9, SilenceSays DEF Pc
  <2>10. CASE Completes(r)
    BY <1>1, <2>1, <2>10, CompletesSays
  <2> QED BY <1>3, <2>3, <2>4, <2>5, <2>6, <2>7, <2>8, <2>9, <2>10 DEF Reply
<1> QED BY <1>2, <1>3

LEMMA QueuedIsHeld ==
    ASSUME TypeOK, NEW type \in {"prepare", "refuse"}, NEW r \in Run,
           micro' = Append(micro, <<type, r>>)
    PROVE  Elements(micro') = Elements(micro) \cup {<<type, r>>}
<1>1. micro \in Seq({"prepare", "refuse"} \X Run) /\ <<type, r>> \in {"prepare", "refuse"} \X Run
  BY DEF TypeOK
<1> QED BY <1>1, ElementsOfAppend

LEMMA ReceiveKind ==
    ASSUME KnownOfPipes, Receive
    PROVE  Listens \/ \E r \in Run : Says(r)
<1> DEFINE m == Head(toWorker)
<1>1. Takes /\ UNCHANGED <<supervisor, calls, rows>>
  BY DEF Receive, Takes
<1>2. /\ m \in Orders /\ m.run \in Run /\ (m.type = "start" => pc[m.run] = "none")
      /\ TypeOK /\ pc \in [Run -> Pc]
  BY <1>1, HeadOfOrders DEF Takes, KnownOfPipes, TypeOK
<1>3. CASE proc = "stopping" /\ UNCHANGED <<pc, turn, micro, proc, toHost>>
  <2>1. WorkerOnly
    BY <1>1, <1>3 DEF WorkerOnly, Prepares, StartIsHeard
  <2> QED BY <1>2, <1>3, <2>1 DEF Listens
<1>4. CASE m.type = "start" /\ m.run \in Direct /\ Start(m)
  <2>1. Go(m.run, "ready", <<>>) /\ UNCHANGED <<turn, micro, proc>>
    BY <1>2, <1>4 DEF Start, Drive
  <2>2. pc'[m.run] = "ready"
    BY <1>2, <2>1 DEF Go
  <2>3. WorkerOnly
    BY <1>1, <2>1, <2>2 DEF WorkerOnly, Prepares, StartIsHeard
  <2>4. TakesOf(m.run, "start") /\ Free(m.run)
    BY <1>1, <1>2, <1>4 DEF TakesOf, Free, Idle
  <2> QED BY <1>2, <2>1, <2>3, <2>4, SilenceSays DEF Pc
<1>5. CASE m.type = "start" /\ m.run \notin Direct /\ Start(m)
  <2>1. /\ micro' = Append(micro, <<"prepare", m.run>>)
        /\ pc' = [pc EXCEPT ![m.run] = "planning"]
        /\ UNCHANGED <<turn, proc, toHost>>
    BY <1>2, <1>5 DEF Start
  <2>2. pc'[m.run] = "planning"
    BY <1>2, <2>1
  <2>3. Elements(micro') = Elements(micro) \cup {<<"prepare", m.run>>}
    BY <1>2, <2>1, QueuedIsHeld
  <2>4. WorkerOnly
    BY <1>1, <2>1, <2>2, <2>3 DEF WorkerOnly, Prepares, StartIsHeard
  <2>5. pc' \in [Run -> Pc] /\ \A r \in Run :
            pc'[r] = pc[r] \/ (r = m.run /\ pc[r] = "none" /\ pc'[r] = "planning")
    BY <1>2, <1>5, <2>1 DEF Pc
  <2> QED BY <1>1, <1>5, <2>1, <2>4, <2>5 DEF Listens, TakesOf
<1>6. CASE m.type = "cancel" /\ Cancel(m)
  <2>1. CASE InRuntime(m.run)
    <3>1. /\ pc' = [pc EXCEPT ![m.run] = "aborting"]
          /\ UNCHANGED <<turn, proc, toHost, micro>>
      BY <1>6, <2>1 DEF Cancel
    <3>2. WorkerOnly
      BY <1>1, <1>6, <3>1 DEF WorkerOnly, Prepares, StartIsHeard
    <3>3. pc' \in [Run -> Pc] /\ \A r \in Run :
              pc'[r] = pc[r] \/ (r = m.run /\ pc'[r] = "aborting")
      BY <1>2, <3>1 DEF Pc
    <3> QED BY <2>1, <3>1, <3>2, <3>3 DEF Listens
  <2>2. CASE ~InRuntime(m.run)
    <3>1. micro' = Append(micro, <<"refuse", m.run>>) /\ UNCHANGED <<pc, turn, proc, toHost>>
      BY <1>6, <2>2 DEF Cancel
    <3>2. Elements(micro') = Elements(micro) \cup {<<"refuse", m.run>>}
      BY <1>2, <3>1, QueuedIsHeld
    <3>3. WorkerOnly
      BY <1>1, <1>6, <3>1, <3>2 DEF WorkerOnly, Prepares, StartIsHeard
    <3> QED BY <1>2, <3>1, <3>3 DEF Listens
  <2> QED BY <2>1, <2>2
<1>7. CASE m.type = "reply" /\ Reply(m)
  <2>1. UNCHANGED <<turn, micro, proc>>
    BY <1>7 DEF Reply
  <2>2. WorkerOnly
    BY <1>1, <1>7, <2>1 DEF WorkerOnly, Prepares, StartIsHeard
  <2> QED BY <1>1, <1>2, <1>7, <2>2, ReplyKind
<1> QED BY <1>3, <1>4, <1>5, <1>6, <1>7 DEF Receive

WorkerStep ==
    \/ Receive \/ Continue \/ Signal \/ Exit \/ Crash
    \/ \E r \in Run : AskModel(r) \/ CallTool(r) \/ Finish(r) \/ Abort(r)

LEMMA WorkerStepKind ==
    ASSUME KnownOfPipes, WorkerStep
    PROVE  Listens \/ \E r \in Run : Says(r)
  BY ReceiveKind, ContinueSays, EndingListens, AskModelSays, CallToolSays, FinishSays,
     AbortSays DEF WorkerStep
-----------------------------------------------------------------------------
(* Types *)

\* The lines of each pipe, once more for the provers.
LEMMA PipeTypes ==
    ASSUME TypeOK
    PROVE  toHost \in Seq(Lines) /\ toWorker \in Seq(Orders)
  BY DEF TypeOK, Orders

LEMMA HeadsAndTails ==
    ASSUME TypeOK
    PROVE  /\ toWorker # <<>> =>
                 Head(toWorker).run \in Run /\ Tail(toWorker) \in Seq(Orders)
           /\ toHost # <<>> => Tail(toHost) \in Seq(Lines)
           /\ micro # <<>> => Tail(micro) \in Seq({"prepare", "refuse"} \X Run)
<1>1. ASSUME toWorker # <<>> PROVE Head(toWorker) \in Orders /\ Tail(toWorker) \in Seq(Orders)
  BY <1>1, PipeTypes, HeadTailProperties
<1>2. ASSUME NEW X, NEW s \in Seq(X), s # <<>> PROVE Tail(s) \in Seq(X)
  BY <1>2, HeadTailProperties
<1>3. micro \in Seq({"prepare", "refuse"} \X Run)
  BY DEF TypeOK
<1> QED BY <1>1, <1>2, <1>3, PipeTypes DEF Orders

LEMMA BoundsAreNumbers ==
    MaxTurns \in Nat /\ MaxRestarts \in Nat /\ MaxCancels \in Nat /\ MaxFaults \in Nat
  OBVIOUS

LEMMA WorkerKeepsTypes == ASSUME KnownOfPipes, WorkerStep PROVE TypeOK'
<1>1. TypeOK /\ toHost \in Seq(Lines) /\ toWorker \in Seq(Orders)
  BY PipeTypes DEF KnownOfPipes
<1>2. /\ UNCHANGED <<supervisor, calls, rows>> /\ toWorker' \in Seq(Orders)
      /\ toHost' \in Seq(Lines) /\ pc' \in [Run -> Pc]
  <2>1. ASSUME WorkerOnly
        PROVE  UNCHANGED <<supervisor, calls, rows>> /\ toWorker' \in Seq(Orders)
    BY <1>1, <2>1, HeadsAndTails DEF WorkerOnly, Takes
  <2>2. CASE Listens
    BY <1>1, <2>1, <2>2 DEF Listens
  <2>3. ASSUME NEW r \in Run, Says(r)
        PROVE  toHost' \in Seq(Lines) /\ pc' \in [Run -> Pc]
    <3>1. PICK s \in Pc, lines \in Seq(Lines) : Go(r, s, lines)
      BY <2>3 DEF Says
    <3>2. toHost' = toHost \o lines /\ pc' = [pc EXCEPT ![r] = s]
      BY <3>1 DEF Go, Tell
    <3>3. toHost \o lines \in Seq(Lines)
      BY <1>1, MoreLines
    <3> QED BY <1>1, <3>2, <3>3 DEF TypeOK
  <2> QED BY <2>1, <2>2, <2>3, WorkerStepKind DEF Says
<1>3. /\ proc' \in {"running", "stopping", "exited"} /\ draining' \in BOOLEAN
      /\ turn' \in [Run -> 0 .. MaxTurns]
      /\ micro' \in Seq({"prepare", "refuse"} \X Run)
      /\ cancels' \in 0 .. MaxCancels /\ faults' \in 0 .. MaxFaults
  <2> DEFINE X == {"prepare", "refuse"} \X Run
  <2>1. /\ turn \in [Run -> 0 .. MaxTurns] /\ micro \in Seq(X)
        /\ MaxTurns \in Nat /\ MaxFaults \in Nat /\ MaxCancels \in Nat
        /\ cancels \in 0 .. MaxCancels /\ faults \in 0 .. MaxFaults
        /\ proc \in {"running", "stopping", "exited"} /\ draining \in BOOLEAN
    BY <1>1 DEF TypeOK
  <2>2. CASE Receive
    <3> DEFINE m == Head(toWorker)
    <3>1. UNCHANGED bounds /\ UNCHANGED draining
      BY <2>2 DEF Receive
    <3>2. m.run \in Run
      BY <1>1, <2>2, HeadsAndTails DEF Receive
    <3>3. \/ UNCHANGED <<turn, micro, proc>>
          \/ \E type \in {"prepare", "refuse"} :
                micro' = Append(micro, <<type, m.run>>) /\ UNCHANGED <<turn, proc>>
      BY <2>2 DEF Receive, Start, Cancel, Reply
    <3>4. micro' \in Seq(X)
      <4>1. ASSUME NEW type \in {"prepare", "refuse"}, micro' = Append(micro, <<type, m.run>>)
            PROVE  micro' \in Seq(X)
        <5>1. <<type, m.run>> \in X
          BY <3>2
        <5> HIDE DEF X, m
        <5> QED BY <2>1, <4>1, <5>1, AppendProperties
      <4> QED BY <2>1, <3>3, <4>1
    <3> QED BY <2>1, <3>1, <3>3, <3>4 DEF bounds
  <2>3. CASE Continue
    <3>1. micro' \in Seq(X)
      BY <1>1, <2>3, HeadsAndTails DEF Continue
    <3>2. draining' \in BOOLEAN
      <4>1. draining' = (Len(micro) > 1)
        BY <2>3 DEF Continue
      <4>2. (Len(micro) > 1) \in BOOLEAN
        OBVIOUS
      <4> QED BY <4>1, <4>2, Zenon
    <3>3. UNCHANGED <<turn, proc, cancels, faults>>
      BY <2>3 DEF Continue, bounds
    <3> QED BY <2>1, <3>1, <3>2, <3>3
  <2>4. CASE Signal \/ Exit \/ Crash
    BY <2>1, <2>4 DEF Signal, Exit, Crash, bounds
  <2>5. CASE \E r \in Run : AskModel(r) \/ CallTool(r) \/ Finish(r) \/ Abort(r)
    <3>1. PICK r \in Run : AskModel(r) \/ CallTool(r) \/ Finish(r) \/ Abort(r)
      BY <2>5
    <3>2. Step(r) /\ turn' \in [Run -> 0 .. MaxTurns]
      <4>1. CASE AskModel(r)
        BY <2>1, <4>1 DEF AskModel
      <4> QED BY <2>1, <3>1, <4>1 DEF CallTool, Finish, Abort
    <3> QED BY <2>1, <3>2 DEF Step, bounds
  <2> QED BY <2>2, <2>3, <2>4, <2>5 DEF WorkerStep
<1> QED BY <1>1, <1>2, <1>3 DEF TypeOK, Orders, supervisor, rows

\* A line written to the worker.
LEMMA WriteKeepsPipe ==
    ASSUME TypeOK, NEW type \in {"start", "cancel", "reply"}, NEW r \in Run,
           NEW arg \in Waits \cup {""}, NEW answer \in {"", "yes", "no"}
    PROVE  /\ Order(type, r, arg, answer) \in Orders
           /\ Append(toWorker, Order(type, r, arg, answer)) \in Seq(Orders)
<1>1. Order(type, r, arg, answer) \in Orders
  BY DEF Order, Orders
<1> QED BY <1>1, PipeTypes, AppendProperties

LEMMA CommandsKeepTypes ==
    ASSUME TypeOK, NEW r \in Run, Submit(r) \/ CancelRun(r) \/ Answer(r) \/ Acknowledge(r)
    PROVE  TypeOK'
<1>1. toHost \in Seq(Lines) /\ toWorker \in Seq(Orders)
  BY PipeTypes
<1>2. CASE Submit(r)
  <2>1. toWorker' \in Seq(Orders)
    BY <1>1, <1>2, WriteKeepsPipe DEF Submit, Write
  <2> QED BY <1>2, <2>1 DEF Submit, TypeOK, Orders, rows, worker, bounds
<1>3. CASE CancelRun(r)
  <2>1. toWorker' \in Seq(Orders)
    BY <1>3, WriteKeepsPipe DEF CancelRun, Write
  <2>2. cancels' \in 0 .. MaxCancels
    <3>1. cancels \in 0 .. MaxCancels /\ cancels < MaxCancels /\ cancels' = cancels + 1
      BY <1>3 DEF CancelRun, TypeOK
    <3> QED BY <3>1, BoundsAreNumbers
  <2> QED BY <1>3, <2>1, <2>2 DEF CancelRun, TypeOK, Orders, supervisor, rows, worker
<1>4. CASE Answer(r)
  <2>1. PICK k \in {"asking", "consulting"}, answer \in {"yes", "no"} :
          /\ asking' = asking \ {<<r, k>>}
          /\ consents' = IF k = "asking" /\ answer = "yes" THEN consents \cup {r} ELSE consents
          /\ IF Alive THEN Write(Order("reply", r, k, answer)) ELSE UNCHANGED toWorker
          /\ UNCHANGED <<sup, restarts, claimed, active, known, terminals, calls, tasks, audit,
                         toHost, worker, bounds>>
    BY <1>4 DEF Answer
  <2>2. toWorker' \in Seq(Orders)
    <3>1. k \in Waits \cup {""}
      BY DEF Waits
    <3> QED BY <1>1, <2>1, <3>1, WriteKeepsPipe DEF Write
  <2> QED BY <2>1, <2>2 DEF TypeOK, Orders, worker, bounds
<1>5. CASE Acknowledge(r)
  BY <1>5 DEF Acknowledge, TypeOK, rows, worker, bounds
<1> QED BY <1>2, <1>3, <1>4, <1>5

LEMMA CallEndsKeepsTypes ==
    ASSUME TypeOK, NEW r \in Run, NEW k \in {"model", "tool", "finalizing"}, CallEnds(r, k)
    PROVE  TypeOK'
<1>1. PICK answer \in {"yes", "no"} :
        IF Alive THEN Write(Order("reply", r, k, answer)) ELSE UNCHANGED toWorker
  BY DEF CallEnds
<1>2. toWorker' \in Seq(Orders)
  <2>1. k \in Waits \cup {""}
    BY DEF Waits
  <2> QED BY <1>1, <2>1, PipeTypes, WriteKeepsPipe DEF Write
<1> QED BY <1>2 DEF CallEnds, TypeOK, Orders, supervisor, rows, worker, bounds

LEMMA DownKeepsTypes ==
    ASSUME TypeOK, Supervised, sup = "serving", Down,
           faults' \in 0 .. MaxFaults, cancels' \in 0 .. MaxCancels
    PROVE  TypeOK'
<1>1. restarts' \in 0 .. MaxRestarts + 1 /\ sup' \in {"serving", "waiting", "ended"}
  <2>1. /\ restarts \in 0 .. MaxRestarts + 1 /\ restarts <= MaxRestarts
        /\ restarts' = restarts + 1
        /\ sup' = IF restarts < MaxRestarts THEN "waiting" ELSE "ended"
    BY DEF TypeOK, Supervised, Down
  <2> QED BY <2>1, BoundsAreNumbers
<1>2. /\ terminals' \in [Run -> {"none", "result", "error", "lost"}]
      /\ tasks' \in [Run -> {"none", "running", "proposed", "interrupted"}]
      /\ pc' \in [Run -> Pc] /\ turn' \in [Run -> 0 .. MaxTurns]
  <2>1. "none" \in Pc /\ 0 \in 0 .. MaxTurns
    BY BoundsAreNumbers DEF Pc
  <2>2. terminals' \in [Run -> {"none", "result", "error", "lost"}]
    BY DEF TypeOK, Down
  <2>3. tasks' \in [Run -> {"none", "running", "proposed", "interrupted"}]
    BY DEF TypeOK, Down, Interrupted
  <2> QED BY <2>1, <2>2, <2>3 DEF Down
<1>3. \A X : <<>> \in Seq(X)
  BY EmptySeq
<1> QED BY <1>1, <1>2, <1>3 DEF TypeOK, Down

LEMMA ProcessKeepsTypes ==
    ASSUME TypeOK, Supervised,
           \/ EndOfOutput \/ HeartbeatLost \/ Restart \/ Ensure \/ Shutdown
           \/ KillWorker \/ StoreFails
    PROVE  TypeOK'
<1>1. faults \in 0 .. MaxFaults /\ cancels \in 0 .. MaxCancels /\ MaxFaults \in Nat
  BY DEF TypeOK
<1>2. CASE EndOfOutput
  BY <1>1, <1>2, DownKeepsTypes DEF EndOfOutput, bounds
<1>3. CASE HeartbeatLost
  BY <1>1, <1>3, DownKeepsTypes DEF HeartbeatLost, bounds
<1>4. CASE KillWorker
  BY <1>1, <1>4, DownKeepsTypes DEF KillWorker, bounds
<1>5. CASE StoreFails
  <2>1. faults' \in 0 .. MaxFaults
    BY <1>1, <1>5 DEF StoreFails
  <2> QED BY <1>1, <1>5, <2>1, DownKeepsTypes DEF StoreFails
<1>6. CASE Restart
  BY <1>6 DEF Restart, Spawn, TypeOK, rows, bounds
<1>7. CASE Ensure
  <2>1. restarts' \in 0 .. MaxRestarts + 1
    <3>1. restarts' = 0
      BY <1>7 DEF Ensure, Spawn
    <3> QED BY <3>1, BoundsAreNumbers
  <2> QED BY <1>7, <2>1 DEF Ensure, Spawn, TypeOK, rows, bounds
<1>8. CASE Shutdown
  <2>1. pc' \in [Run -> Pc] /\ turn' \in [Run -> 0 .. MaxTurns] /\ faults' \in 0 .. MaxFaults
    BY <1>1, <1>8, BoundsAreNumbers DEF Shutdown, Pc
  <2>2. \A X : <<>> \in Seq(X)
    BY EmptySeq
  <2> QED BY <1>8, <2>1, <2>2 DEF Shutdown, TypeOK, rows
<1> QED BY <1>2, <1>3, <1>4, <1>5, <1>6, <1>7, <1>8

\* The line at the head of the pipe to the host.
LEMMA HeadOfLines ==
    ASSUME TypeOK, LinesFit, toHost # <<>>
    PROVE  LET m == Head(toHost) IN
           m \in Lines /\ m.run \in Run /\ LineFits(m) /\ m \in Elements(toHost)
<1>1. toHost \in Seq(Lines)
  BY PipeTypes
<1>2. Head(toHost) \in Elements(toHost) /\ Head(toHost) \in Lines
  BY <1>1, ElementsOfTail, HeadTailProperties
<1> QED BY <1>2 DEF Lines, LinesFit

LEMMA HandleLineKeepsTypes ==
    ASSUME TypeOK, LinesFit, HandleLine
    PROVE  TypeOK'
<1> DEFINE m == Head(toHost)
<1>1. /\ toHost # <<>> /\ toHost' = Tail(toHost) /\ UNCHANGED bounds /\ Handles(m)
  BY DEF HandleLine
<1>2. m.run \in Run /\ LineFits(m) /\ toHost' \in Seq(Lines)
  BY <1>1, HeadOfLines, PipeTypes, HeadTailProperties
<1>3. CASE m.type = "prepared" /\ Prepared(m.run)
  <2>1. tasks' \in [Run -> {"none", "running", "proposed", "interrupted"}]
    BY <1>2, <1>3 DEF Prepared, TypeOK
  <2> QED BY <1>1, <1>2, <1>3, <2>1 DEF Prepared, Serves, TypeOK, bounds, worker
<1>4. CASE m.type = "finalized" /\ Proposed(m.run)
  BY <1>1, <1>2, <1>4 DEF Proposed, Serves, TypeOK, bounds, worker
<1>5. CASE m.type \in {"result", "error"} /\ Ends(m.run, m.type)
  BY <1>1, <1>2, <1>5 DEF Ends, Serves, TypeOK, bounds, worker, rows
<1>6. CASE m.type = "ask" /\ Asks(m.run, m.arg)
  <2>1. asking' \subseteq Run \X {"asking", "consulting"}
    <3>1. m.arg \in {"asking", "consulting"} /\ asking' = asking \cup {<<m.run, m.arg>>}
      BY <1>2, <1>6 DEF Asks, LineFits
    <3>2. asking \subseteq Run \X {"asking", "consulting"}
      BY DEF TypeOK
    <3> HIDE DEF m
    <3> QED BY <1>2, <3>1, <3>2
  <2> QED BY <1>1, <1>2, <1>6, <2>1 DEF Asks, Serves, TypeOK, bounds, worker, rows
<1>7. CASE m.type \in {"invoke", "provider"} /\ Runs(m.run, m.arg)
  <2>1. calls' \subseteq Run \X {"model", "tool", "finalizing"}
    <3>1. m.arg \in {"model", "tool", "finalizing"} /\ calls' = calls \cup {<<m.run, m.arg>>}
      BY <1>2, <1>7 DEF Runs, LineFits
    <3>2. calls \subseteq Run \X {"model", "tool", "finalizing"}
      BY DEF TypeOK
    <3> HIDE DEF m
    <3> QED BY <1>2, <3>1, <3>2
  <2> QED BY <1>1, <1>2, <1>7, <2>1 DEF Runs, Serves, TypeOK, bounds, worker, rows
<1>8. CASE m.type = "record" /\ Records(m.run, m.arg)
  <2>1. toWorker' \in Seq(Orders)
    <3>1. m.arg \in Waits \cup {""}
      BY <1>2, <1>8 DEF LineFits, Waits
    <3> QED BY <1>2, <1>8, <3>1, WriteKeepsPipe DEF Records, Write
  <2>2. audit' \in [Run -> {"none", "running", "settled"}]
    BY <1>2, <1>8 DEF Records, TypeOK
  <2> QED BY <1>1, <1>2, <1>8, <2>1, <2>2 DEF Records, Serves, TypeOK, bounds, worker, Orders
<1> QED BY <1>1, <1>3, <1>4, <1>5, <1>6, <1>7, <1>8 DEF Handles

LEMMA NextKeepsTypes ==
    ASSUME KnownOfPipes, Supervised, [Next]_vars
    PROVE  TypeOK'
<1>1. CASE WorkerStep
  BY <1>1, WorkerKeepsTypes
<1>2. CASE \E r \in Run : Submit(r) \/ CancelRun(r) \/ Answer(r) \/ Acknowledge(r)
  BY <1>2, CommandsKeepTypes DEF KnownOfPipes
<1>3. CASE \E r \in Run, k \in {"model", "tool", "finalizing"} : CallEnds(r, k)
  BY <1>3, CallEndsKeepsTypes DEF KnownOfPipes
<1>4. CASE HandleLine
  BY <1>4, HandleLineKeepsTypes DEF KnownOfPipes
<1>5. CASE \/ EndOfOutput \/ HeartbeatLost \/ Restart \/ Ensure \/ Shutdown
           \/ KillWorker \/ StoreFails
  BY <1>5, ProcessKeepsTypes DEF KnownOfPipes
<1>6. CASE UNCHANGED vars
  BY <1>6 DEF KnownOfPipes, TypeOK, vars, supervisor, rows, worker, bounds
<1> QED BY <1>1, <1>2, <1>3, <1>4, <1>5, <1>6 DEF Next, WorkerStep
-----------------------------------------------------------------------------
(* The steps of the supervisor, by what they leave of the runs.              *)

\* The process ends: nothing is left of the pipes and of the worker.
Resets ==
    /\ toWorker' = <<>> /\ toHost' = <<>> /\ micro' = <<>>
    /\ active' = {} /\ asking' = {} /\ calls' = {}
    /\ pc' = [r \in Run |-> "none"]
    /\ tasks' \in {tasks, Interrupted}
    /\ \A r \in Run : \/ terminals'[r] = terminals[r]
                       \/ (terminals[r] = "none" /\ terminals'[r] = "lost")
    /\ UNCHANGED <<claimed, audit, consents>>

\* The runs stay as they are.
Rests ==
    /\ UNCHANGED <<claimed, active, asking, calls, rows, toWorker, toHost, pc, micro>>
    /\ \A r \in Run : terminals'[r] \in {terminals[r], "none"}
    /\ UNCHANGED <<sup, proc>> \/ sup # "serving"

\* A call or question <<r, k>> of the supervisor is over, and its reply is
\* written if there is still a process.
Replied(r, k) ==
    /\ <<r, k>> \in calls \cup asking
    /\ calls' \cup asking' = (calls \cup asking) \ {<<r, k>>}
    /\ consents \subseteq consents'
    /\ \/ UNCHANGED toWorker
       \/ \E answer \in {"yes", "no"} :
             /\ toWorker' = Append(toWorker, Order("reply", r, k, answer))
             /\ k = "asking" /\ answer = "yes" => r \in consents'
    /\ UNCHANGED <<sup, active, claimed, terminals, tasks, audit, toHost, worker>>

LEMMA DownResets == ASSUME TypeOK, Down PROVE Resets
  BY DEF Down, Resets, TypeOK

LEMMA ProcessKinds ==
    ASSUME TypeOK
    PROVE  /\ EndOfOutput \/ HeartbeatLost \/ Shutdown \/ KillWorker \/ StoreFails => Resets
           /\ Restart \/ Ensure \/ UNCHANGED vars => Rests
           /\ \A r \in Run : Acknowledge(r) => Rests
<1>1. EndOfOutput \/ HeartbeatLost \/ KillWorker \/ StoreFails => Resets
  BY DownResets DEF EndOfOutput, HeartbeatLost, KillWorker, StoreFails
<1>2. Shutdown => Resets
  BY DEF Shutdown, Resets, rows
<1>3. Restart \/ Ensure => Rests
  BY DEF Restart, Ensure, Spawn, Rests, rows
<1>4. UNCHANGED vars => Rests
  BY DEF vars, Rests, supervisor, rows, worker
<1>5. ASSUME NEW r \in Run, Acknowledge(r) PROVE Rests
  <2>1. \A q \in Run : terminals'[q] \in {terminals[q], "none"}
    BY <1>5 DEF Acknowledge, TypeOK
  <2> QED BY <1>5, <2>1 DEF Acknowledge, Rests, rows, worker
<1> QED BY <1>1, <1>2, <1>3, <1>4, <1>5

LEMMA AnswerReplies ==
    ASSUME TypeOK, NEW r \in Run, Answer(r)
    PROVE  \E k \in {"asking", "consulting"} : Replied(r, k)
<1>1. PICK k \in {"asking", "consulting"}, answer \in {"yes", "no"} :
        /\ <<r, k>> \in asking /\ asking' = asking \ {<<r, k>>}
        /\ consents' = IF k = "asking" /\ answer = "yes" THEN consents \cup {r} ELSE consents
        /\ IF Alive THEN Write(Order("reply", r, k, answer)) ELSE UNCHANGED toWorker
        /\ UNCHANGED <<sup, restarts, claimed, active, known, terminals, calls, tasks, audit,
                       toHost, worker, bounds>>
  BY DEF Answer
<1>2. <<r, k>> \notin calls
  BY DEF TypeOK
<1> QED BY <1>1, <1>2 DEF Replied, Write

LEMMA CallEndsReplies ==
    ASSUME TypeOK, NEW r \in Run, NEW k \in {"model", "tool", "finalizing"}, CallEnds(r, k)
    PROVE  Replied(r, k)
<1>1. PICK answer \in {"yes", "no"} :
        IF Alive THEN Write(Order("reply", r, k, answer)) ELSE UNCHANGED toWorker
  BY DEF CallEnds
<1>2. <<r, k>> \in calls /\ <<r, k>> \notin asking /\ k # "asking"
  BY DEF TypeOK, CallEnds
<1>3. calls' = calls \ {<<r, k>>} /\ UNCHANGED <<supervisor, rows, toHost, worker>>
  BY DEF CallEnds
<1> QED BY <1>1, <1>2, <1>3 DEF Replied, Write, supervisor, rows

\* Every step is of the worker, or one of these.
LEMMA NextKinds ==
    ASSUME TypeOK, [Next]_vars
    PROVE  \/ WorkerStep \/ HandleLine
           \/ (Resets /\ UNCHANGED <<claimed>>)
           \/ Rests
           \/ \E r \in Run : Submit(r) \/ CancelRun(r)
           \/ \E r \in Run, k \in {"asking", "consulting", "model", "tool", "finalizing"} :
                 Replied(r, k)
<1>1. CASE \E r \in Run : Submit(r) \/ CancelRun(r) \/ Answer(r) \/ Acknowledge(r)
  BY <1>1, AnswerReplies, ProcessKinds
<1>2. CASE \E r \in Run, k \in {"model", "tool", "finalizing"} : CallEnds(r, k)
  BY <1>2, CallEndsReplies
<1>3. CASE EndOfOutput \/ HeartbeatLost \/ Shutdown \/ KillWorker \/ StoreFails
  BY <1>3, ProcessKinds DEF Resets
<1>4. CASE Restart \/ Ensure \/ UNCHANGED vars
  BY <1>4, ProcessKinds
<1>5. CASE WorkerStep \/ HandleLine
  BY <1>5
<1> QED BY <1>1, <1>2, <1>3, <1>4, <1>5 DEF Next, WorkerStep

-----------------------------------------------------------------------------
(* The supervisor's life, and the form of the lines.                         *)

LEMMA SupervisedStays == ASSUME TypeOK, KnownOfPipes, Supervised, [Next]_vars PROVE Supervised'
<1> USE DEF Supervised
<1>1. ASSUME sup = "serving", Down PROVE Supervised'
  <2>1. /\ restarts' = restarts + 1 /\ active' = {}
        /\ sup' = IF restarts < MaxRestarts THEN "waiting" ELSE "ended"
    BY <1>1 DEF Down
  <2>2. restarts \in 0 .. MaxRestarts + 1
    BY DEF TypeOK
  <2> QED BY <2>1, <2>2, BoundsAreNumbers
<1>2. CASE EndOfOutput \/ HeartbeatLost \/ KillWorker \/ StoreFails
  BY <1>1, <1>2 DEF EndOfOutput, HeartbeatLost, KillWorker, StoreFails
<1>3. CASE Shutdown
  BY <1>3 DEF Shutdown
<1>4. CASE Restart
  BY <1>4 DEF Restart, Spawn
<1>5. CASE Ensure
  BY <1>5, BoundsAreNumbers DEF Ensure, Spawn
<1>6. CASE WorkerStep
  <2>1. UNCHANGED supervisor
    BY <1>6, WorkerStepKind DEF Listens, Says, WorkerOnly
  <2> QED BY <2>1 DEF supervisor
<1>7. CASE HandleLine
  <2>1. UNCHANGED <<sup, restarts>> /\ sup = "serving"
    BY <1>7 DEF HandleLine, Handles, Prepared, Proposed, Ends, Asks, Runs, Records, Serves
  <2> QED BY <2>1
<1>8. CASE \E r \in Run : Submit(r) \/ CancelRun(r) \/ Answer(r) \/ Acknowledge(r)
  BY <1>8 DEF Submit, CancelRun, Answer, Acknowledge, supervisor
<1>9. CASE UNCHANGED vars \/ \E r \in Run, k \in {"model", "tool", "finalizing"} : CallEnds(r, k)
  BY <1>9 DEF vars, CallEnds, supervisor
<1> QED BY <1>2, <1>3, <1>4, <1>5, <1>6, <1>7, <1>8, <1>9 DEF Next, WorkerStep

\* The pipe to the worker after a line is written.
LEMMA ElementsWritten ==
    ASSUME TypeOK, NEW x \in Orders, toWorker' = Append(toWorker, x)
    PROVE  \A m \in Elements(toWorker') : m \in Elements(toWorker) \/ m = x
<1>1. toWorker \in Seq(Orders) /\ x \in Orders
  BY PipeTypes
<1>2. Elements(Append(toWorker, x)) = Elements(toWorker) \cup {x}
  BY <1>1, ElementsOfAppend
<1> QED BY <1>2

LEMMA LinesFitStays == ASSUME KnownOfPipes, [Next]_vars PROVE LinesFit'
<1>1. /\ TypeOK /\ toHost \in Seq(Lines) /\ toWorker \in Seq(Orders)
      /\ \A m \in Elements(toHost) : LineFits(m)
      /\ \A m \in Elements(toWorker) : OrderFits(m)
  BY PipeTypes DEF KnownOfPipes, LinesFit
<1> SUFFICES /\ \A m \in Elements(toHost') : LineFits(m)
             /\ \A m \in Elements(toWorker') : OrderFits(m)
  BY DEF LinesFit, LineFits, OrderFits
<1>2. toHost # <<>> => Elements(Tail(toHost)) \subseteq Elements(toHost)
  BY <1>1, ElementsOfTail
<1>3. toWorker # <<>> => Elements(Tail(toWorker)) \subseteq Elements(toWorker)
  BY <1>1, ElementsOfTail
<1>4. ASSUME NEW type \in {"start", "cancel", "reply"}, NEW r \in Run,
             NEW arg \in Waits \cup {""}, NEW answer \in {"", "yes", "no"},
             type = "reply" => arg \in Waits,
             toWorker' = Append(toWorker, Order(type, r, arg, answer))
      PROVE  \A m \in Elements(toWorker') : OrderFits(m)
  <2>1. OrderFits(Order(type, r, arg, answer))
    BY <1>4 DEF OrderFits, Order
  <2>2. Order(type, r, arg, answer) \in Orders
    BY <1>1, WriteKeepsPipe
  <2>3. \A m \in Elements(toWorker') :
            m \in Elements(toWorker) \/ m = Order(type, r, arg, answer)
    BY <1>1, <1>4, <2>2, ElementsWritten
  <2> QED BY <1>1, <2>1, <2>3
<1>5. CASE WorkerStep
  <2>1. ASSUME WorkerOnly PROVE \A m \in Elements(toWorker') : OrderFits(m)
    BY <1>1, <1>3, <2>1 DEF WorkerOnly, Takes
  <2>2. CASE Listens
    BY <1>1, <2>1, <2>2 DEF Listens
  <2>3. ASSUME NEW r \in Run, Says(r) PROVE \A m \in Elements(toHost') : LineFits(m)
    <3>1. PICK s \in Pc, lines \in Seq(Lines) : Go(r, s, lines) /\ MaySay(r, s, lines)
      BY <2>3 DEF Says
    <3>2. toHost' = toHost \o lines /\ \A m \in Elements(lines) : LineFits(m)
      BY <3>1 DEF Go, Tell, MaySay
    <3>3. Elements(toHost \o lines) = Elements(toHost) \cup Elements(lines)
      BY <1>1, MoreLines
    <3> QED BY <1>1, <3>2, <3>3
  <2> QED BY <1>5, <2>1, <2>2, <2>3, WorkerStepKind DEF Says
<1>6. CASE HandleLine
  <2> DEFINE m == Head(toHost)
  <2>1. toHost # <<>> /\ toHost' = Tail(toHost) /\ m.run \in Run /\ LineFits(m)
    BY <1>1, <1>6, HeadOfLines DEF HandleLine, KnownOfPipes
  <2>2. CASE m.type = "record" /\ Records(m.run, m.arg)
    <3>1. m.arg \in Waits /\ toWorker' = Append(toWorker, Order("reply", m.run, m.arg, "yes"))
      BY <2>1, <2>2 DEF LineFits, Waits, Records, Write
    <3> QED BY <1>1, <1>2, <1>4, <2>1, <3>1
  <2>3. CASE UNCHANGED toWorker
    BY <1>1, <1>2, <2>1, <2>3
  <2> QED BY <1>6, <2>2, <2>3 DEF HandleLine, Handles, Prepared, Proposed, Ends, Asks, Runs
<1>7. CASE Resets
  BY <1>7, ElementsOfOne DEF Resets
<1>8. CASE Rests
  BY <1>1, <1>8 DEF Rests
<1>9. ASSUME NEW r \in Run, Submit(r) \/ CancelRun(r)
      PROVE  (\A m \in Elements(toHost') : LineFits(m)) /\ (\A m \in Elements(toWorker') : OrderFits(m))
  <2>1. toHost' = toHost /\
          \/ UNCHANGED toWorker
          \/ \E type \in {"start", "cancel"} : toWorker' = Append(toWorker, Order(type, r, "", ""))
    BY <1>9 DEF Submit, CancelRun, Write
  <2> QED BY <1>1, <1>4, <2>1
<1>10. ASSUME NEW r \in Run, NEW k \in {"asking", "consulting", "model", "tool", "finalizing"},
              Replied(r, k)
       PROVE  (\A m \in Elements(toHost') : LineFits(m)) /\ (\A m \in Elements(toWorker') : OrderFits(m))
  <2>1. k \in Waits
    BY DEF Waits
  <2> QED BY <1>1, <1>4, <1>10, <2>1 DEF Replied
<1> QED BY <1>1, <1>5, <1>6, <1>7, <1>8, <1>9, <1>10, NextKinds
-----------------------------------------------------------------------------
(* A run waits for one reply at a time.                                      *)

\* What is in a pipe after a line is written or taken, for one kind of lines.
LEMMA PipesOfRun ==
    ASSUME TypeOK, NEW r \in Run, NEW types
    PROVE  /\ toHost # <<>> =>
                 /\ Positions(toHost, r, types) = {} => Positions(Tail(toHost), r, types) = {}
                 /\ AtMostOne(Positions(toHost, r, types)) =>
                       AtMostOne(Positions(Tail(toHost), r, types))
                 /\ Head(toHost).run = r /\ Head(toHost).type \in types =>
                       /\ Positions(toHost, r, types) # {}
                       /\ AtMostOne(Positions(toHost, r, types)) =>
                             Positions(Tail(toHost), r, types) = {}
           /\ toWorker # <<>> =>
                 /\ Positions(toWorker, r, types) = {} => Positions(Tail(toWorker), r, types) = {}
                 /\ AtMostOne(Positions(toWorker, r, types)) =>
                       AtMostOne(Positions(Tail(toWorker), r, types))
                 /\ Head(toWorker).run = r /\ Head(toWorker).type \in types =>
                       /\ Positions(toWorker, r, types) # {}
                       /\ AtMostOne(Positions(toWorker, r, types)) =>
                             Positions(Tail(toWorker), r, types) = {}
<1>1. ASSUME NEW X, NEW s \in Seq(X), s # <<>>
      PROVE  /\ Positions(s, r, types) = {} => Positions(Tail(s), r, types) = {}
             /\ AtMostOne(Positions(s, r, types)) => AtMostOne(Positions(Tail(s), r, types))
             /\ Head(s).run = r /\ Head(s).type \in types =>
                   /\ Positions(s, r, types) # {}
                   /\ AtMostOne(Positions(s, r, types)) => Positions(Tail(s), r, types) = {}
  BY <1>1, TailHasFewer, PositionsOfTail
<1>2. toHost \in Seq(Lines) /\ toWorker \in Seq(Orders)
  BY PipeTypes
<1> QED BY <1>1, <1>2

\* What is written of another kind, or of another run, does not count.
LEMMA WrittenToWorker ==
    ASSUME TypeOK, NEW r \in Run, NEW types, NEW x \in Orders, toWorker' = Append(toWorker, x)
    PROVE  /\ x.run # r \/ x.type \notin types =>
                 Positions(toWorker', r, types) = Positions(toWorker, r, types)
           /\ Positions(toWorker, r, types) = {} => AtMostOne(Positions(toWorker', r, types))
<1>1. toWorker \in Seq(Orders) /\ x \in Orders
  BY PipeTypes
<1>2. Positions(Append(toWorker, x), r, types) =
          Positions(toWorker, r, types) \cup
          (IF x.run = r /\ x.type \in types THEN {Len(toWorker) + 1} ELSE {})
  BY <1>1, PositionsOfAppend
<1>3. Positions(toWorker', r, types) = Positions(Append(toWorker, x), r, types)
  OBVIOUS
<1> QED BY <1>2, <1>3 DEF AtMostOne

LEMMA FreeIsEmpty ==
    ASSUME TypeOK, NEW r \in Run, OneAtATime(r), Free(r), toWorker' = toWorker \/ Takes
    PROVE  /\ Requests(r) = {} /\ Open(r) = {}
           /\ Positions(toWorker', r, {"reply"}) = {}
<1>1. CASE pc[r] \in Idle
  <2>1. Requests(r) = {} /\ Replies(r) = {} /\ Open(r) = {}
    BY <1>1 DEF OneAtATime
  <2>2. Takes => Positions(Tail(toWorker), r, {"reply"}) = {}
    BY <2>1, PipesOfRun DEF Takes, Replies
  <2> QED BY <2>1, <2>2 DEF Takes, Replies
<1>2. CASE TakesOf(r, "reply")
  <2>1. Replies(r) # {} /\ AtMostOne(Replies(r))
    BY <1>2, PipesOfRun DEF TakesOf, Takes, Replies, OneAtATime, Single
  <2>2. Positions(Tail(toWorker), r, {"reply"}) = {}
    BY <1>2, <2>1, PipesOfRun DEF TakesOf, Takes, Replies
  <2> QED BY <1>2, <2>1, <2>2 DEF OneAtATime, Single, TakesOf, Takes
<1> QED BY <1>1, <1>2 DEF Free

\* No more of anything than before.
LEMMA FewerIsFine ==
    ASSUME NEW r \in Run, OneAtATime(r),
           Requests(r) = {} => Requests(r)' = {},
           AtMostOne(Requests(r)) => AtMostOne(Requests(r)'),
           Replies(r) = {} => Replies(r)' = {},
           AtMostOne(Replies(r)) => AtMostOne(Replies(r)'),
           Open(r)' \subseteq Open(r),
           pc'[r] \in Idle => pc[r] \in Idle
    PROVE  OneAtATime(r)'
<1>1. /\ AtMostOne(Requests(r)') /\ AtMostOne(Replies(r)') /\ AtMostOne(Open(r)')
      /\ Requests(r)' # {} => Replies(r)' = {} /\ Open(r)' = {}
      /\ Replies(r)' # {} => Open(r)' = {}
  BY DEF OneAtATime, Single, AtMostOne
<1>2. pc'[r] \in Idle => Requests(r)' = {} /\ Replies(r)' = {} /\ Open(r)' = {}
  BY DEF OneAtATime
<1> QED BY <1>1, <1>2 DEF OneAtATime, Single, AtMostOne

\* The pipe to the host and the rest of the supervisor stand still.
LEMMA OwnSetsOfRun ==
    ASSUME NEW r \in Run
    PROVE  /\ toHost' = toHost => Requests(r)' = Requests(r)
           /\ toHost' = Tail(toHost) => Requests(r)' = Positions(Tail(toHost), r, RequestTypes)
           /\ toWorker' = toWorker => Replies(r)' = Replies(r)
           /\ Replies(r)' = Positions(toWorker', r, {"reply"})
           /\ UNCHANGED <<calls, asking>> => Open(r)' = Open(r)
  BY DEF Requests, Replies, Open

LEMMA WorkerKeepsOne ==
    ASSUME KnownOfPipes, NEW r \in Run, OneAtATime(r), WorkerStep
    PROVE  OneAtATime(r)'
<1>1. TypeOK /\ toHost \in Seq(Lines) /\ toWorker \in Seq(Orders) /\ pc \in [Run -> Pc]
  BY PipeTypes DEF KnownOfPipes, TypeOK
<1>2. ASSUME WorkerOnly
      PROVE  /\ Replies(r) = {} => Replies(r)' = {}
             /\ AtMostOne(Replies(r)) => AtMostOne(Replies(r)')
             /\ Open(r)' = Open(r)
             /\ toWorker' = toWorker \/ Takes
  <2>1. UNCHANGED <<calls, asking>> /\ (toWorker' = toWorker \/ Takes)
    BY <1>2 DEF WorkerOnly, supervisor
  <2>2. CASE toWorker' = toWorker
    BY <2>1, <2>2, OwnSetsOfRun
  <2>3. CASE Takes
    <3>1. Replies(r)' = Positions(Tail(toWorker), r, {"reply"}) /\ toWorker # <<>>
      BY <2>3, OwnSetsOfRun DEF Takes
    <3> QED BY <1>1, <2>1, <3>1, OwnSetsOfRun, PipesOfRun DEF Replies
  <2> QED BY <2>1, <2>2, <2>3
<1>3. CASE Listens
  <2>1. Requests(r)' = Requests(r)
    BY <1>3, OwnSetsOfRun DEF Listens
  <2>2. pc'[r] \in Idle => pc[r] \in Idle
    BY <1>3 DEF Listens, Idle
  <2> QED BY <1>2, <1>3, <2>1, <2>2, FewerIsFine DEF Listens
<1>4. ASSUME NEW q \in Run, Says(q) PROVE OneAtATime(r)'
  <2>1. PICK s \in Pc, lines \in Seq(Lines) : Go(q, s, lines) /\ MaySay(q, s, lines)
    BY <1>4 DEF Says
  <2>2. /\ toHost' = toHost \o lines /\ pc' = [pc EXCEPT ![q] = s]
        /\ \A m \in Elements(lines) : m.run = q
        /\ \/ NoRequest(lines) /\ (s \in Idle => Free(q))
           \/ (\E m \in Lines : lines = <<m>>) /\ s \notin Idle /\ Free(q)
    BY <2>1 DEF Go, Tell, MaySay
  <2>3. ASSUME Positions(lines, r, RequestTypes) = {} PROVE Requests(r)' = Requests(r)
    <3>1. Requests(r)' = Positions(toHost \o lines, r, RequestTypes)
      BY <2>2 DEF Requests
    <3>2. Positions(toHost \o lines, r, RequestTypes) \subseteq Positions(toHost, r, RequestTypes)
      BY <1>1, <2>3, PositionsOfConcat
    <3>3. Positions(toHost, r, RequestTypes) \subseteq Positions(toHost \o lines, r, RequestTypes)
      BY <1>1, PositionsOfConcat
    <3> QED BY <3>1, <3>2, <3>3 DEF Requests
  <2>4. WorkerOnly
    BY <1>4 DEF Says
  <2>5. CASE q # r
    <3>1. Positions(lines, r, RequestTypes) = {}
      BY <2>2, <2>5 DEF Positions, Elements
    <3>2. pc'[r] = pc[r]
      BY <1>1, <2>2, <2>5
    <3> QED BY <1>2, <2>3, <2>4, <3>1, <3>2, FewerIsFine
  <2>6. CASE q = r /\ NoRequest(lines) /\ (s \in Idle => Free(q))
    <3>1. Positions(lines, r, RequestTypes) = {}
      BY <2>6 DEF Positions, Elements, NoRequest
    <3>2. pc'[r] = s
      BY <1>1, <2>2, <2>6
    <3>3. CASE s \notin Idle
      BY <1>2, <2>3, <2>4, <3>1, <3>2, <3>3, FewerIsFine
    <3>4. CASE s \in Idle
      <4>1. Requests(r) = {} /\ Open(r) = {} /\ Positions(toWorker', r, {"reply"}) = {}
        BY <1>1, <1>2, <2>4, <2>6, <3>4, FreeIsEmpty
      <4>2. Requests(r)' = {} /\ Replies(r)' = {} /\ Open(r)' = {}
        BY <1>2, <2>3, <2>4, <3>1, <4>1, OwnSetsOfRun
      <4> QED BY <4>2 DEF OneAtATime, Single, AtMostOne
    <3> QED BY <3>3, <3>4
  <2>7. CASE q = r /\ (\E m \in Lines : lines = <<m>>) /\ s \notin Idle /\ Free(q)
    <3>1. Requests(r) = {} /\ Open(r) = {} /\ Positions(toWorker', r, {"reply"}) = {}
      BY <1>1, <1>2, <2>4, <2>7, FreeIsEmpty
    <3>2. Replies(r)' = {} /\ Open(r)' = {}
      BY <1>2, <2>4, <3>1, OwnSetsOfRun
    <3>3. AtMostOne(Requests(r)')
      <4>1. Requests(r)' = Positions(toHost \o lines, r, RequestTypes)
        BY <2>2 DEF Requests
      <4>2. \A i \in Positions(lines, r, RequestTypes) : i = 1
        BY <2>7 DEF Positions
      <4>3. \A i \in Requests(r)' :
              i \in Nat /\ Len(toHost) \in Nat /\ i - Len(toHost) = 1
        BY <1>1, <3>1, <4>1, <4>2, PositionsOfConcat DEF Requests
      <4> QED BY <4>3 DEF AtMostOne
    <3>4. pc'[r] \notin Idle
      BY <1>1, <2>2, <2>7
    <3> QED BY <3>2, <3>3, <3>4 DEF OneAtATime, Single, AtMostOne
  <2> QED BY <2>2, <2>5, <2>6, <2>7
<1> QED BY <1>3, <1>4, WorkerStepKind

LEMMA RepliedKeepsOne ==
    ASSUME TypeOK, NEW r \in Run, OneAtATime(r), NEW q \in Run,
           NEW k \in {"asking", "consulting", "model", "tool", "finalizing"}, Replied(q, k)
    PROVE  OneAtATime(r)'
<1>1. k \in Waits /\ toHost' = toHost /\ pc' = pc
  BY DEF Replied, Waits, worker
<1>2. Requests(r)' = Requests(r) /\ Open(r)' = Open(r) \ {<<q, k>>}
  BY <1>1, OwnSetsOfRun DEF Open, Replied
<1>3. CASE toWorker' = toWorker
  <2>1. Replies(r)' = Replies(r)
    BY <1>3, OwnSetsOfRun
  <2> QED BY <1>1, <1>2, <2>1, FewerIsFine
<1>4. CASE \E answer \in {"yes", "no"} : toWorker' = Append(toWorker, Order("reply", q, k, answer))
  <2>1. PICK answer \in {"yes", "no"} : toWorker' = Append(toWorker, Order("reply", q, k, answer))
    BY <1>4
  <2>2. Order("reply", q, k, answer) \in Orders
    BY <1>1, WriteKeepsPipe
  <2>3. Order("reply", q, k, answer).run = q
    BY DEF Order
  <2>4. Replies(r)' = Positions(toWorker', r, {"reply"})
    BY OwnSetsOfRun
  <2>5. CASE q # r
    <3>1. Replies(r)' = Replies(r)
      BY <2>1, <2>2, <2>3, <2>4, <2>5, WrittenToWorker DEF Replies
    <3> QED BY <1>1, <1>2, <3>1, FewerIsFine
  <2>6. CASE q = r
    <3>1. <<q, k>> \in Open(r)
      BY <2>6 DEF Open, Replied
    <3>2. Requests(r) = {} /\ Replies(r) = {} /\ pc[r] \notin Idle /\ Open(r) = {<<q, k>>}
      BY <3>1 DEF OneAtATime, Single, AtMostOne
    <3>3. Requests(r)' = {} /\ Open(r)' = {} /\ pc'[r] \notin Idle
      BY <1>1, <1>2, <3>2
    <3>4. AtMostOne(Replies(r)')
      BY <2>1, <2>2, <2>4, <3>2, WrittenToWorker DEF Replies
    <3> QED BY <3>3, <3>4 DEF OneAtATime, Single, AtMostOne
  <2> QED BY <2>5, <2>6
<1> QED BY <1>3, <1>4 DEF Replied

LEMMA HandleLineKeepsOne ==
    ASSUME TypeOK, LinesFit, NEW r \in Run, OneAtATime(r), HandleLine
    PROVE  OneAtATime(r)'
<1> DEFINE m == Head(toHost)
           rest == Positions(Tail(toHost), r, RequestTypes)
<1>1. /\ toHost # <<>> /\ toHost' = Tail(toHost) /\ m.run \in Run /\ LineFits(m)
      /\ Handles(m) /\ Requests(r)' = rest
  BY HeadOfLines, OwnSetsOfRun DEF HandleLine
<1>2. pc' = pc
  BY <1>1 DEF Handles, Prepared, Proposed, Ends, Asks, Runs, Records, Serves, worker
<1>3. /\ Requests(r) = {} => rest = {}
      /\ AtMostOne(Requests(r)) => AtMostOne(rest)
      /\ m.run = r /\ m.type \in RequestTypes => Requests(r) # {} /\ (AtMostOne(Requests(r)) => rest = {})
  BY <1>1, PipesOfRun DEF Requests
\* A line of r that asks for a reply was all there was of r.
<1>4. ASSUME m.run = r, m.type \in RequestTypes
      PROVE  Replies(r) = {} /\ Open(r) = {} /\ rest = {} /\ pc'[r] \notin Idle
  BY <1>2, <1>3, <1>4 DEF OneAtATime, Single
<1>5. CASE \/ m.type = "prepared" /\ Prepared(m.run)
           \/ m.type = "finalized" /\ Proposed(m.run)
           \/ m.type \in {"result", "error"} /\ Ends(m.run, m.type)
  <2>1. toWorker' = toWorker /\ calls' = calls /\ asking' \subseteq asking
    BY <1>5 DEF Prepared, Proposed, Ends, Serves
  <2>2. Replies(r)' = Replies(r) /\ Open(r)' \subseteq Open(r)
    BY <2>1, OwnSetsOfRun DEF Open
  <2> QED BY <1>1, <1>2, <1>3, <2>2, FewerIsFine
<1>6. CASE \/ m.type = "ask" /\ Asks(m.run, m.arg)
           \/ m.type \in {"invoke", "provider"} /\ Runs(m.run, m.arg)
  <2>1. /\ toWorker' = toWorker /\ m.type \in RequestTypes
        /\ calls' \cup asking' = calls \cup asking \cup {<<m.run, m.arg>>}
    BY <1>6 DEF Asks, Runs, Serves, RequestTypes
  <2>2. Replies(r)' = Replies(r)
    BY <2>1, OwnSetsOfRun
  <2>3. CASE m.run # r
    <3>1. Open(r)' = Open(r)
      BY <2>1, <2>3 DEF Open
    <3> QED BY <1>1, <1>2, <1>3, <2>2, <3>1, FewerIsFine
  <2>4. CASE m.run = r
    <3>1. \A x \in Open(r)' : x \in Open(r) \/ x = <<m.run, m.arg>>
      BY <2>1 DEF Open
    <3>2. AtMostOne(Open(r)') /\ Replies(r)' = {} /\ Requests(r)' = {} /\ pc'[r] \notin Idle
      BY <1>1, <1>4, <2>1, <2>2, <2>4, <3>1 DEF AtMostOne
    <3> QED BY <3>2 DEF OneAtATime, Single, AtMostOne
  <2> QED BY <2>3, <2>4
<1>7. CASE m.type = "record" /\ Records(m.run, m.arg)
  <2> DEFINE x == Order("reply", m.run, m.arg, "yes")
  <2>1. /\ toWorker' = Append(toWorker, x) /\ m.type \in RequestTypes
        /\ UNCHANGED <<calls, asking>>
    BY <1>7 DEF Records, Serves, Write, RequestTypes
  <2>2. x \in Orders /\ x.run = m.run
    <3>1. m.arg \in Waits
      BY <1>1, <1>7 DEF LineFits, Waits
    <3> QED BY <1>1, <3>1, WriteKeepsPipe DEF Order
  <2>3. Replies(r)' = Positions(toWorker', r, {"reply"}) /\ Open(r)' = Open(r)
    BY <2>1, OwnSetsOfRun
  <2>4. CASE m.run # r
    <3>1. Replies(r)' = Replies(r)
      BY <2>1, <2>2, <2>3, <2>4, WrittenToWorker DEF Replies
    <3> QED BY <1>1, <1>2, <1>3, <2>3, <3>1, FewerIsFine
  <2>5. CASE m.run = r
    <3>1. Replies(r) = {} /\ Open(r)' = {} /\ Requests(r)' = {} /\ pc'[r] \notin Idle
      BY <1>1, <1>4, <2>1, <2>3, <2>5
    <3>2. AtMostOne(Replies(r)')
      BY <2>1, <2>2, <2>3, <3>1, WrittenToWorker DEF Replies
    <3> QED BY <3>1, <3>2 DEF OneAtATime, Single, AtMostOne
  <2> QED BY <2>4, <2>5
<1> QED BY <1>1, <1>5, <1>6, <1>7 DEF Handles

LEMMA NextKeepsOne ==
    ASSUME KnownOfPipes, NEW r \in Run, OneAtATime(r), [Next]_vars
    PROVE  OneAtATime(r)'
<1>1. TypeOK /\ LinesFit
  BY DEF KnownOfPipes
<1>2. CASE Resets
  <2>1. Requests(r)' = {} /\ Replies(r)' = {} /\ Open(r)' = {}
    <3>1. DOMAIN <<>> = {}
      BY SMT
    <3> QED BY <1>2, <3>1 DEF Resets, Requests, Replies, Open, Positions
  <2> QED BY <2>1 DEF OneAtATime, Single, AtMostOne
<1>3. CASE Rests
  <2>1. Requests(r)' = Requests(r) /\ Replies(r)' = Replies(r) /\ Open(r)' = Open(r)
    BY <1>3, OwnSetsOfRun DEF Rests
  <2> QED BY <1>3, <2>1, FewerIsFine DEF Rests
<1>4. ASSUME NEW q \in Run, Submit(q) \/ CancelRun(q) PROVE OneAtATime(r)'
  <2>1. UNCHANGED <<toHost, pc, calls, asking>> /\
          \/ UNCHANGED toWorker
          \/ \E type \in {"start", "cancel"} : toWorker' = Append(toWorker, Order(type, q, "", ""))
    BY <1>4 DEF Submit, CancelRun, Write, worker, supervisor
  <2>2. ASSUME NEW type \in {"start", "cancel"}, toWorker' = Append(toWorker, Order(type, q, "", ""))
        PROVE  Replies(r)' = Replies(r)
    <3>1. Order(type, q, "", "") \in Orders
      BY <1>1, WriteKeepsPipe
    <3>2. Order(type, q, "", "").type \notin {"reply"}
      BY DEF Order
    <3> QED BY <1>1, <2>2, <3>1, <3>2, WrittenToWorker, OwnSetsOfRun DEF Replies
  <2>3. Replies(r)' = Replies(r)
    BY <2>1, <2>2, OwnSetsOfRun
  <2> QED BY <2>1, <2>3, OwnSetsOfRun, FewerIsFine
<1> QED BY <1>1, <1>2, <1>3, <1>4, NextKinds, WorkerKeepsOne, HandleLineKeepsOne, RepliedKeepsOne
-----------------------------------------------------------------------------
(* What the lines say of audit row and consent is true.                      *)

Truths == LinesAreTrue /\ RepliesAreTrue /\ OpenAreTrue

LEMMA RunsOfLines ==
    ASSUME TypeOK
    PROVE  /\ \A m \in Elements(toHost) : m.run \in Run
           /\ \A m \in Elements(toWorker) : m.run \in Run
<1>1. ASSUME NEW X, NEW s \in Seq(X) PROVE Elements(s) \subseteq X
  BY LenProperties, ElementOfSeq DEF Elements
<1>2. Elements(toHost) \subseteq Lines /\ Elements(toWorker) \subseteq Orders
  BY <1>1, PipeTypes
<1> QED BY <1>2 DEF Lines, Orders

LEMMA TruthLasts ==
    ASSUME NEW r \in Run, audit'[r] = audit[r], consents \subseteq consents'
    PROVE  (Recorded(r) => Recorded(r)') /\ (Consented(r) => Consented(r)')
  BY DEF Recorded, Consented

\* Nothing is added but what is true, and the row of a run stays.
LEMMA TruthsOfFewer ==
    ASSUME TypeOK, Truths, audit' = audit, consents \subseteq consents',
           Elements(toHost') \subseteq Elements(toHost),
           Elements(toWorker') \subseteq Elements(toWorker),
           calls' \cup asking' \subseteq calls \cup asking
    PROVE  Truths'
<1>1. /\ \A m \in Elements(toHost) : m.run \in Run
      /\ \A m \in Elements(toWorker) : m.run \in Run
  BY RunsOfLines
<1>2. \A r \in Run : (Recorded(r) => Recorded(r)') /\ (Consented(r) => Consented(r)')
  BY TruthLasts
<1>3. LinesAreTrue'
  BY <1>1, <1>2 DEF Truths, LinesAreTrue
<1>4. RepliesAreTrue'
  BY <1>1, <1>2 DEF Truths, RepliesAreTrue
<1>5. OpenAreTrue'
  BY <1>2 DEF Truths, OpenAreTrue, Open
<1> QED BY <1>3, <1>4, <1>5 DEF Truths

LEMMA WorkerKeepsTruths == ASSUME KnownOfPipes, Truths, WorkerStep PROVE Truths'
<1>1. /\ TypeOK /\ toHost \in Seq(Lines) /\ toWorker \in Seq(Orders)
  BY PipeTypes DEF KnownOfPipes
<1>2. ASSUME WorkerOnly
      PROVE  /\ UNCHANGED <<audit, consents, calls, asking>>
             /\ Elements(toWorker') \subseteq Elements(toWorker)
  <2>1. UNCHANGED <<audit, consents, calls, asking>>
    BY <1>2 DEF WorkerOnly, supervisor, rows
  <2>2. Takes => Elements(Tail(toWorker)) \subseteq Elements(toWorker)
    BY <1>1, ElementsOfTail DEF Takes
  <2> QED BY <1>2, <2>1, <2>2 DEF WorkerOnly, Takes
<1>3. CASE Listens
  BY <1>1, <1>2, <1>3, TruthsOfFewer DEF Listens
<1>4. ASSUME NEW r \in Run, Says(r) PROVE Truths'
  <2>1. PICK s \in Pc, lines \in Seq(Lines) : Go(r, s, lines) /\ MaySay(r, s, lines)
    BY <1>4 DEF Says
  <2>2. /\ toHost' = toHost \o lines
        /\ \A m \in Elements(lines) : m.run = r
        /\ \A m \in Elements(lines) :
              m.type \in {"ask", "invoke"} /\ m.arg # "finalizing" =>
                  Recorded(r) /\ (m.arg = "tool" => Consented(r))
    BY <2>1 DEF Go, Tell, MaySay
  <2>3. Elements(toHost \o lines) = Elements(toHost) \cup Elements(lines)
    BY <1>1, MoreLines
  <2>4. UNCHANGED <<audit, consents, calls, asking>> /\ Elements(toWorker') \subseteq Elements(toWorker)
    BY <1>2, <1>4 DEF Says
  <2>5. \A m \in Elements(toHost \o lines) :
            m.type \in {"ask", "invoke"} /\ m.arg # "finalizing" =>
                Recorded(m.run) /\ (m.arg = "tool" => Consented(m.run))
    BY <2>2, <2>3 DEF Truths, LinesAreTrue
  <2>6. LinesAreTrue'
    BY <2>2, <2>4, <2>5 DEF LinesAreTrue, Recorded, Consented
  <2>7. RepliesAreTrue'
    BY <2>4 DEF Truths, RepliesAreTrue, Recorded
  <2>8. OpenAreTrue'
    BY <2>4 DEF Truths, OpenAreTrue, Open, Recorded, Consented
  <2> QED BY <2>6, <2>7, <2>8 DEF Truths
<1> QED BY <1>3, <1>4, WorkerStepKind

LEMMA RepliedKeepsTruths ==
    ASSUME TypeOK, Truths, NEW q \in Run,
           NEW k \in {"asking", "consulting", "model", "tool", "finalizing"}, Replied(q, k)
    PROVE  Truths'
<1>1. /\ audit' = audit /\ consents \subseteq consents' /\ toHost' = toHost /\ k \in Waits
      /\ calls' \cup asking' \subseteq calls \cup asking
  BY DEF Replied, Waits
<1>2. CASE toWorker' = toWorker
  BY <1>1, <1>2, TruthsOfFewer
<1>3. ASSUME NEW answer \in {"yes", "no"}, toWorker' = Append(toWorker, Order("reply", q, k, answer)),
             k = "asking" /\ answer = "yes" => q \in consents'
      PROVE  Truths'
  <2> DEFINE x == Order("reply", q, k, answer)
  <2>1. /\ x \in Orders /\ x.run = q /\ x.arg = k /\ x.answer = answer /\ x.type = "reply"
    BY <1>1, WriteKeepsPipe DEF Order
  <2>2. \A m \in Elements(toWorker') : m \in Elements(toWorker) \/ m = x
    BY <1>3, <2>1, ElementsWritten
  <2>3. \A r \in Run : (Recorded(r) => Recorded(r)') /\ (Consented(r) => Consented(r)')
    BY <1>1, TruthLasts
  <2>4. /\ \A m \in Elements(toHost) : m.run \in Run
        /\ \A m \in Elements(toWorker) : m.run \in Run
    BY RunsOfLines
  <2>5. LinesAreTrue'
    BY <1>1, <2>3, <2>4 DEF Truths, LinesAreTrue
  <2>6. OpenAreTrue'
    BY <1>1, <2>3 DEF Truths, OpenAreTrue, Open
  <2>7. k \in {"asking", "consulting", "tool"} => Recorded(q)'
    <3>1. <<q, k>> \in Open(q) /\ <<q, k>>[2] = k
      BY DEF Open, Replied
    <3> QED BY <2>3, <3>1 DEF Truths, OpenAreTrue
  <2>8. RepliesAreTrue'
    <3> SUFFICES ASSUME NEW m \in Elements(toWorker'), m.type = "reply",
                        m.arg \in {"opened", "asking", "consulting", "tool"}
                 PROVE  /\ Recorded(m.run)'
                        /\ m.arg = "asking" /\ m.answer = "yes" => m.run \in consents'
      BY DEF RepliesAreTrue
    <3>1. CASE m \in Elements(toWorker)
      BY <1>1, <2>3, <2>4, <3>1 DEF Truths, RepliesAreTrue
    <3>2. CASE m = x
      <4> HIDE DEF x
      <4>1. m.arg = k /\ m.answer = answer /\ m.run = q /\ k # "opened"
        BY <2>1, <3>2
      <4> QED BY <1>3, <2>7, <4>1
    <3> QED BY <2>2, <3>1, <3>2
  <2> QED BY <2>5, <2>6, <2>8 DEF Truths
<1> QED BY <1>2, <1>3 DEF Replied

LEMMA HandleLineKeepsTruths ==
    ASSUME TypeOK, LinesFit, Truths, \A r \in Run : OneAtATime(r), HandleLine
    PROVE  Truths'
<1> DEFINE m == Head(toHost)
<1>1. /\ toHost # <<>> /\ toHost' = Tail(toHost) /\ m.run \in Run /\ LineFits(m)
      /\ Handles(m) /\ toHost \in Seq(Lines) /\ m \in Elements(toHost)
  BY HeadOfLines, PipeTypes DEF HandleLine
<1>2. Elements(toHost') \subseteq Elements(toHost)
  BY <1>1, ElementsOfTail
<1>3. CASE \/ m.type = "prepared" /\ Prepared(m.run)
           \/ m.type = "finalized" /\ Proposed(m.run)
           \/ m.type \in {"result", "error"} /\ Ends(m.run, m.type)
  <2>1. UNCHANGED <<audit, consents, calls, toWorker>> /\ asking' \subseteq asking
    BY <1>3 DEF Prepared, Proposed, Ends, rows
  <2> QED BY <1>2, <2>1, TruthsOfFewer
<1>4. CASE \/ m.type = "ask" /\ Asks(m.run, m.arg)
           \/ m.type \in {"invoke", "provider"} /\ Runs(m.run, m.arg)
  <2>1. /\ UNCHANGED <<audit, consents, toWorker>>
        /\ calls' \cup asking' = calls \cup asking \cup {<<m.run, m.arg>>}
    BY <1>4 DEF Asks, Runs, rows
  <2>2. m.arg \in {"asking", "consulting", "tool"} =>
            Recorded(m.run) /\ (m.arg = "tool" => Consented(m.run))
    BY <1>1, <1>4 DEF Truths, LinesAreTrue, LineFits
  <2>3. LinesAreTrue'
    BY <1>2, <2>1 DEF Truths, LinesAreTrue, Recorded, Consented
  <2>4. RepliesAreTrue'
    BY <2>1 DEF Truths, RepliesAreTrue, Recorded
  <2>5. OpenAreTrue'
    <3> HIDE DEF m
    <3> SUFFICES ASSUME NEW r \in Run, NEW q \in Open(r)', q[2] \in {"asking", "consulting", "tool"}
                 PROVE  Recorded(r)' /\ (q[2] = "tool" => Consented(r)')
      BY DEF OpenAreTrue
    <3>1. (Recorded(r) => Recorded(r)') /\ (Consented(r) => Consented(r)')
      BY <2>1, TruthLasts
    <3>2. q \in Open(r) \/ (q = <<m.run, m.arg>> /\ r = m.run)
      BY <2>1 DEF Open
    <3> QED BY <2>2, <3>1, <3>2 DEF Truths, OpenAreTrue
  <2> QED BY <2>3, <2>4, <2>5 DEF Truths
<1>5. CASE m.type = "record" /\ Records(m.run, m.arg)
  <2>p. PICK p \in Run : p = m.run
    BY <1>1
  <2> DEFINE x == Order("reply", p, m.arg, "yes")
  <2>1. /\ toWorker' = Append(toWorker, x) /\ UNCHANGED <<calls, asking, consents>>
        /\ audit' = [audit EXCEPT ![p] = IF m.arg = "opened" THEN "running" ELSE "settled"]
        /\ m.arg \in {"opened", "closed"}
    BY <1>1, <1>5, <2>p DEF Records, Write, LineFits
  <2>2. x \in Orders /\ x.run = p /\ x.arg = m.arg /\ x.type = "reply"
    <3>1. m.arg \in Waits
      BY <2>1 DEF Waits
    <3> QED BY <1>1, <3>1, WriteKeepsPipe DEF Order
  \* The row was all there was of its run.
  <2>3. Requests(p)' = {} /\ Replies(p) = {} /\ Open(p) = {}
    <3>1. Requests(p) # {} /\ (AtMostOne(Requests(p)) => Requests(p)' = {})
      <4>1. m.type \in RequestTypes
        BY <1>5 DEF RequestTypes
      <4>2. Requests(p)' = Positions(Tail(toHost), p, RequestTypes)
        BY <1>1, OwnSetsOfRun
      <4> QED BY <1>1, <2>p, <4>1, <4>2, PipesOfRun DEF Requests
    <3> QED BY <1>1, <3>1 DEF OneAtATime, Single
  <2>4. \A r \in Run : r # p => (Recorded(r) => Recorded(r)') /\ (Consented(r) => Consented(r)')
    BY <2>1 DEF Recorded, Consented, TypeOK
  <2>5. /\ \A n \in Elements(toHost') : n.run \in Run
        /\ \A n \in Elements(toWorker) : n.run \in Run
    BY <1>2, RunsOfLines
  <2>6. LinesAreTrue'
    <3> SUFFICES ASSUME NEW n \in Elements(toHost'), n.type \in {"ask", "invoke"},
                        n.arg # "finalizing"
                 PROVE  Recorded(n.run)' /\ (n.arg = "tool" => Consented(n.run)')
      BY DEF LinesAreTrue
    <3>1. n.run # p
      <4>1. Positions(toHost', p, RequestTypes) = {}
        BY <2>3 DEF Requests
      <4>2. PICK i \in DOMAIN toHost' : n = toHost'[i]
        BY DEF Elements
      <4> QED BY <4>1, <4>2 DEF Positions, RequestTypes
    <3> QED BY <1>2, <2>4, <2>5, <3>1 DEF Truths, LinesAreTrue
  <2>7. OpenAreTrue'
    <3> SUFFICES ASSUME NEW r \in Run, NEW q \in Open(r)', q[2] \in {"asking", "consulting", "tool"}
                 PROVE  Recorded(r)' /\ (q[2] = "tool" => Consented(r)')
      BY DEF OpenAreTrue
    <3>1. q \in Open(r)
      BY <2>1 DEF Open
    <3>2. r # p
      BY <2>3, <3>1
    <3> QED BY <2>4, <3>1, <3>2 DEF Truths, OpenAreTrue
  <2>8. RepliesAreTrue'
    <3> SUFFICES ASSUME NEW n \in Elements(toWorker'), n.type = "reply",
                        n.arg \in {"opened", "asking", "consulting", "tool"}
                 PROVE  /\ Recorded(n.run)'
                        /\ n.arg = "asking" /\ n.answer = "yes" => n.run \in consents'
      BY DEF RepliesAreTrue
    <3>1. n \in Elements(toWorker) \/ n = x
      BY <2>1, <2>2, ElementsWritten
    <3>2. CASE n \in Elements(toWorker)
      <4>1. n.run # p
        BY <2>3, <3>2 DEF Replies, Positions, Elements
      <4> QED BY <2>1, <2>4, <2>5, <3>2, <4>1 DEF Truths, RepliesAreTrue
    <3>3. CASE n = x
      <4>1. n.arg = m.arg /\ n.run = p
        BY <2>2, <3>3
      <4>2. n.arg = "opened"
        BY <2>1, <4>1
      <4> QED BY <1>1, <2>1, <4>1, <4>2 DEF Recorded, TypeOK
    <3> QED BY <3>1, <3>2, <3>3
  <2> QED BY <2>6, <2>7, <2>8 DEF Truths
<1> QED BY <1>1, <1>3, <1>4, <1>5 DEF Handles

LEMMA NextKeepsTruths ==
    ASSUME KnownOfPipes, Truths, \A r \in Run : OneAtATime(r), [Next]_vars
    PROVE  Truths'
<1>1. TypeOK /\ LinesFit
  BY DEF KnownOfPipes
<1>2. CASE Resets
  <2>1. /\ Elements(toHost') = {} /\ Elements(toWorker') = {}
        /\ calls' \cup asking' = {} /\ UNCHANGED <<audit, consents>>
    BY <1>2, ElementsOfOne DEF Resets
  <2> QED BY <1>1, <2>1, TruthsOfFewer
<1>3. CASE Rests
  BY <1>1, <1>3, TruthsOfFewer DEF Rests, rows
<1>4. ASSUME NEW q \in Run, Submit(q) \/ CancelRun(q) PROVE Truths'
  <2>1. /\ UNCHANGED <<toHost, calls, asking, audit, consents>>
        /\ \/ UNCHANGED toWorker
           \/ \E type \in {"start", "cancel"} : toWorker' = Append(toWorker, Order(type, q, "", ""))
    BY <1>4 DEF Submit, CancelRun, Write, rows, supervisor
  <2>2. ASSUME NEW type \in {"start", "cancel"}, toWorker' = Append(toWorker, Order(type, q, "", ""))
        PROVE  Truths'
    <3>1. Order(type, q, "", "") \in Orders /\ Order(type, q, "", "").type # "reply"
      BY <1>1, WriteKeepsPipe DEF Order
    <3>2. \A m \in Elements(toWorker') : m \in Elements(toWorker) \/ m.type # "reply"
      BY <1>1, <2>2, <3>1, ElementsWritten
    <3>3. RepliesAreTrue'
      BY <2>1, <3>2 DEF Truths, RepliesAreTrue, Recorded
    <3>4. LinesAreTrue' /\ OpenAreTrue'
      BY <2>1 DEF Truths, LinesAreTrue, OpenAreTrue, Open, Recorded, Consented
    <3> QED BY <3>3, <3>4 DEF Truths
  <2> QED BY <1>1, <2>1, <2>2, TruthsOfFewer
<1> QED BY <1>1, <1>2, <1>3, <1>4, NextKinds, WorkerKeepsTruths, HandleLineKeepsTruths,
           RepliedKeepsTruths
-----------------------------------------------------------------------------
(* A result follows its proposal.                                            *)

Proposals == ProposalPrecedes /\ ResultIsProposed

\* What HandleLine does to the tasks and the last messages.
LEMMA LineOutcome ==
    ASSUME TypeOK, LinesFit, HandleLine
    PROVE  LET m == Head(toHost) IN
           /\ \A r \in Run : tasks[r] = "proposed" => tasks'[r] = "proposed"
           /\ m.type = "finalized" => tasks'[m.run] = "proposed"
           /\ \A r \in Run : terminals'[r] # terminals[r] =>
                 r = m.run /\ terminals'[r] = m.type /\ terminals[r] = "none"
<1> DEFINE m == Head(toHost)
<1>1. m.run \in Run /\ Handles(m) /\ ~Refused(m)
  BY HeadOfLines DEF HandleLine
<1>2. tasks \in [Run -> {"none", "running", "proposed", "interrupted"}]
      /\ terminals \in [Run -> {"none", "result", "error", "lost"}]
  BY DEF TypeOK
<1>3. CASE m.type = "prepared" /\ Prepared(m.run)
  BY <1>1, <1>2, <1>3 DEF Prepared
<1>4. CASE m.type = "finalized" /\ Proposed(m.run)
  BY <1>1, <1>2, <1>4 DEF Proposed
<1>5. CASE m.type \in {"result", "error"} /\ Ends(m.run, m.type)
  BY <1>1, <1>2, <1>5 DEF Ends, Refused, rows
<1>6. CASE m.type = "ask" /\ Asks(m.run, m.arg)
  BY <1>6 DEF Asks, rows
<1>7. CASE m.type \in {"invoke", "provider"} /\ Runs(m.run, m.arg)
  BY <1>7 DEF Runs, rows
<1>8. CASE m.type = "record" /\ Records(m.run, m.arg)
  BY <1>8 DEF Records
<1> QED BY <1>1, <1>3, <1>4, <1>5, <1>6, <1>7, <1>8 DEF Handles

LEMMA ResetOutcome ==
    ASSUME TypeOK, Resets, NEW r \in Run
    PROVE  /\ tasks[r] = "proposed" => tasks'[r] = "proposed"
           /\ terminals[r] # "none" => terminals'[r] = terminals[r]
           /\ terminals'[r] \in {terminals[r], "lost"}
  BY DEF Resets, Interrupted, TypeOK

LEMMA WorkerKeepsProposals == ASSUME KnownOfPipes, Proposals, WorkerStep PROVE Proposals'
<1>1. TypeOK /\ toHost \in Seq(Lines)
  BY PipeTypes DEF KnownOfPipes
<1>2. UNCHANGED <<tasks, terminals>>
  BY WorkerStepKind DEF Listens, Says, WorkerOnly, supervisor, rows
<1>3. ResultIsProposed'
  BY <1>2 DEF Proposals, ResultIsProposed
<1>4. CASE Listens
  <2>1. ProposalPrecedes'
    BY <1>2, <1>4 DEF Proposals, ProposalPrecedes, Listens
  <2> QED BY <1>3, <2>1 DEF Proposals
<1>5. ASSUME NEW r \in Run, Says(r) PROVE ProposalPrecedes'
  <2>1. PICK s \in Pc, lines \in Seq(Lines) : Go(r, s, lines) /\ MaySay(r, s, lines)
    BY <1>5 DEF Says
  <2>2. /\ toHost' = toHost \o lines
        /\ \A m \in Elements(lines) : m.run = r
        /\ \A i \in DOMAIN lines : lines[i].type = "result" /\ r \in Finalized =>
              \E j \in 1 .. i - 1 : lines[j].type = "finalized"
    BY <2>1 DEF Go, Tell, MaySay
  <2>3. /\ Len(toHost) \in Nat /\ Len(lines) \in Nat
        /\ DOMAIN toHost = 1 .. Len(toHost) /\ DOMAIN lines = 1 .. Len(lines)
        /\ DOMAIN toHost' = 1 .. Len(toHost) + Len(lines)
        /\ \A i \in 1 .. Len(toHost) + Len(lines) :
              toHost'[i] = IF i <= Len(toHost) THEN toHost[i] ELSE lines[i - Len(toHost)]
    BY <1>1, <2>2, ConcatProperties, LenProperties
  <2> SUFFICES ASSUME NEW i \in DOMAIN toHost', toHost'[i].type = "result",
                      toHost'[i].run \in Finalized
               PROVE  \/ tasks'[toHost'[i].run] = "proposed"
                      \/ \E j \in 1 .. i - 1 : /\ toHost'[j].type = "finalized"
                                               /\ toHost'[j].run = toHost'[i].run
    BY DEF ProposalPrecedes
  <2>4. CASE i <= Len(toHost)
    <3>1. i \in DOMAIN toHost /\ toHost'[i] = toHost[i]
      BY <2>3, <2>4
    <3>2. CASE tasks[toHost[i].run] = "proposed"
      BY <1>2, <3>1, <3>2
    <3>3. ASSUME NEW j \in 1 .. i - 1, toHost[j].type = "finalized", toHost[j].run = toHost[i].run
          PROVE  toHost'[j].type = "finalized" /\ toHost'[j].run = toHost'[i].run
      <4>1. toHost'[j] = toHost[j]
        BY <2>3, <2>4, <3>1
      <4> QED BY <3>1, <3>3, <4>1
    <3> QED BY <3>1, <3>2, <3>3 DEF Proposals, ProposalPrecedes
  <2>5. CASE ~(i <= Len(toHost))
    <3> DEFINE k == i - Len(toHost)
    <3>1. k \in DOMAIN lines /\ toHost'[i] = lines[k]
      BY <2>3, <2>5
    <3>2. lines[k].run = r
      BY <2>2, <3>1 DEF Elements
    <3>3. PICK j \in 1 .. k - 1 : lines[j].type = "finalized"
      BY <2>2, <3>1, <3>2
    <3>4. j \in DOMAIN lines /\ j + Len(toHost) \in 1 .. i - 1 /\ toHost'[j + Len(toHost)] = lines[j]
      <4>1. /\ i \in 1 .. Len(toHost) + Len(lines) /\ i - Len(toHost) \in 1 .. Len(lines)
            /\ j \in 1 .. (i - Len(toHost)) - 1
        BY <2>3, <3>1
      <4>2. /\ j \in 1 .. Len(lines) /\ j + Len(toHost) \in 1 .. i - 1
            /\ j + Len(toHost) \in 1 .. Len(toHost) + Len(lines)
            /\ ~(j + Len(toHost) <= Len(toHost)) /\ (j + Len(toHost)) - Len(toHost) = j
        BY <2>3, <4>1
      <4>3. toHost'[j + Len(toHost)] = lines[(j + Len(toHost)) - Len(toHost)]
        BY <2>3, <4>2
      <4> QED BY <2>3, <4>2, <4>3
    <3>5. lines[j].run = r
      BY <2>2, <3>4 DEF Elements
    <3> QED BY <3>1, <3>2, <3>3, <3>4, <3>5
  <2> QED BY <2>4, <2>5
<1> QED BY <1>3, <1>4, <1>5, WorkerStepKind DEF Proposals

LEMMA HandleLineKeepsProposals ==
    ASSUME TypeOK, LinesFit, Proposals, HandleLine
    PROVE  Proposals'
<1>1. /\ toHost # <<>> /\ toHost \in Seq(Lines) /\ toHost' = Tail(toHost)
      /\ Head(toHost).run \in Run
  BY HeadOfLines, PipeTypes DEF HandleLine
<1>2. /\ Len(toHost) \in Nat \ {0} /\ DOMAIN toHost = 1 .. Len(toHost)
      /\ DOMAIN toHost' = 1 .. Len(toHost) - 1
      /\ \A i \in 1 .. Len(toHost) - 1 : toHost'[i] = toHost[i + 1]
      /\ Head(toHost) = toHost[1]
  BY <1>1, HeadTailProperties, LenProperties, EmptySeq
<1>3. /\ \A r \in Run : tasks[r] = "proposed" => tasks'[r] = "proposed"
      /\ toHost[1].type = "finalized" => tasks'[toHost[1].run] = "proposed"
      /\ \A r \in Run : terminals'[r] # terminals[r] =>
            r = toHost[1].run /\ terminals'[r] = toHost[1].type /\ terminals[r] = "none"
  BY <1>2, LineOutcome
<1>4. ProposalPrecedes'
  <2> SUFFICES ASSUME NEW i \in DOMAIN toHost', toHost'[i].type = "result",
                      toHost'[i].run \in Finalized
               PROVE  \/ tasks'[toHost'[i].run] = "proposed"
                      \/ \E j \in 1 .. i - 1 : /\ toHost'[j].type = "finalized"
                                               /\ toHost'[j].run = toHost'[i].run
    BY DEF ProposalPrecedes
  <2>1. i + 1 \in DOMAIN toHost /\ toHost'[i] = toHost[i + 1] /\ toHost'[i].run \in Run
    BY <1>2
  <2>2. CASE tasks[toHost'[i].run] = "proposed"
    BY <1>3, <2>1, <2>2
  <2>3. ASSUME NEW j \in 1 .. (i + 1) - 1, toHost[j].type = "finalized",
               toHost[j].run = toHost'[i].run
        PROVE  \/ tasks'[toHost'[i].run] = "proposed"
               \/ \E n \in 1 .. i - 1 : /\ toHost'[n].type = "finalized"
                                        /\ toHost'[n].run = toHost'[i].run
    <3>1. CASE j = 1
      BY <1>3, <2>3, <3>1
    <3>2. CASE j # 1
      <4>1. j - 1 \in 1 .. i - 1 /\ toHost'[j - 1] = toHost[j]
        BY <1>2, <2>1, <3>2
      <4> QED BY <2>3, <4>1
    <3> QED BY <3>1, <3>2
  <2> QED BY <2>1, <2>2, <2>3 DEF Proposals, ProposalPrecedes
<1>5. ResultIsProposed'
  <2> SUFFICES ASSUME NEW r \in Finalized, terminals'[r] = "result" PROVE tasks'[r] = "proposed"
    BY DEF ResultIsProposed
  <2>1. CASE terminals[r] = "result"
    BY <1>3, <2>1 DEF Proposals, ResultIsProposed
  <2>2. CASE terminals[r] # "result"
    <3>1. toHost[1].type = "result" /\ toHost[1].run = r /\ 1 \in DOMAIN toHost
      BY <1>2, <1>3, <2>2
    <3>2. tasks[r] = "proposed"
      BY <3>1 DEF Proposals, ProposalPrecedes
    <3> QED BY <1>3, <3>2
  <2> QED BY <2>1, <2>2
<1> QED BY <1>4, <1>5 DEF Proposals

LEMMA NextKeepsProposals ==
    ASSUME KnownOfPipes, Proposals, [Next]_vars
    PROVE  Proposals'
<1>1. TypeOK /\ LinesFit
  BY DEF KnownOfPipes
<1>2. CASE Resets
  <2>1. DOMAIN toHost' = {}
    BY <1>2 DEF Resets
  <2>2. ProposalPrecedes'
    BY <2>1 DEF ProposalPrecedes
  <2>3. ResultIsProposed'
    BY <1>1, <1>2, ResetOutcome DEF Proposals, ResultIsProposed
  <2> QED BY <2>2, <2>3 DEF Proposals
<1>3. CASE Rests
  <2>1. UNCHANGED <<toHost, tasks>> /\ \A r \in Run : terminals'[r] \in {terminals[r], "none"}
    BY <1>3 DEF Rests, rows
  <2> QED BY <2>1 DEF Proposals, ProposalPrecedes, ResultIsProposed
<1>4. CASE UNCHANGED <<toHost, tasks, terminals>>
  BY <1>4 DEF Proposals, ProposalPrecedes, ResultIsProposed
<1>5. CASE \E r \in Run : Submit(r) \/ CancelRun(r)
  <2>1. UNCHANGED <<toHost, tasks, terminals>>
    BY <1>5 DEF Submit, CancelRun, rows, supervisor
  <2> QED BY <1>4, <2>1
<1>6. CASE \E r \in Run, k \in {"asking", "consulting", "model", "tool", "finalizing"} : Replied(r, k)
  BY <1>4, <1>6 DEF Replied
<1> QED BY <1>1, <1>2, <1>3, <1>5, <1>6, NextKinds, WorkerKeepsProposals,
           HandleLineKeepsProposals
-----------------------------------------------------------------------------
(* A run is started once, and an active run is driven.                       *)

Starts(r) == Positions(toWorker, r, {"start"})
Endings(r) == Positions(toHost, r, {"result", "error"})

StartedOnceIn(r) ==
    /\ AtMostOne(Starts(r))
    /\ Starts(r) # {} => pc[r] = "none" /\ r \in claimed
    /\ r \notin claimed => pc[r] = "none"
    /\ <<"prepare", r>> \in Elements(micro) => pc[r] # "none"

Driven(r) == pc[r] \notin {"none", "over"} \/ Endings(r) # {} \/ Starts(r) # {}

LEMMA StartedOnceByRun == StartedOnce <=> \A r \in Run : StartedOnceIn(r)
  BY DEF StartedOnce, StartedOnceIn, Starts

LEMMA ActiveIsDrivenByRun ==
    ActiveIsDriven <=> (sup = "serving" /\ proc = "running" => \A r \in active : Driven(r))
<1>1. ASSUME NEW r
      PROVE  /\ InPipe({"result", "error"}, r) <=> Endings(r) # {}
             /\ (\E i \in DOMAIN toWorker : toWorker[i].type = "start" /\ toWorker[i].run = r)
                    <=> Starts(r) # {}
             /\ InHost(r) \/ pc[r] = "planning" <=> pc[r] \notin {"none", "over"}
  BY DEF InPipe, Endings, Starts, Positions, InHost, InRuntime
<1> QED BY <1>1 DEF ActiveIsDriven, Driven

\* What a step of the worker means for the start of a run.
LEMMA WorkerAndStart ==
    ASSUME KnownOfPipes, NEW r \in Run, WorkerStep
    PROVE  /\ WorkerOnly
           /\ pc[r] = "none" => pc'[r] = "none" \/ TakesOf(r, "start")
           /\ pc[r] # "none" => pc'[r] # "none"
           /\ pc[r] \notin {"none", "over"} => pc'[r] \notin {"none", "over"} \/ Endings(r)' # {}
           /\ Endings(r) # {} => Endings(r)' # {}
<1>1. TypeOK /\ toHost \in Seq(Lines) /\ pc \in [Run -> Pc]
  BY PipeTypes DEF KnownOfPipes, TypeOK
<1>2. CASE Listens
  <2>1. Endings(r)' = Endings(r)
    BY <1>2 DEF Listens, Endings
  <2>2. \/ pc'[r] = pc[r]
        \/ InRuntime(r) /\ pc'[r] = "aborting"
        \/ pc[r] = "none" /\ pc'[r] = "planning" /\ TakesOf(r, "start")
    BY <1>2 DEF Listens
  <2> QED BY <1>2, <2>1, <2>2 DEF Listens, InRuntime
<1>3. ASSUME NEW q \in Run, Says(q)
      PROVE  /\ pc[r] = "none" => pc'[r] = "none" \/ TakesOf(r, "start")
             /\ pc[r] # "none" => pc'[r] # "none"
             /\ pc[r] \notin {"none", "over"} => pc'[r] \notin {"none", "over"} \/ Endings(r)' # {}
             /\ Endings(r) # {} => Endings(r)' # {}
  <2>1. PICK s \in Pc, lines \in Seq(Lines) : Go(q, s, lines) /\ MaySay(q, s, lines)
    BY <1>3 DEF Says
  <2>2. /\ toHost' = toHost \o lines /\ pc' = [pc EXCEPT ![q] = s]
        /\ \A m \in Elements(lines) : m.run = q
        /\ s \in {"none", "over"} => \E m \in Elements(lines) : m.type \in {"result", "error"}
        /\ pc[q] = "none" => s = "none" \/ TakesOf(q, "start")
        /\ s = "none" => pc[q] = "none"
    BY <2>1 DEF Go, Tell, MaySay
  <2>3. Endings(r)' = Positions(toHost \o lines, r, {"result", "error"})
    BY <2>2 DEF Endings
  <2>4. Endings(r) # {} => Endings(r)' # {}
    BY <1>1, <2>3, PositionsOfConcat DEF Endings
  <2>5. CASE q # r
    BY <1>1, <2>2, <2>4, <2>5
  <2>6. CASE q = r
    <3>1. pc'[r] = s
      BY <1>1, <2>2, <2>6
    <3>2. ASSUME s = "over" PROVE Endings(r)' # {}
      <4>1. PICK i \in DOMAIN lines : lines[i].type \in {"result", "error"} /\ lines[i].run = r
        BY <2>2, <2>6, <3>2 DEF Elements
      <4>2. i \in Positions(lines, r, {"result", "error"})
        BY <4>1 DEF Positions
      <4> QED BY <1>1, <2>3, <4>2, PositionsOfConcat
    <3> QED BY <2>2, <2>4, <2>6, <3>1, <3>2
  <2> QED BY <2>5, <2>6
<1> QED BY <1>2, <1>3, WorkerStepKind DEF Says

LEMMA WorkerKeepsStarted ==
    ASSUME KnownOfPipes, NEW r \in Run, WorkerStep
    PROVE  StartedOnceIn(r)' /\ (Driven(r) /\ proc' = "running" => Driven(r)')
<1>1. TypeOK /\ StartedOnceIn(r) /\ toWorker \in Seq(Orders)
  BY PipeTypes, StartedOnceByRun DEF KnownOfPipes
<1>2. /\ WorkerOnly
      /\ pc[r] = "none" => pc'[r] = "none" \/ TakesOf(r, "start")
      /\ pc[r] # "none" => pc'[r] # "none"
      /\ pc[r] \notin {"none", "over"} => pc'[r] \notin {"none", "over"} \/ Endings(r)' # {}
      /\ Endings(r) # {} => Endings(r)' # {}
  BY WorkerAndStart
<1>3. claimed' = claimed /\ (toWorker' = toWorker \/ Takes) /\ Prepares
  BY <1>2 DEF WorkerOnly, supervisor
<1>4. /\ Starts(r) = {} => Starts(r)' = {}
      /\ AtMostOne(Starts(r)')
      /\ TakesOf(r, "start") => Starts(r) # {} /\ Starts(r)' = {}
      /\ Starts(r) # {} /\ Starts(r)' = {} => TakesOf(r, "start")
  <2>1. CASE toWorker' = toWorker
    <3>1. Starts(r)' = Starts(r)
      BY <2>1 DEF Starts
    <3>2. ~Takes
      BY <1>1, <2>1, TailIsShorter DEF Takes
    <3> QED BY <1>1, <3>1, <3>2 DEF StartedOnceIn, TakesOf
  <2>2. CASE Takes
    <3>1. Starts(r)' = Positions(Tail(toWorker), r, {"start"}) /\ toWorker # <<>>
      BY <2>2 DEF Starts, Takes
    <3>2. Head(toWorker).run # r \/ Head(toWorker).type \notin {"start"} =>
              (Positions(Tail(toWorker), r, {"start"}) = {} => Starts(r) = {})
      BY <1>1, <3>1, TailHasFewer DEF Starts
    <3>3. /\ Starts(r) = {} => Starts(r)' = {}
          /\ AtMostOne(Starts(r)')
          /\ TakesOf(r, "start") => Starts(r) # {} /\ Starts(r)' = {}
      BY <1>1, <3>1, PipesOfRun DEF Starts, StartedOnceIn, TakesOf
    <3> QED BY <2>2, <3>1, <3>2, <3>3 DEF TakesOf
  <2> QED BY <1>3, <2>1, <2>2
<1>5. StartedOnceIn(r)'
  <2>1. Starts(r)' # {} => pc'[r] = "none" /\ r \in claimed'
    BY <1>1, <1>2, <1>3, <1>4 DEF StartedOnceIn
  <2>2. r \notin claimed' => pc'[r] = "none"
    BY <1>1, <1>2, <1>3, <1>4 DEF StartedOnceIn
  <2>3. ASSUME <<"prepare", r>> \in Elements(micro') PROVE pc'[r] # "none"
    <3>1. \/ <<"prepare", r>> \in Elements(micro)
          \/ <<"prepare", r>>[1] = "refuse" \/ pc'[<<"prepare", r>>[2]] # "none"
      BY <1>3, <2>3 DEF Prepares
    <3> QED BY <1>1, <1>2, <3>1 DEF StartedOnceIn
  <2> QED BY <1>4, <2>1, <2>2, <2>3 DEF StartedOnceIn
<1>6. ASSUME Driven(r), proc' = "running" PROVE Driven(r)'
  <2>1. TakesOf(r, "start") => pc'[r] \notin {"none", "over"}
    BY <1>2, <1>6 DEF WorkerOnly, StartIsHeard, TakesOf
  <2> QED BY <1>2, <1>4, <1>6, <2>1 DEF Driven
<1> QED BY <1>5, <1>6

\* A step of the supervisor that writes at most one line, and no start.
LEMMA WrittenKeepsStarted ==
    ASSUME TypeOK, NEW r \in Run, StartedOnceIn(r), UNCHANGED <<pc, claimed, micro>>,
           \/ UNCHANGED toWorker
           \/ \E x \in Orders : x.type # "start" /\ toWorker' = Append(toWorker, x)
    PROVE  StartedOnceIn(r)' /\ Starts(r)' = Starts(r)
<1>1. Starts(r)' = Starts(r)
  <2>1. CASE UNCHANGED toWorker
    BY <2>1 DEF Starts
  <2>2. ASSUME NEW x \in Orders, x.type # "start", toWorker' = Append(toWorker, x)
        PROVE  Starts(r)' = Starts(r)
    BY <2>2, WrittenToWorker DEF Starts
  <2> QED BY <2>1, <2>2
<1> QED BY <1>1 DEF StartedOnceIn

LEMMA SubmitKeepsStarted ==
    ASSUME TypeOK, NEW r \in Run, StartedOnceIn(r), NEW q \in Run, Submit(q)
    PROVE  /\ StartedOnceIn(r)'
           /\ r \in active' /\ proc = "running" /\ (r \in active => Driven(r)) => Driven(r)'
<1>1. /\ UNCHANGED <<toHost, pc, micro>> /\ q \notin claimed /\ claimed' = claimed \cup {q}
  BY DEF Submit, worker
<1>2. CASE ~Alive
  <2>1. UNCHANGED <<toWorker, active>>
    BY <1>2 DEF Submit
  <2>2. Starts(r)' = Starts(r) /\ Endings(r)' = Endings(r)
    BY <1>1, <2>1 DEF Starts, Endings
  <2> QED BY <1>1, <1>2, <2>1, <2>2 DEF StartedOnceIn, Driven
<1>3. CASE Alive
  <2> DEFINE x == Order("start", q, "", "")
  <2>1. toWorker' = Append(toWorker, x) /\ active' = active \cup {q}
    BY <1>3 DEF Submit, Write
  <2>2. x \in Orders /\ x.run = q /\ x.type = "start" /\ toWorker \in Seq(Orders)
    BY WriteKeepsPipe, PipeTypes DEF Order
  <2>3. Starts(r)' = Starts(r) \cup (IF q = r THEN {Len(toWorker) + 1} ELSE {})
    <3> HIDE DEF x
    <3>1. Positions(Append(toWorker, x), r, {"start"}) = Positions(toWorker, r, {"start"}) \cup
            (IF x.run = r /\ x.type \in {"start"} THEN {Len(toWorker) + 1} ELSE {})
      BY <2>2, PositionsOfAppend
    <3>2. Starts(r)' = Positions(Append(toWorker, x), r, {"start"})
      BY <2>1 DEF Starts
    <3> QED BY <2>2, <3>1, <3>2 DEF Starts
  <2>4. Endings(r)' = Endings(r)
    BY <1>1 DEF Endings
  <2>5. CASE q = r
    <3>1. Starts(r) = {} /\ pc[r] = "none"
      BY <1>1, <2>5 DEF StartedOnceIn
    <3>2. AtMostOne(Starts(r)') /\ Starts(r)' # {} /\ pc'[r] = "none" /\ r \in claimed'
      BY <1>1, <2>3, <2>5, <3>1 DEF AtMostOne
    <3>3. <<"prepare", r>> \notin Elements(micro')
      BY <1>1, <3>1 DEF StartedOnceIn
    <3> QED BY <3>2, <3>3 DEF StartedOnceIn, Driven
  <2>6. CASE q # r
    <3>1. Starts(r)' = Starts(r) /\ (r \in claimed' <=> r \in claimed)
      BY <1>1, <2>3, <2>6
    <3>2. StartedOnceIn(r)'
      BY <1>1, <3>1 DEF StartedOnceIn
    <3>3. Driven(r)' <=> Driven(r)
      BY <1>1, <2>4, <3>1 DEF Driven
    <3> QED BY <2>1, <2>6, <3>2, <3>3
  <2> QED BY <2>5, <2>6
<1> QED BY <1>2, <1>3

LEMMA HandleLineKeepsStarted ==
    ASSUME TypeOK, LinesFit, NEW r \in Run, StartedOnceIn(r), HandleLine
    PROVE  /\ StartedOnceIn(r)' /\ active' \subseteq active /\ UNCHANGED <<sup, proc>>
           /\ r \in active' /\ Driven(r) => Driven(r)'
<1> DEFINE m == Head(toHost)
<1>1. /\ toHost # <<>> /\ toHost' = Tail(toHost) /\ m.run \in Run /\ LineFits(m) /\ Handles(m)
      /\ toHost \in Seq(Lines)
  BY HeadOfLines, PipeTypes DEF HandleLine
<1>2. UNCHANGED <<sup, proc, pc, claimed, micro>> /\ active' \subseteq active
  BY <1>1 DEF Handles, Prepared, Proposed, Ends, Asks, Runs, Records, Serves, worker
<1>3. \/ UNCHANGED toWorker
      \/ \E x \in Orders : x.type # "start" /\ toWorker' = Append(toWorker, x)
  <2>1. CASE m.type = "record" /\ Records(m.run, m.arg)
    <3>1. m.arg \in Waits /\ toWorker' = Append(toWorker, Order("reply", m.run, m.arg, "yes"))
      BY <1>1, <2>1 DEF LineFits, Waits, Records, Write
    <3>2. /\ Order("reply", m.run, m.arg, "yes") \in Orders
          /\ Order("reply", m.run, m.arg, "yes").type # "start"
      BY <1>1, <3>1, WriteKeepsPipe DEF Order
    <3> QED BY <3>1, <3>2
  <2>2. CASE UNCHANGED toWorker
    BY <2>2
  <2> QED BY <1>1, <2>1, <2>2 DEF Handles, Prepared, Proposed, Ends, Asks, Runs
<1>4. StartedOnceIn(r)' /\ Starts(r)' = Starts(r)
  BY <1>2, <1>3, WrittenKeepsStarted
<1>5. ASSUME r \in active', Endings(r) # {} PROVE Endings(r)' # {}
  <2>1. m.run # r \/ m.type \notin {"result", "error"}
    BY <1>1, <1>5 DEF Handles, Ends
  <2>2. Endings(r)' = Positions(Tail(toHost), r, {"result", "error"})
    BY <1>1 DEF Endings
  <2> QED BY <1>1, <1>5, <2>1, <2>2, TailHasFewer DEF Endings
<1> QED BY <1>2, <1>4, <1>5 DEF Driven

LEMMA NextKeepsStarted ==
    ASSUME KnownOfPipes, Supervised, ActiveIsDriven, [Next]_vars
    PROVE  StartedOnce' /\ ActiveIsDriven'
<1>1. /\ TypeOK /\ LinesFit /\ \A r \in Run : StartedOnceIn(r)
      /\ sup = "serving" /\ proc = "running" => \A r \in active : Driven(r)
      /\ active \subseteq Run /\ active' \subseteq Run
  <2>1. TypeOK'
    BY NextKeepsTypes
  <2> QED BY <2>1, StartedOnceByRun, ActiveIsDrivenByRun DEF KnownOfPipes, TypeOK
<1> SUFFICES /\ \A r \in Run : StartedOnceIn(r)'
             /\ sup' = "serving" /\ proc' = "running" => \A r \in active' : Driven(r)'
  <2>1. (StartedOnce <=> \A r \in Run : StartedOnceIn(r))'
    BY DEF StartedOnce, StartedOnceIn, Starts
  <2>2. (ActiveIsDriven <=> (sup = "serving" /\ proc = "running" => \A r \in active : Driven(r)))'
    BY ActiveIsDrivenByRun, PTL
  <2> QED BY <2>1, <2>2
<1>2. CASE WorkerStep
  <2>1. UNCHANGED supervisor /\ (proc' = "running" => proc = "running")
    BY <1>2, WorkerStepKind DEF Listens, Says, WorkerOnly
  <2> QED BY <1>1, <1>2, <2>1, WorkerKeepsStarted DEF supervisor
<1>3. CASE HandleLine
  BY <1>1, <1>3, HandleLineKeepsStarted
<1>4. CASE Resets
  <2>1. /\ active' = {} /\ claimed' = claimed /\ pc' = [r \in Run |-> "none"]
        /\ Elements(micro') = {} /\ DOMAIN toWorker' = {}
    BY <1>4, ElementsOfOne DEF Resets
  <2>2. \A r \in Run : Starts(r)' = {} /\ pc'[r] = "none"
    BY <2>1 DEF Starts, Positions
  <2> QED BY <2>1, <2>2 DEF StartedOnceIn, AtMostOne
<1>5. CASE Rests
  <2>1. /\ UNCHANGED <<claimed, active, toWorker, toHost, pc, micro>>
        /\ UNCHANGED <<sup, proc>> \/ sup # "serving"
    BY <1>5 DEF Rests
  <2>2. \A r \in Run : StartedOnceIn(r)' /\ (Driven(r)' <=> Driven(r))
    BY <1>1, <2>1 DEF StartedOnceIn, Driven, Starts, Endings
  <2> QED BY <1>1, <2>1, <2>2 DEF Supervised
<1>6. ASSUME NEW q \in Run, Submit(q)
      PROVE  /\ \A r \in Run : StartedOnceIn(r)'
             /\ sup' = "serving" /\ proc' = "running" => \A r \in active' : Driven(r)'
  <2>1. UNCHANGED <<sup, proc>>
    BY <1>6 DEF Submit, worker
  <2> QED BY <1>1, <1>6, <2>1, SubmitKeepsStarted
<1>7. ASSUME UNCHANGED <<sup, proc, active, claimed, pc, micro, toHost>>,
             \/ UNCHANGED toWorker
             \/ \E x \in Orders : x.type # "start" /\ toWorker' = Append(toWorker, x)
      PROVE  /\ \A r \in Run : StartedOnceIn(r)'
             /\ sup' = "serving" /\ proc' = "running" => \A r \in active' : Driven(r)'
  <2>1. \A r \in Run : StartedOnceIn(r)' /\ Starts(r)' = Starts(r) /\ Endings(r)' = Endings(r)
    BY <1>1, <1>7, WrittenKeepsStarted DEF Endings
  <2>2. \A r \in Run : Driven(r)' <=> Driven(r)
    BY <1>7, <2>1 DEF Driven
  <2> QED BY <1>1, <1>7, <2>1, <2>2
<1>8. ASSUME NEW q \in Run, CancelRun(q)
      PROVE  /\ UNCHANGED <<sup, proc, active, claimed, pc, micro, toHost>>
             /\ \E x \in Orders : x.type # "start" /\ toWorker' = Append(toWorker, x)
  <2>1. /\ Order("cancel", q, "", "") \in Orders
        /\ Order("cancel", q, "", "").type # "start"
    BY <1>1, WriteKeepsPipe DEF Order
  <2> QED BY <1>8, <2>1 DEF CancelRun, Write, supervisor, worker
<1>9. ASSUME NEW q \in Run, NEW k \in {"asking", "consulting", "model", "tool", "finalizing"},
             Replied(q, k)
      PROVE  /\ UNCHANGED <<sup, proc, active, claimed, pc, micro, toHost>>
             /\ \/ UNCHANGED toWorker
                \/ \E x \in Orders : x.type # "start" /\ toWorker' = Append(toWorker, x)
  <2>1. \A answer \in {"yes", "no"} : /\ Order("reply", q, k, answer) \in Orders
                                      /\ Order("reply", q, k, answer).type # "start"
    <3>1. k \in Waits
      BY DEF Waits
    <3> QED BY <1>1, <3>1, WriteKeepsPipe DEF Order
  <2> QED BY <1>9, <2>1 DEF Replied, worker
<1> QED BY <1>1, <1>2, <1>3, <1>4, <1>5, <1>6, <1>7, <1>8, <1>9, NextKinds
-----------------------------------------------------------------------------
(* The theorems *)

LEMMA InitHolds == ASSUME Init PROVE IInv
<1>1. \A X : <<>> \in Seq(X)
  BY EmptySeq
<1>2. TypeOK
  <2>1. restarts \in 0 .. MaxRestarts + 1 /\ cancels \in 0 .. MaxCancels /\ faults \in 0 .. MaxFaults
        /\ turn \in [Run -> 0 .. MaxTurns]
    BY BoundsAreNumbers DEF Init
  <2> QED BY <1>1, <2>1 DEF Init, TypeOK, Pc
<1>3. /\ DOMAIN toHost = {} /\ DOMAIN toWorker = {}
      /\ Elements(toHost) = {} /\ Elements(toWorker) = {} /\ Elements(micro) = {}
  BY ElementsOfOne DEF Init
<1>4. \A r \in Run : OneAtATime(r)
  BY <1>3 DEF Init, OneAtATime, Single, AtMostOne, Requests, Replies, Open, Positions
<1>5. Supervised /\ LinesFit
  BY <1>3, BoundsAreNumbers DEF Init, Supervised, LinesFit
<1>6. LinesAreTrue /\ RepliesAreTrue /\ OpenAreTrue
  BY <1>3 DEF Init, LinesAreTrue, RepliesAreTrue, OpenAreTrue, Open
<1>7. ProposalPrecedes /\ ResultIsProposed /\ StartedOnce /\ ActiveIsDriven
  BY <1>3 DEF Init, ProposalPrecedes, ResultIsProposed, StartedOnce, ActiveIsDriven,
              AtMostOne, Positions
<1> QED BY <1>2, <1>4, <1>5, <1>6, <1>7 DEF IInv

LEMMA NextKeepsInvariant == ASSUME IInv, [Next]_vars PROVE IInv'
<1>1. KnownOfPipes /\ Supervised /\ Truths /\ Proposals /\ ActiveIsDriven /\ TypeOK
      /\ \A r \in Run : OneAtATime(r)
  BY DEF IInv, KnownOfPipes, Truths, Proposals
<1>2. TypeOK' /\ Supervised' /\ LinesFit'
  BY <1>1, NextKeepsTypes, SupervisedStays, LinesFitStays
<1>3. \A r \in Run : OneAtATime(r)'
  BY <1>1, NextKeepsOne
<1>4. Truths' /\ Proposals'
  BY <1>1, NextKeepsTruths, NextKeepsProposals
<1>5. StartedOnce' /\ ActiveIsDriven'
  BY <1>1, NextKeepsStarted
<1> QED BY <1>2, <1>3, <1>4, <1>5 DEF IInv, Truths, Proposals

\* What the supervisor, the worker and the lines between them hold true of
\* each other, whatever process ends when and whichever line is lost with it.
THEOREM InductiveInvariant == Spec => []IInv
<1>1. Init => IInv
  BY InitHolds
<1>2. IInv /\ [Next]_vars => IInv'
  BY NextKeepsInvariant
<1> QED BY <1>1, <1>2, PTL DEF Spec

\* The variables have their types: each line in a pipe is one of the protocol,
\* and restart_count does not pass MAX_RESTARTS by more than one.
THEOREM TypeCorrect == Spec => []TypeOK
<1>1. IInv => TypeOK
  BY DEF IInv
<1> QED BY <1>1, InductiveInvariant, PTL

\* Each run of active_run_ids is on its way to the worker, driven there, or
\* its last message is on its way back.
THEOREM ActiveRunsAreDriven == Spec => []ActiveIsDriven
<1>1. IInv => ActiveIsDriven
  BY DEF IInv
<1> QED BY <1>1, InductiveInvariant, PTL

\* The result of a run that proposes changes is kept only once its proposal is
\* stored (orchestration.completed precedes run.result in the pipe).
THEOREM ResultsAreProposed == Spec => []ResultIsProposed
<1>1. IInv => ResultIsProposed
  BY DEF IInv
<1> QED BY <1>1, InductiveInvariant, PTL

\* The supervisor executes a tool only while the row of the call is open and,
\* for a tool that needs it, after the consent of the user.
THEOREM ToolsAreCleared == Spec => []ToolIsCleared
<1>1. ASSUME IInv PROVE ToolIsCleared
  <2> SUFFICES ASSUME NEW r \in Run, <<r, "tool">> \in calls
               PROVE  audit[r] = "running" /\ (r \in Guarded => r \in consents)
    BY DEF ToolIsCleared
  <2>1. <<r, "tool">> \in Open(r) /\ <<r, "tool">>[2] = "tool"
    BY DEF Open
  <2> QED BY <1>1, <2>1 DEF IInv, OpenAreTrue, Recorded, Consented
<1> QED BY <1>1, InductiveInvariant, PTL

\* What a run came to is kept: its last message until the application has
\* acknowledged it, its stored proposal for good
\* (docs/pi-runtime-phase2-decision.md:57).
THEOREM OutcomesAreKept == Spec => OutcomeIsKept
<1> DEFINE Kept(r) ==
      /\ terminals[r] # "none" => terminals'[r] \in {terminals[r], "none"}
      /\ tasks[r] = "proposed" => tasks'[r] = "proposed"
<1>1. ASSUME IInv, [Next]_vars, NEW r \in Run PROVE Kept(r)
  <2>1. TypeOK /\ LinesFit /\ KnownOfPipes
    BY <1>1 DEF IInv, KnownOfPipes
  <2>2. CASE WorkerStep
    BY <2>1, <2>2, WorkerStepKind DEF Listens, Says, WorkerOnly, supervisor, rows
  <2>3. CASE HandleLine
    BY <2>1, <2>3, LineOutcome
  <2>4. CASE Resets
    BY <2>1, <2>4, ResetOutcome DEF Resets
  <2>5. CASE Rests
    BY <2>5 DEF Rests, rows
  <2>6. CASE \E q \in Run : Submit(q) \/ CancelRun(q)
    BY <2>6 DEF Submit, CancelRun, supervisor, rows
  <2>7. CASE \E q \in Run, k \in {"asking", "consulting", "model", "tool", "finalizing"} : Replied(q, k)
    BY <2>7 DEF Replied
  <2> QED BY <1>1, <2>1, <2>2, <2>3, <2>4, <2>5, <2>6, <2>7, NextKinds
<1>2. ASSUME IInv, [Next]_vars
      PROVE  \A r \in Run :
                /\ terminals[r] # "none" => terminals'[r] \in {terminals[r], "none"}
                /\ tasks[r] = "proposed" => tasks'[r] = "proposed"
  BY <1>1, <1>2
<1>3. IInv /\ [Next]_vars =>
        [\A r \in Run :
           /\ terminals[r] # "none" => terminals'[r] \in {terminals[r], "none"}
           /\ tasks[r] = "proposed" => tasks'[r] = "proposed"]_vars
  BY <1>2
<1> QED BY <1>3, InductiveInvariant, PTL DEF Spec, OutcomeIsKept
=============================================================================
