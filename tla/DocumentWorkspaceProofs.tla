---------------------- MODULE DocumentWorkspaceProofs ----------------------
(***************************************************************************)
(* What holds of the open document and its store for any documents, page    *)
(* tree, number of inputs and number of faults.  The argument follows the   *)
(* calls of the service: each caller makes only its own kind of call, and   *)
(* what a call carries, and what was read for it, belongs to the document   *)
(* it names.  So whatever is loaded, refused or overtaken between a call    *)
(* and its answer, a handler that matches the answer with the open document *)
(* by its id alone writes no text into another document.                    *)
(***************************************************************************)
EXTENDS DocumentWorkspace, FiniteSetTheorems, SequenceTheorems, TLAPS

Ops == {"save", "create", "title", "update", "delete", "restore", "purge",
        "get", "patch", "rollback"}

Calls == [at : {"sent", "written", "answered"}, op : Ops, doc : Doc,
          rev : Nat, text : Body, title : Body, ok : BOOLEAN, got : Rows]

Targets == [doc : Doc, rev : Nat]

Subtree == {"delete", "restore", "purge"}

Kinds == {"none", "create", "title", "rename", "move"} \cup Subtree

Acts == [kind : Kinds, doc : Doc \cup {NoDoc}, rev : Nat, title : Body,
         leaving : BOOLEAN, below : SUBSET Doc, todo : Seq(Targets), row : Rows]

Typed ==
    /\ TypeOK
    /\ req \in [Caller -> Calls \cup {NoReq}]
    /\ act \in Acts
    /\ pick \in [{"select", "props"} -> Doc \cup {NoDoc}]
    /\ flushed \in [res : {"clean", "saved", "failed"}, title : Body]
    /\ applied \in [doc : Doc \cup {NoDoc}, rev : Nat, before : Body,
                    known : BOOLEAN]
    /\ inputs \in 0..MaxInputs

\* Each caller makes its own kind of call.
OpsOf(c) ==
    CASE c = "save"   -> {"save"}
      [] c = "select" -> {"get"}
      [] c = "props"  -> {"update"}
      [] c = "patch"  -> {"get", "patch", "rollback"}
      [] OTHER        -> {"create", "title", "update", "delete", "restore",
                          "purge", "get"}

\* An answer that is not there yet is not a success.
CallsAreTheirs ==
    \A c \in Caller : req[c] # NoReq =>
        /\ req[c].op \in OpsOf(c)
        /\ req[c].at # "answered" => ~req[c].ok

\* The call of an action is the one its kind and its next target ask for.
CallFits(q) ==
    /\ q.op \in Subtree =>
          act.kind = q.op /\ act.todo # << >> /\ q.doc = Head(act.todo).doc
    /\ q.op \notin Subtree => act.todo = << >>

ActionIsCurrent ==
    /\ ctl["action"] # "busy" => req["action"] = NoReq
    /\ ctl["action"] = "busy" => req["action"] # NoReq /\ CallFits(req["action"])
    /\ ctl["action"] \in {"flushing", "resumed"} =>
          /\ act.kind # "none"
          /\ act.kind \in Subtree => act.todo # << >>
    /\ act.kind # "none" => act.doc \in Doc
    /\ act.kind \notin Subtree => act.todo = << >>

\* A selection, the dialogue and the journal know their document while they
\* need it.
DocumentsAreKnown ==
    /\ \A c \in {"select", "props"} :
          ctl[c] \in {"flushing", "resumed"} => pick[c] \in Doc
    /\ applied.known => applied.doc \in Doc
    /\ req["patch"] # NoReq /\ req["patch"].op = "patch"
          /\ (req["patch"].at = "written" \/ req["patch"].ok)
       => applied.doc \in Doc

CallInv == Typed /\ CallsAreTheirs /\ ActionIsCurrent /\ DocumentsAreKnown

USE DocAssumption, BoundAssumption

-----------------------------------------------------------------------------
(* Values the handlers write.                                              *)

LEMMA Bodies ==
    /\ \A d \in Doc : Untouched(d) \in Body /\ AgentText(d) \in Body
    /\ \A d \in Doc : Untouched(d).of = d /\ AgentText(d).of = d
    /\ NoText \in Body
BY DEF Untouched, AgentText, Body, NoText

LEMMA RowsAreRows ==
    /\ \A st \in {"absent", "active", "deleted"}, r \in Nat, t, h \in Body :
          Row(st, r, t, h) \in Rows
    /\ \A d \in Doc, st \in {"absent", "active", "deleted"}, r \in Nat :
          RowOf(d, st, r) \in Rows
    /\ NoRow \in Rows
BY Bodies DEF Row, RowOf, Rows, NoRow

LEMMA CallIsCall ==
    ASSUME NEW op \in Ops, NEW d \in Doc, NEW r \in Nat, NEW t \in Body,
           NEW h \in Body
    PROVE  Call(op, d, r, t, h) \in Calls
BY RowsAreRows DEF Call, Calls, NoReq

LEMMA NoReqIsNoCall == NoReq \notin Calls /\ NoReq.at = "none"
BY DEF NoReq, Calls

LEMMA NoActIsAct ==
    /\ NoAct \in Acts
    /\ NoAct.kind = "none" /\ NoAct.todo = << >>
BY Bodies, RowsAreRows, EmptySeq DEF NoAct, Acts, Kinds, Subtree

LEMMA CallInvHolds == Init => CallInv
<1> SUFFICES ASSUME Init PROVE CallInv
  OBVIOUS
<1> USE DEF Init
<1>1. store \in [Doc -> Rows]
  BY RowsAreRows
<1>2. list \in [Doc -> [st : {"absent", "active", "deleted"}, rev : Nat, title : Body]]
  BY <1>1 DEF Entry, Rows
<1>3. TypeOK
  <2>1. cur \in Doc /\ {text, title, base} \subseteq Body /\ rev \in Nat
    BY Bodies, RowsAreRows DEF Rows
  <2>2. ctl \in [Client -> {"idle", "flushing", "resumed", "busy"}]
    OBVIOUS
  <2>3. {dirty, fresh, failed, timer, closed} \subseteq BOOLEAN /\ loading = "no"
    OBVIOUS
  <2> QED BY <1>1, <1>2, <2>1, <2>2, <2>3 DEF TypeOK
<1>4. Typed
  BY <1>3, Bodies, NoActIsAct DEF Typed, NoFlush, NoApplied
<1>5. CallsAreTheirs
  BY DEF CallsAreTheirs
<1>6. ActionIsCurrent
  BY NoActIsAct DEF ActionIsCurrent, Client, Caller
<1>7. DocumentsAreKnown
  BY NoActIsAct DEF DocumentsAreKnown, NoApplied, Client, Caller
<1> QED BY <1>4, <1>5, <1>6, <1>7 DEF CallInv

-----------------------------------------------------------------------------
(* Pieces of the handlers.                                                 *)

LEMMA SaveCallIsCall ==
    ASSUME Typed
    PROVE  /\ SaveCall \in Calls /\ SaveCall # NoReq
           /\ SaveCall.at = "sent" /\ SaveCall.op = "save" /\ SaveCall.doc = cur
           /\ SaveCall.text = text /\ ~SaveCall.ok
<1>1. text \in Body /\ title \in Body /\ cur \in Doc /\ rev \in Nat /\ "save" \in Ops
  BY DEF Typed, TypeOK, Ops
<1>2. Call("save", cur, rev, text, title) \in Calls
  BY <1>1, CallIsCall
<1>3. /\ SaveCall # NoReq
      /\ SaveCall.at = "sent" /\ SaveCall.op = "save" /\ SaveCall.doc = cur
      /\ SaveCall.text = text /\ ~SaveCall.ok
  BY DEF SaveCall, Call, NoReq
<1> QED BY <1>2, <1>3 DEF SaveCall

\* A list that a row of a document is merged into stays a list.
LEMMA MergedIsList ==
    ASSUME Typed, NEW d \in Doc, NEW row \in Rows
    PROVE  Merged(row, d) \in
              [Doc -> [st : {"absent", "active", "deleted"}, rev : Nat, title : Body]]
BY DEF Merged, Typed, TypeOK, Rows, Entry

\* What is awaited while a flush is joined.
Waiting == {"idle", "flushing", "resumed", "busy"}

\* Joining a flush concerns the joining client and the save alone.
LEMMA JoinFlushKeeps ==
    ASSUME CallInv, NEW c \in Client, JoinFlush(c)
    PROVE  /\ ctl' \in [Client -> Waiting]
           /\ ctl'[c] \in {"flushing", "resumed"}
           /\ \A o \in Client : o # c => ctl'[o] = ctl[o]
           /\ req' \in [Caller -> Calls \cup {NoReq}]
           /\ \A o \in Caller : o # "save" => req'[o] = req[o]
           /\ req'["save"] # NoReq =>
                 req'["save"] = req["save"] \/ req'["save"] = SaveCall
           /\ flushed' \in [res : {"clean", "saved", "failed"}, title : Body]
           /\ {timer, fresh, failed, dirty}' \subseteq BOOLEAN
           /\ UNCHANGED <<dirty, cur, text, title, base, rev>>
<1>1. /\ ctl \in [Client -> Waiting] /\ req \in [Caller -> Calls \cup {NoReq}]
      /\ flushed \in [res : {"clean", "saved", "failed"}, title : Body]
      /\ dirty \in BOOLEAN /\ fresh \in BOOLEAN /\ failed \in BOOLEAN
  BY DEF CallInv, Typed, TypeOK, Waiting
<1>2. /\ timer' = FALSE
      /\ UNCHANGED <<dirty, cur, text, title, base, rev>>
  BY DEF JoinFlush, editor
<1>3. CASE /\ ctl' = [ctl EXCEPT ![c] = "flushing"]
           /\ UNCHANGED <<req, fresh, failed, flushed>>
  BY <1>1, <1>2, <1>3 DEF Waiting
<1>4. CASE /\ ctl' = [ctl EXCEPT ![c] = "flushing"]
           /\ req' = [req EXCEPT !["save"] = SaveCall]
           /\ fresh' = TRUE /\ failed' = FALSE
           /\ UNCHANGED flushed
  <2>1. SaveCall \in Calls
    BY SaveCallIsCall DEF CallInv
  <2> QED BY <1>1, <1>2, <1>4, <2>1 DEF Waiting, Caller
<1>5. CASE /\ ctl' = [ctl EXCEPT ![c] = "resumed"]
           /\ flushed' = NoFlush
           /\ UNCHANGED <<req, fresh, failed>>
  <2>1. NoFlush \in [res : {"clean", "saved", "failed"}, title : Body]
    BY Bodies DEF NoFlush
  <2> QED BY <1>1, <1>2, <1>5, <2>1 DEF Waiting
<1> QED BY <1>3, <1>4, <1>5 DEF JoinFlush

-----------------------------------------------------------------------------
(* Types.                                                                  *)

ListType == [Doc -> [st : {"absent", "active", "deleted"}, rev : Nat, title : Body]]

\* A typed call of a caller.
LEMMA RequestIs ==
    ASSUME Typed, NEW c \in Caller, req[c] # NoReq
    PROVE  /\ req[c] \in Calls
           /\ req[c].at \in {"sent", "written", "answered"} /\ req[c].op \in Ops
           /\ req[c].doc \in Doc /\ req[c].rev \in Nat /\ req[c].text \in Body
           /\ req[c].title \in Body /\ req[c].ok \in BOOLEAN /\ req[c].got \in Rows
BY DEF Typed, Calls

LEMMA SomethingIsAsked ==
    ASSUME NEW c, req[c].at # "none"
    PROVE  req[c] # NoReq
BY NoReqIsNoCall

\* Another call, or none, of a caller.
LEMMA RequestChanges ==
    ASSUME Typed, NEW c \in Caller, NEW q \in Calls \cup {NoReq},
           req' = [req EXCEPT ![c] = q]
    PROVE  /\ req' \in [Caller -> Calls \cup {NoReq}]
           /\ req'[c] = q
           /\ \A o \in Caller : o # c => req'[o] = req[o]
BY DEF Typed

LEMMA WrittenIsRow ==
    ASSUME Typed, NEW q \in Calls
    PROVE  Written(q) \in Rows
<1> DEFINE old == store[q.doc]
<1>1. /\ old \in Rows /\ old.rev \in Nat /\ old.rev + 1 \in Nat
      /\ q.doc \in Doc /\ q.text \in Body /\ q.title \in Body /\ q.op \in Ops
  BY DEF Typed, TypeOK, Calls, Rows
<1> HIDE DEF old
<1>2. CASE q.op \in {"save", "create"}
  <2>1. Row("active", old.rev + 1, q.text, q.title) \in Rows
    BY <1>1, RowsAreRows
  <2> QED BY <1>2, <2>1 DEF Written, old
<1>3. CASE q.op = "purge"
  <2>1. RowOf(q.doc, "absent", old.rev + 1) \in Rows
    BY <1>1, RowsAreRows
  <2> QED BY <1>3, <2>1 DEF Written, old
<1>4. CASE q.op = "title"
  <2>1. [old EXCEPT !.rev = @ + 1, !.title = q.title] \in Rows
    BY <1>1 DEF Rows
  <2> QED BY <1>4, <2>1 DEF Written, old
<1>5. CASE q.op = "update"
  <2>1. [old EXCEPT !.rev = @ + 1] \in Rows
    BY <1>1 DEF Rows
  <2> QED BY <1>5, <2>1 DEF Written, old
<1>6. CASE q.op = "delete"
  <2>1. [old EXCEPT !.rev = @ + 1, !.st = "deleted"] \in Rows
    BY <1>1 DEF Rows
  <2> QED BY <1>6, <2>1 DEF Written, old
<1>7. CASE q.op = "restore"
  <2>1. [old EXCEPT !.rev = @ + 1, !.st = "active"] \in Rows
    BY <1>1 DEF Rows
  <2> QED BY <1>7, <2>1 DEF Written, old
<1>8. CASE q.op \in {"get", "patch", "rollback"}
  <2>1. [old EXCEPT !.rev = @ + 1, !.text = q.text] \in Rows
    BY <1>1 DEF Rows
  <2> QED BY <1>8, <2>1 DEF Written, old
<1> QED BY <1>1, <1>2, <1>3, <1>4, <1>5, <1>6, <1>7, <1>8 DEF Ops

LEMMA CommitTyped ==
    ASSUME CallInv, NEW c \in Caller, Commit(c)
    PROVE  Typed'
<1> USE DEF CallInv
<1>1. req[c] # NoReq /\ req[c] \in Calls
  BY SomethingIsAsked, RequestIs DEF Commit
<1>2. CASE Accepts(req[c])
  <2>1. [req[c] EXCEPT !.at = "written"] \in Calls
    BY <1>1 DEF Calls
  <2>2. req' \in [Caller -> Calls \cup {NoReq}]
    BY <1>2, <2>1, RequestChanges DEF Commit
  <2>3. store' \in [Doc -> Rows]
    BY <1>1, <1>2, WrittenIsRow DEF Commit, Typed, TypeOK
  <2>4. applied' \in [doc : Doc \cup {NoDoc}, rev : Nat, before : Body, known : BOOLEAN]
    <3>1. /\ req[c].doc \in Doc /\ req[c].rev + 1 \in Nat
          /\ store[req[c].doc].text \in Body
      BY <1>1 DEF Calls, Typed, TypeOK, Rows
    <3>2. applied \in [doc : Doc \cup {NoDoc}, rev : Nat, before : Body, known : BOOLEAN]
      BY DEF Typed
    <3>3. applied' = IF req[c].op = "patch"
                     THEN [doc |-> req[c].doc, rev |-> req[c].rev + 1,
                           before |-> store[req[c].doc].text, known |-> FALSE]
                     ELSE applied
      BY <1>2 DEF Commit
    <3> QED BY <3>1, <3>2, <3>3
  <2> QED BY <1>2, <2>2, <2>3, <2>4 DEF Commit, Typed, TypeOK, editor, save, bounds
<1>3. CASE ~Accepts(req[c])
  <2>1. [req[c] EXCEPT !.at = "answered"] \in Calls
    BY <1>1 DEF Calls
  <2>2. req' \in [Caller -> Calls \cup {NoReq}]
    BY <1>3, <2>1, RequestChanges DEF Commit
  <2> QED BY <1>3, <2>2 DEF Commit, Typed, TypeOK, editor, save, bounds
<1> QED BY <1>2, <1>3

\* The other steps of the database and the core.
LEMMA DatabaseTyped ==
    /\ \A c \in Caller : CallInv /\ Reread(c) => Typed'
    /\ \A c \in Caller : CallInv /\ Fail(c) => Typed'
    /\ \A d \in Doc : CallInv /\ AgentWrite(d) => Typed'
<1> USE DEF CallInv
<1>1. ASSUME CallInv, NEW c \in Caller, Reread(c) PROVE Typed'
  <2>1. req[c] # NoReq /\ req[c] \in Calls /\ store[req[c].doc] \in Rows
    BY <1>1, SomethingIsAsked, RequestIs DEF Reread, Typed, TypeOK
  <2>2. [req[c] EXCEPT !.at = "answered",
                       !.ok = req[c].op # "get" \/ store[req[c].doc].st = "active",
                       !.got = store[req[c].doc]] \in Calls
    BY <2>1 DEF Calls
  <2>3. req' \in [Caller -> Calls \cup {NoReq}]
    <3>1. req' = [req EXCEPT ![c] = [req[c] EXCEPT !.at = "answered",
                       !.ok = req[c].op # "get" \/ store[req[c].doc].st = "active",
                       !.got = store[req[c].doc]]]
      BY <1>1 DEF Reread, Typed
    <3> QED BY <1>1, <2>2, <3>1, RequestChanges
  <2> QED BY <1>1, <2>3 DEF Reread, Typed, TypeOK, editor, save, bounds
<1>2. ASSUME CallInv, NEW c \in Caller, Fail(c) PROVE Typed'
  <2>1. req[c] # NoReq /\ req[c] \in Calls
    BY <1>2, SomethingIsAsked, RequestIs DEF Fail
  <2>2. [req[c] EXCEPT !.at = "answered", !.ok = FALSE] \in Calls
    BY <2>1 DEF Calls
  <2>3. req' \in [Caller -> Calls \cup {NoReq}]
    <3>1. req' = [req EXCEPT ![c] = [req[c] EXCEPT !.at = "answered", !.ok = FALSE]]
      BY <1>2 DEF Fail, Typed
    <3> QED BY <1>2, <2>2, <3>1, RequestChanges
  <2> QED BY <1>2, <2>3 DEF Fail, Typed, TypeOK, editor, save
<1>3. ASSUME CallInv, NEW d \in Doc, AgentWrite(d) PROVE Typed'
  <2>1. [store[d] EXCEPT !.text = AgentText(d), !.rev = @ + 1] \in Rows
    <3> DEFINE old == store[d]
    <3>1. /\ old \in Rows /\ old.rev \in Nat /\ old.rev + 1 \in Nat
          /\ AgentText(d) \in Body
      BY <1>3, Bodies DEF Typed, TypeOK, Rows
    <3> HIDE DEF old
    <3>2. [old EXCEPT !.text = AgentText(d), !.rev = @ + 1] \in Rows
      BY <3>1 DEF Rows
    <3> QED BY <3>2 DEF old
  <2>2. store' \in [Doc -> Rows]
    <3>1. store' = [store EXCEPT ![d] = [store[d] EXCEPT !.text = AgentText(d), !.rev = @ + 1]]
      BY <1>3 DEF AgentWrite, Typed, TypeOK
    <3> QED BY <1>3, <2>1, <3>1 DEF Typed, TypeOK
  <2> QED BY <1>3, <2>2 DEF AgentWrite, Typed, TypeOK, editor, save
<1> QED BY <1>1, <1>2, <1>3

LEMMA ResetIsTyped ==
    ASSUME NEW r \in Nat, ResetSavedState(r)
    PROVE  rev' \in Nat /\ {dirty, fresh, failed, timer}' \subseteq BOOLEAN
BY DEF ResetSavedState

\* The editor, the autosave and the end of the window.
LEMMA EditTyped ==
    ASSUME CallInv, NEW f, Edit(f)
    PROVE  Typed'
<1>1. inputs < MaxInputs /\ inputs' = inputs + 1 /\ inputs \in 0..MaxInputs
  BY DEF Edit, CallInv, Typed
<1>2. [of |-> cur, n |-> inputs + 1] \in Body /\ inputs' \in 0..MaxInputs
  BY <1>1 DEF CallInv, Typed, TypeOK, Body
<1>3. text' \in Body /\ title' \in Body
  BY <1>2 DEF Edit, CallInv, Typed, TypeOK
<1> QED BY <1>2, <1>3 DEF Edit, CallInv, Typed, TypeOK

LEMMA FlushNowTyped ==
    ASSUME CallInv, FlushNow
    PROVE  Typed'
<1>1. req' \in [Caller -> Calls \cup {NoReq}]
  BY SaveCallIsCall DEF FlushNow, CallInv, Typed, Caller
<1>2. {dirty, fresh, failed, timer}' \subseteq BOOLEAN
  BY DEF FlushNow, CallInv, Typed, TypeOK
<1> QED BY <1>1, <1>2 DEF FlushNow, CallInv, Typed, TypeOK, editor, bounds

LEMMA ResumeIsTyped ==
    ASSUME Typed, NEW r \in {"clean", "saved", "failed"}, NEW h \in Body, Resume(r, h)
    PROVE  /\ ctl' \in [Client -> Waiting]
           /\ flushed' \in [res : {"clean", "saved", "failed"}, title : Body]
BY Bodies DEF Resume, Typed, TypeOK, Waiting, NoFlush

LEMMA SaveTyped ==
    ASSUME CallInv, SaveAnswered
    PROVE  Typed'
<1>1. req["save"] # NoReq /\ "save" \in Caller
  BY SomethingIsAsked DEF SaveAnswered, SaveFailed, SaveConfirmed, SaveOvertaken, Answered,
     Caller
<1>2. /\ req["save"].got \in Rows /\ req["save"].doc \in Doc /\ req["save"].text \in Body
      /\ req["save"].got.rev \in Nat /\ req["save"].got.title \in Body
  BY <1>1, RequestIs DEF CallInv, Rows
<1>3. Merged(req["save"].got, req["save"].doc) \in ListType
  BY <1>2, MergedIsList DEF CallInv, ListType
<1>4. CASE SaveFailed
  <2>1. req' \in [Caller -> Calls \cup {NoReq}]
    BY <1>1, <1>4, RequestChanges DEF SaveFailed, CallInv
  <2>2. /\ ctl' \in [Client -> Waiting]
        /\ flushed' \in [res : {"clean", "saved", "failed"}, title : Body]
    BY <1>4, ResumeIsTyped, Bodies DEF SaveFailed, CallInv
  <2> QED BY <1>4, <2>1, <2>2 DEF SaveFailed, CallInv, Typed, TypeOK, editor, bounds, Waiting
<1>5. CASE SaveConfirmed
  <2>1. req' \in [Caller -> Calls \cup {NoReq}]
    BY <1>1, <1>5, RequestChanges DEF SaveConfirmed, CallInv
  <2>2. /\ ctl' \in [Client -> Waiting]
        /\ flushed' \in [res : {"clean", "saved", "failed"}, title : Body]
    BY <1>2, <1>5, ResumeIsTyped DEF SaveConfirmed, CallInv
  <2>3. TypeOK'
    <3>1. UNCHANGED <<store, cur, text, title, fresh, timer, loading, closed>>
      BY <1>5 DEF SaveConfirmed
    <3>2. list' \in ListType /\ rev' \in Nat /\ base' \in Body
      BY <1>2, <1>3, <1>5 DEF SaveConfirmed
    <3>3. dirty' = FALSE /\ failed' = FALSE
      BY <1>5 DEF SaveConfirmed
    <3> QED BY <2>2, <3>1, <3>2, <3>3
            DEF CallInv, Typed, TypeOK, Waiting, ListType
  <2>4. UNCHANGED <<act, pick, applied, inputs>>
    BY <1>5 DEF SaveConfirmed, bounds
  <2> QED BY <2>1, <2>2, <2>3, <2>4 DEF CallInv, Typed
<1>6. CASE SaveOvertaken
  <2>1. "save" \in Ops /\ cur \in Doc /\ rev' \in Nat /\ text \in Body /\ title \in Body
    BY <1>2, <1>6 DEF SaveOvertaken, CallInv, Typed, TypeOK, Ops
  <2>2. Call("save", cur, rev', text, title) \in Calls
    BY <2>1, CallIsCall
  <2>3. req' \in [Caller -> Calls \cup {NoReq}]
    BY <1>1, <1>6, <2>2 DEF SaveOvertaken, CallInv, Typed
  <2> QED BY <1>2, <1>3, <1>6, <2>1, <2>3
          DEF SaveOvertaken, CallInv, Typed, TypeOK, bounds, ListType
<1> QED BY <1>4, <1>5, <1>6 DEF SaveAnswered


LEMMA CloseTyped ==
    /\ CallInv /\ CloseRequested => Typed'
    /\ CallInv /\ CloseResumed => Typed'
<1> USE DEF CallInv
<1>1. ASSUME CallInv, CloseRequested PROVE Typed'
  <2>1. inputs' \in 0..MaxInputs
    BY <1>1 DEF CloseRequested, Typed
  <2>2. CASE dirty
    <3>1. JoinFlush("close") /\ "close" \in Client
      BY <1>1, <2>2 DEF CloseRequested, Client
    <3>2. /\ ctl' \in [Client -> Waiting] /\ req' \in [Caller -> Calls \cup {NoReq}]
          /\ flushed' \in [res : {"clean", "saved", "failed"}, title : Body]
          /\ {timer, fresh, failed, dirty}' \subseteq BOOLEAN
          /\ UNCHANGED <<cur, text, title, base, rev>>
      BY <1>1, <3>1, JoinFlushKeeps
    <3> QED BY <1>1, <2>1, <2>2, <3>2 DEF CloseRequested, Typed, TypeOK, Waiting
  <2>3. CASE ~dirty
    BY <1>1, <2>1, <2>3 DEF CloseRequested, Typed, TypeOK, editor, save
  <2> QED BY <2>2, <2>3
<1>2. ASSUME CallInv, CloseResumed PROVE Typed'
  <2>1. flushed' \in [res : {"clean", "saved", "failed"}, title : Body]
    BY <1>2, Bodies DEF CloseResumed, Consume, Typed, NoFlush
  <2> QED BY <1>2, <2>1 DEF CloseResumed, Typed, TypeOK, editor, save, bounds
<1> QED BY <1>1, <1>2

\* What another client of the flush does to the types.
LEMMA JoinTyped ==
    ASSUME CallInv, NEW c \in Client, JoinFlush(c),
           UNCHANGED <<store, list, loading, applied, closed>>,
           act' \in Acts, pick' \in [{"select", "props"} -> Doc \cup {NoDoc}],
           inputs' \in 0..MaxInputs
    PROVE  Typed'
<1>1. /\ ctl' \in [Client -> Waiting] /\ req' \in [Caller -> Calls \cup {NoReq}]
      /\ flushed' \in [res : {"clean", "saved", "failed"}, title : Body]
      /\ {timer, fresh, failed, dirty}' \subseteq BOOLEAN
      /\ UNCHANGED <<cur, text, title, base, rev>>
  BY JoinFlushKeeps
<1> QED BY <1>1 DEF CallInv, Typed, TypeOK, Waiting

LEMMA ConsumeTyped ==
    ASSUME Typed, NEW c \in Client, Consume(c)
    PROVE  flushed' \in [res : {"clean", "saved", "failed"}, title : Body]
BY Bodies DEF Consume, Typed, NoFlush

LEMMA SelectTyped ==
    /\ \A d \in Doc : CallInv /\ Select(d) => Typed'
    /\ CallInv /\ SelectResumed => Typed'
<1> USE DEF CallInv
<1>1. ASSUME CallInv, NEW d \in Doc, Select(d) PROVE Typed'
  <2>1. /\ inputs' \in 0..MaxInputs /\ act' \in Acts
        /\ pick' \in [{"select", "props"} -> Doc \cup {NoDoc}]
    BY <1>1 DEF Select, Typed
  <2>2. JoinFlush("select") /\ UNCHANGED <<store, list, loading, applied, closed>>
    BY <1>1 DEF Select
  <2> QED BY <1>1, <2>1, <2>2, JoinTyped DEF Client, Caller
<1>2. ASSUME CallInv, SelectResumed PROVE Typed'
  <2>1. "select" \in Client /\ "select" \in Caller
    BY DEF Client, Caller
  <2>2. flushed' \in [res : {"clean", "saved", "failed"}, title : Body]
    BY <1>2, <2>1, ConsumeTyped DEF SelectResumed
  <2>3. pick["select"] \in Doc /\ pick' \in [{"select", "props"} -> Doc \cup {NoDoc}]
    BY <1>2, <2>1 DEF SelectResumed, Consume, Typed, DocumentsAreKnown
  <2>4. CASE flushed.res = "failed"
    BY <1>2, <2>2, <2>3, <2>4 DEF SelectResumed, Typed, TypeOK, editor, save, bounds
  <2>5. CASE flushed.res # "failed"
    <3>1. Call("get", pick["select"], 0, NoText, NoText) \in Calls
      BY <2>3, Bodies, CallIsCall DEF Ops
    <3>2. req' \in [Caller -> Calls \cup {NoReq}]
      BY <1>2, <2>1, <2>5, <3>1 DEF SelectResumed, Typed
    <3> QED BY <1>2, <2>2, <2>3, <2>5, <3>2
            DEF SelectResumed, Typed, TypeOK, editor, save, bounds
  <2> QED BY <2>4, <2>5
<1> QED BY <1>1, <1>2

LEMMA ShowTyped ==
    ASSUME Typed, NEW d \in Doc, NEW row \in Rows, Show(d, row)
    PROVE  /\ cur' \in Doc /\ {text, title, base}' \subseteq Body /\ rev' \in Nat
           /\ {dirty, fresh, failed, timer}' \subseteq BOOLEAN
           /\ loading' = "no"
BY DEF Show, ResetSavedState, Rows

LEMMA LoadedTyped ==
    ASSUME CallInv, NEW c \in {"select", "action"}, Loaded(c)
    PROVE  Typed'
<1> USE DEF CallInv
<1>1. c \in Caller /\ c \in Client
  BY DEF Caller, Client
<1>2. /\ req[c] # NoReq /\ req[c].doc \in Doc /\ req[c].got \in Rows
  BY <1>1, SomethingIsAsked, RequestIs DEF Loaded, Answered
<1>3. req' \in [Caller -> Calls \cup {NoReq}]
  BY <1>1, RequestChanges DEF Loaded
<1>4. act' \in Acts
  BY NoActIsAct DEF Loaded, Typed
<1>5. Merged(req[c].got, req[c].doc) \in ListType
  BY <1>2, MergedIsList DEF ListType
<1>6. CASE req[c].ok
  <2>1. Show(req[c].doc, req[c].got) /\ list' \in ListType
    BY <1>5, <1>6 DEF Loaded, Typed, TypeOK, ListType
  <2>2. /\ cur' \in Doc /\ {text, title, base}' \subseteq Body /\ rev' \in Nat
        /\ {dirty, fresh, failed, timer}' \subseteq BOOLEAN
        /\ loading' = "no"
    BY <1>2, <2>1, ShowTyped
  <2> QED BY <1>1, <1>3, <1>4, <2>1, <2>2 DEF Loaded, Typed, TypeOK, bounds, ListType
<1>7. CASE ~req[c].ok
  BY <1>1, <1>3, <1>4, <1>7 DEF Loaded, Typed, TypeOK, editor, save, bounds
<1> QED BY <1>6, <1>7

LEMMA BeginTyped ==
    ASSUME CallInv, NEW a \in Acts, NEW needsFlush \in BOOLEAN, Begin(a, needsFlush)
    PROVE  Typed'
<1>1. /\ inputs' \in 0..MaxInputs /\ act' \in Acts
      /\ pick' \in [{"select", "props"} -> Doc \cup {NoDoc}]
  BY DEF Begin, CallInv, Typed
<1>2. UNCHANGED <<store, list, loading, applied, closed>> /\ "action" \in Client
  BY DEF Begin, Client, Caller
<1>3. CASE needsFlush
  BY <1>1, <1>2, <1>3, JoinTyped DEF Begin
<1>4. CASE ~needsFlush
  <2>1. /\ ctl' = [ctl EXCEPT !["action"] = "resumed"] /\ flushed' = NoFlush
        /\ UNCHANGED <<editor, save, req>>
    BY <1>4 DEF Begin
  <2> QED BY <1>1, <1>2, <2>1, Bodies DEF CallInv, Typed, TypeOK, editor, save, NoFlush
<1> QED BY <1>3, <1>4

\* The pages below a page as a sequence: each of them once and nothing else.
LEMMA SetAsSequence ==
    ASSUME NEW S \in SUBSET Doc
    PROVE  /\ SetToSeq(S) \in Seq(S)
           /\ \A e \in S : \E i \in 1..Len(SetToSeq(S)) : SetToSeq(S)[i] = e
<1>1. IsFiniteSet(S)
  BY FS_Subset
<1>2. Cardinality(S) \in Nat /\ ExistsBijection(1..Cardinality(S), S)
  BY <1>1, FS_CardinalityType
<1> DEFINE n == Cardinality(S)
<1> HIDE DEF n
<1>3. n \in Nat /\ ExistsBijection(1..n, S)
  BY <1>2 DEF n
<1>4. PICK f \in [1..n -> S] : IsInjective(f)
  BY <1>3 DEF ExistsBijection, Bijection, Injection
<1>5. SetToSeq(S) \in [1..n -> S] /\ IsInjective(SetToSeq(S))
  BY <1>4 DEF SetToSeq, n
<1> DEFINE s == SetToSeq(S)
<1> HIDE DEF s
<1>6. s \in Injection(1..n, S)
  BY <1>5 DEF s, Injection
<1>7. IsFiniteSet(1..n) /\ Cardinality(1..n) = n
  BY <1>3, FS_Interval
<1>8. s \in Surjection(1..n, S)
  BY <1>1, <1>6, <1>7, FS_Injection DEF n
<1>9. s \in [1..n -> S] /\ \A e \in S : \E i \in 1..n : s[i] = e
  BY <1>8 DEF Surjection
<1>10. s \in Seq(S) /\ Len(s) = n
  BY <1>3, <1>9
<1> QED BY <1>9, <1>10 DEF s

\* The targets of a deletion, a restoration and a purge.
Below(d, S) == [i \in 1..Len(SetToSeq(S)) |-> Target(SetToSeq(S)[i])]

LEMMA TargetsOfSubtree ==
    ASSUME Typed, NEW d \in Doc, NEW S \in SUBSET Doc
    PROVE  /\ Below(d, S) \in Seq(Targets)
           /\ \A i \in 1..Len(Below(d, S)) : Below(d, S)[i].doc \in S
           /\ \A e \in S : \E i \in 1..Len(Below(d, S)) : Below(d, S)[i].doc = e
           /\ Target(d) \in Targets /\ Target(d).doc = d
<1> DEFINE s == SetToSeq(S)
<1>1. /\ s \in Seq(S) /\ Len(s) \in Nat
      /\ \A e \in S : \E i \in 1..Len(s) : s[i] = e
      /\ \A i \in 1..Len(s) : s[i] \in S
  BY SetAsSequence, LenProperties, ElementOfSeq
<1>2. \A e \in Doc : Target(e) \in Targets /\ Target(e).doc = e
  BY DEF Target, Targets, Typed, TypeOK
<1> HIDE DEF s
<1>3. Below(d, S) = [i \in 1..Len(s) |-> Target(s[i])]
  BY DEF Below, s
<1>4. \A i \in 1..Len(s) : Below(d, S)[i] = Target(s[i])
  BY <1>3
<1>5. Below(d, S) \in [1..Len(s) -> Targets]
  BY <1>1, <1>2, <1>3
<1> DEFINE b == Below(d, S)
<1> HIDE DEF b
<1>6. b \in Seq(Targets) /\ Len(b) = Len(s)
  <2>1. b \in [1..Len(s) -> Targets] /\ Len(s) \in Nat
    BY <1>1, <1>5 DEF b
  <2> QED BY <2>1
<1> QED BY <1>1, <1>2, <1>4, <1>6 DEF b

LEMMA AppendedTargets ==
    ASSUME NEW b \in Seq(Targets), NEW t \in Targets
    PROVE  /\ b \o <<t>> \in Seq(Targets) /\ <<t>> \o b \in Seq(Targets)
           /\ Len(b \o <<t>>) = Len(b) + 1
           /\ b \o <<t>> # << >> /\ <<t>> \o b # << >>
           /\ Head(<<t>> \o b) = t
           /\ (b \o <<t>>)[Len(b) + 1] = t
           /\ \A i \in 1..Len(b) : (b \o <<t>>)[i] = b[i]
OBVIOUS

\* How an action begins: it knows its document, and the deletion of a page has
\* the pages listed below it before the page itself.
PlansDeletion(a) ==
    /\ a.todo[Len(a.todo)].doc = a.doc
    /\ \A i \in 1..(Len(a.todo) - 1) : a.todo[i].doc # a.doc
    /\ \A e \in a.below : Parent[e] = a.doc

PlannedBefore(a, e) == \E i \in 1..(Len(a.todo) - 1) : a.todo[i].doc = e

Planned(a) ==
    /\ a \in Acts /\ a.kind # "none" /\ a.doc \in Doc
    /\ a.todo # << >> <=> a.kind \in Subtree
    /\ a.kind = "restore" => Head(a.todo).doc = a.doc
    /\ a.kind = "delete" =>
          PlansDeletion(a) /\ \A e \in a.below : PlannedBefore(a, e)

Begins == \E a \in Acts, needsFlush \in BOOLEAN : Begin(a, needsFlush) /\ Planned(a)

LEMMA SimpleActionsBegin ==
    /\ \A d \in Doc : CallInv /\ Create(d) => Begins
    /\ \A d \in Doc, kind \in {"rename", "move"} : CallInv /\ Update(kind, d) => Begins
    /\ CallInv /\ CommitTitle => Begins
<1>1. ASSUME CallInv, NEW d \in Doc, Create(d) PROVE Begins
  <2> DEFINE a == [NoAct EXCEPT !.kind = "create", !.doc = d]
  <2>1. Planned(a)
    BY NoActIsAct DEF Acts, Kinds, Subtree, Planned
  <2>2. Begin(a, TRUE)
    BY <1>1 DEF Create
  <2> HIDE DEF a
  <2> QED BY <2>1, <2>2 DEF Begins, Planned
<1>2. ASSUME CallInv, NEW d \in Doc, NEW kind \in {"rename", "move"}, Update(kind, d)
      PROVE  Begins
  <2> DEFINE a == [NoAct EXCEPT !.kind = kind, !.doc = d, !.rev = list[d].rev,
                                !.title = [of |-> d, n |-> MaxInputs + 1]]
  <2>1. list[d].rev \in Nat /\ [of |-> d, n |-> MaxInputs + 1] \in Body
    BY <1>2 DEF CallInv, Typed, TypeOK, Body
  <2>2. Planned(a)
    BY <2>1, NoActIsAct DEF Acts, Kinds, Subtree, Planned
  <2>3. Begin(a, d = cur) /\ (d = cur) \in BOOLEAN
    BY <1>2 DEF Update
  <2> HIDE DEF a
  <2> QED BY <2>2, <2>3 DEF Begins, Planned
<1>3. ASSUME CallInv, CommitTitle PROVE Begins
  <2> DEFINE a == [NoAct EXCEPT !.kind = "title", !.doc = cur, !.title = title]
  <2>1. cur \in Doc /\ title \in Body
    BY <1>3 DEF CallInv, Typed, TypeOK
  <2>2. Planned(a)
    BY <2>1, NoActIsAct DEF Acts, Kinds, Subtree, Planned
  <2>3. Begin(a, TRUE)
    BY <1>3 DEF CommitTitle
  <2> HIDE DEF a
  <2> QED BY <2>2, <2>3 DEF Begins, Planned
<1> QED BY <1>1, <1>2, <1>3

LEMMA DeleteBegins ==
    ASSUME CallInv, NEW d \in Doc, Delete(d)
    PROVE  Begins
<1> DEFINE S == ListedChildren(d, "active")
<1> DEFINE leaving == cur = d \/ cur \in S
<1> DEFINE todo == Below(d, S) \o <<Target(d)>>
<1> DEFINE a == [NoAct EXCEPT !.kind = "delete", !.doc = d, !.leaving = leaving,
                              !.below = S, !.todo = todo]
<1>1. Begin(a, leaving)
  BY DEF Delete, Below
<1>2. S \in SUBSET Doc /\ (\A e \in S : Parent[e] = d /\ e # d) /\ leaving \in BOOLEAN
  BY DEF ListedChildren
<1> HIDE DEF S
<1> DEFINE b == Below(d, S)  t == Target(d)
<1>3. /\ b \in Seq(Targets)
      /\ \A i \in 1..Len(b) : b[i].doc \in S
      /\ \A e \in S : \E i \in 1..Len(b) : b[i].doc = e
      /\ t \in Targets /\ t.doc = d
  BY <1>2, TargetsOfSubtree DEF CallInv
<1>4. todo = b \o <<t>>
  OBVIOUS
<1> HIDE DEF leaving, todo, b, t
<1>5. /\ todo \in Seq(Targets) /\ todo # << >>
      /\ Len(todo) = Len(b) + 1 /\ Len(b) \in Nat
      /\ todo[Len(b) + 1] = t
      /\ \A i \in 1..Len(b) : todo[i] = b[i]
  BY <1>3, <1>4, AppendedTargets, LenProperties
<1>6. /\ a \in Acts /\ a.kind = "delete" /\ a.doc = d /\ a.below = S /\ a.todo = todo
  BY <1>2, <1>5, NoActIsAct DEF Acts, Kinds, Subtree
<1> HIDE DEF a
<1>7. Len(todo) - 1 = Len(b) /\ todo[Len(todo)] = t
  BY <1>5
<1>8. PlansDeletion(a)
  BY <1>2, <1>3, <1>5, <1>6, <1>7 DEF PlansDeletion
<1>9. \A e \in a.below : PlannedBefore(a, e)
  BY <1>3, <1>5, <1>6, <1>7 DEF PlannedBefore
<1>10. Planned(a)
  BY <1>5, <1>6, <1>8, <1>9 DEF Planned, Subtree
<1> QED BY <1>1, <1>2, <1>6, <1>10 DEF Begins

LEMMA SubtreeActionsBegin ==
    /\ \A d \in Doc : CallInv /\ Restore(d) => Begins
    /\ \A d \in Doc : CallInv /\ Purge(d) => Begins
<1> SUFFICES ASSUME CallInv, NEW d \in Doc PROVE (Restore(d) => Begins) /\ (Purge(d) => Begins)
  OBVIOUS
<1> DEFINE S == ListedChildren(d, "deleted")  b == Below(d, S)  t == Target(d)
<1>1. S \in SUBSET Doc
  BY DEF ListedChildren
<1>2. b \in Seq(Targets) /\ t \in Targets /\ t.doc = d
  <2> HIDE DEF S
  <2> QED BY <1>1, TargetsOfSubtree DEF CallInv
<1> DEFINE r == [NoAct EXCEPT !.kind = "restore", !.doc = d, !.todo = <<t>> \o b]
           p == [NoAct EXCEPT !.kind = "purge", !.doc = d, !.todo = b \o <<t>>]
<1>3. Restore(d) => Begin(r, FALSE)
  BY DEF Restore, Below
<1>4. Purge(d) => Begin(p, FALSE)
  BY DEF Purge, Below
<1> HIDE DEF b, t, S
<1>5. /\ <<t>> \o b \in Seq(Targets) /\ <<t>> \o b # << >> /\ Head(<<t>> \o b) = t
      /\ b \o <<t>> \in Seq(Targets) /\ b \o <<t>> # << >>
  BY <1>2, AppendedTargets
<1>6. r \in Acts /\ r.kind = "restore" /\ r.doc = d /\ r.todo = <<t>> \o b
  BY <1>5, NoActIsAct DEF Acts, Kinds, Subtree
<1>7. p \in Acts /\ p.kind = "purge" /\ p.doc = d /\ p.todo = b \o <<t>>
  BY <1>5, NoActIsAct DEF Acts, Kinds, Subtree
<1> HIDE DEF r, p
<1>8. Planned(r) /\ Planned(p)
  BY <1>2, <1>5, <1>6, <1>7 DEF Planned, Subtree
<1> QED BY <1>3, <1>4, <1>8 DEF Begins, Planned

\* The first target of an action on a subtree.
LEMMA HeadIsTarget ==
    ASSUME Typed, act.todo # << >>
    PROVE  /\ Head(act.todo) \in Targets /\ Tail(act.todo) \in Seq(Targets)
           /\ Head(act.todo).doc \in Doc /\ Head(act.todo).rev \in Nat
<1>1. act.todo \in Seq(Targets)
  BY DEF Typed, Acts
<1>2. Head(act.todo) \in Targets /\ Tail(act.todo) \in Seq(Targets)
  BY <1>1, HeadTailProperties
<1> QED BY <1>2 DEF Targets

LEMMA RevisionIsNumber ==
    ASSUME Typed, NEW t, t.rev \in Nat
    PROVE  RevisionFor(t) \in Nat
BY DEF RevisionFor, Typed, TypeOK

\* The call an action makes after its flush is the one its kind asks for.
LEMMA FirstCallFits ==
    ASSUME CallInv, ctl["action"] = "resumed"
    PROVE  /\ FirstCall \in Calls /\ FirstCall # NoReq
           /\ FirstCall.at = "sent" /\ ~FirstCall.ok
           /\ FirstCall.op \in OpsOf("action")
           /\ CallFits(FirstCall)
<1> USE DEF CallInv
<1>1. /\ act.kind \in Kinds /\ act.kind # "none" /\ act.doc \in Doc
      /\ act.rev \in Nat /\ act.title \in Body /\ rev \in Nat
      /\ act.todo # << >> <=> act.kind \in Subtree
  BY DEF Typed, TypeOK, Acts, ActionIsCurrent
<1> DEFINE d == act.doc  h == Head(act.todo)
<1>2. RevisionFor(act) \in Nat
  BY <1>1, RevisionIsNumber
<1>3. CASE act.kind = "create"
  <2>1. Untouched(d) \in Body /\ "create" \in Ops
    BY <1>1, Bodies DEF Ops
  <2>2. FirstCall = Call("create", d, 0, Untouched(d), Untouched(d))
    BY <1>3 DEF FirstCall
  <2>3. FirstCall \in Calls
    BY <1>1, <2>1, <2>2, CallIsCall
  <2> QED BY <1>1, <1>3, <2>2, <2>3 DEF Call, NoReq, OpsOf, CallFits, Subtree
<1>4. CASE act.kind = "title"
  <2>1. FirstCall = Call("title", d, rev, NoText, act.title) /\ "title" \in Ops
    BY <1>4 DEF FirstCall, Ops
  <2>2. FirstCall \in Calls
    BY <1>1, <2>1, CallIsCall, Bodies
  <2> QED BY <1>1, <1>4, <2>1, <2>2 DEF Call, NoReq, OpsOf, CallFits, Subtree
<1>5. CASE act.kind = "rename"
  <2>1. FirstCall = Call("title", d, RevisionFor(act), NoText, act.title) /\ "title" \in Ops
    BY <1>5 DEF FirstCall, Ops
  <2>2. FirstCall \in Calls
    BY <1>1, <1>2, <2>1, CallIsCall, Bodies
  <2> QED BY <1>1, <1>5, <2>1, <2>2 DEF Call, NoReq, OpsOf, CallFits, Subtree
<1>6. CASE act.kind = "move"
  <2>1. FirstCall = Call("update", d, RevisionFor(act), NoText, NoText) /\ "update" \in Ops
    BY <1>6 DEF FirstCall, Ops
  <2>2. FirstCall \in Calls
    BY <1>1, <1>2, <2>1, CallIsCall, Bodies
  <2> QED BY <1>1, <1>6, <2>1, <2>2 DEF Call, NoReq, OpsOf, CallFits, Subtree
<1>7. CASE act.kind \in Subtree
  <2>1. h.doc \in Doc /\ h.rev \in Nat /\ act.todo # << >>
    BY <1>1, <1>7, HeadIsTarget
  <2>2. RevisionFor(h) \in Nat
    BY <2>1, RevisionIsNumber
  <2>3. PICK r \in Nat : FirstCall = Call(act.kind, h.doc, r, NoText, NoText)
    BY <1>7, <2>1, <2>2 DEF FirstCall, Subtree
  <2>4. act.kind \in Ops
    BY <1>7 DEF Subtree, Ops
  <2>5. FirstCall \in Calls
    BY <2>1, <2>3, <2>4, CallIsCall, Bodies
  <2> QED BY <1>1, <1>7, <2>1, <2>3, <2>5 DEF Call, NoReq, OpsOf, CallFits, Subtree
<1> QED BY <1>1, <1>3, <1>4, <1>5, <1>6, <1>7 DEF Kinds

LEMMA ActionAsks ==
    ASSUME CallInv, ActionAnswered
    PROVE  /\ req["action"] # NoReq /\ req["action"] \in Calls
           /\ req["action"].doc \in Doc /\ req["action"].got \in Rows
           /\ req["action"].got.rev \in Nat /\ req["action"].got.title \in Body
           /\ Merged(req["action"].got, req["action"].doc) \in ListType
           /\ ctl["action"] = "busy" /\ CallFits(req["action"])
<1>1. req["action"] # NoReq /\ "action" \in Caller
  BY SomethingIsAsked DEF ActionAnswered, Answered, Caller
<1>2. /\ req["action"] \in Calls /\ req["action"].doc \in Doc
      /\ req["action"].got \in Rows
  BY <1>1, RequestIs DEF CallInv
<1>3. req["action"].got.rev \in Nat /\ req["action"].got.title \in Body
  BY <1>2 DEF Rows
<1>4. Merged(req["action"].got, req["action"].doc) \in ListType
  BY <1>2, MergedIsList DEF CallInv, ListType
<1>5. ctl["action"] = "busy" /\ CallFits(req["action"])
  BY <1>1 DEF CallInv, ActionIsCurrent
<1> QED BY <1>1, <1>2, <1>3, <1>4, <1>5

\* An action that ends leaves nothing behind.
LEMMA ActionEndsTyped ==
    ASSUME Typed, EndAct
    PROVE  act' \in Acts /\ ctl' \in [Client -> Waiting] /\ ctl'["action"] = "idle"
           /\ act'.kind = "none" /\ act'.todo = << >>
           /\ \A c \in Client : c # "action" => ctl'[c] = ctl[c]
BY NoActIsAct DEF EndAct, Typed, TypeOK, Waiting, Client, Caller

LEMMA ActionResumedTyped == ASSUME CallInv, ActionResumed PROVE Typed'
<1>1. flushed' \in [res : {"clean", "saved", "failed"}, title : Body]
  BY ConsumeTyped DEF ActionResumed, CallInv, Client, Caller
<1>2. CASE flushed.res = "failed" \/ TitleIsSaved
  <2>1. EndAct /\ UNCHANGED req
    BY <1>2 DEF ActionResumed
  <2> QED BY <1>1, <2>1, ActionEndsTyped
          DEF ActionResumed, CallInv, Typed, TypeOK, editor, save, bounds, Waiting
<1>3. CASE ~(flushed.res = "failed" \/ TitleIsSaved)
  <2>1. Send(FirstCall) /\ UNCHANGED act
    BY <1>3 DEF ActionResumed
  <2>2. req' \in [Caller -> Calls \cup {NoReq}]
    BY <2>1, FirstCallFits, RequestChanges DEF Send, ActionResumed, Consume, CallInv, Caller
  <2> QED BY <1>1, <2>1, <2>2
          DEF Send, ActionResumed, CallInv, Typed, TypeOK, editor, save, bounds
<1> QED BY <1>2, <1>3

LEMMA ActionDoneTyped ==
    ASSUME CallInv, ActionRefused \/ Created \/ Updated \/ Restored \/ Purged
    PROVE  Typed'
<1> DEFINE q == req["action"]
<1>1. /\ ActionAnswered /\ EndAct /\ req' = [req EXCEPT !["action"] = NoReq]
      /\ UNCHANGED <<store, pick, flushed, applied, closed, bounds>>
  BY DEF ActionRefused, Created, Updated, Restored, Purged, LastTarget
<1>2. /\ act' \in Acts /\ ctl' \in [Client -> Waiting]
      /\ req' \in [Caller -> Calls \cup {NoReq}]
  BY <1>1, ActionEndsTyped, RequestChanges DEF CallInv, Caller
<1>3. /\ q.doc \in Doc /\ q.got \in Rows /\ q.got.rev \in Nat /\ q.got.title \in Body
      /\ Merged(q.got, q.doc) \in ListType
  BY <1>1, ActionAsks
<1>4. act.doc \in Doc \cup {NoDoc} /\ act.row \in Rows
  BY DEF CallInv, Typed, Acts
<1>5. SUFFICES /\ list' \in ListType /\ cur' \in Doc /\ {text, title, base}' \subseteq Body
               /\ rev' \in Nat /\ {dirty, fresh, failed, timer}' \subseteq BOOLEAN
               /\ loading' \in {"no", "yes", "error"}
  BY <1>1, <1>2 DEF CallInv, Typed, TypeOK, ListType, Waiting, bounds
<1> HIDE DEF q
<1>6. CASE ActionRefused
  BY <1>6 DEF ActionRefused, CallInv, Typed, TypeOK, editor, save, ListType
<1>7. CASE Created
  BY <1>3, <1>7, ShowTyped DEF Created, CallInv, q
<1>8. CASE Updated
  <2>1. list' = Merged(q.got, q.doc) /\ UNCHANGED <<cur, text, base, loading>>
    BY <1>8 DEF Updated, q
  <2>2. title' = q.got.title \/ title' = title
    BY <1>8 DEF Updated, q
  <2>3. ResetSavedState(q.got.rev) \/ KeepSave
    BY <1>8 DEF Updated, q
  <2>4. rev' \in Nat /\ {dirty, fresh, failed, timer}' \subseteq BOOLEAN
    BY <1>3, <2>3, ResetIsTyped DEF KeepSave, save, CallInv, Typed, TypeOK
  <2> QED BY <1>3, <2>1, <2>2, <2>4 DEF CallInv, Typed, TypeOK
<1>9. CASE Restored
  <2>1. act.doc \in Doc
    BY <1>9, <1>4 DEF Restored, CallInv, ActionIsCurrent
  <2>2. \E row \in Rows : Show(act.doc, row)
    BY <1>3, <1>4, <1>9 DEF Restored, q
  <2>3. list' = Merged(q.got, q.doc)
    BY <1>9 DEF Restored, q
  <2> QED BY <1>3, <2>1, <2>2, <2>3, ShowTyped DEF CallInv
<1>10. CASE Purged
  BY <1>3, <1>10 DEF Purged, CallInv, Typed, TypeOK, editor, save, q
<1> QED BY <1>6, <1>7, <1>8, <1>9, <1>10

\* The call an action makes for its next target.
LEMMA NextTargetFits ==
    ASSUME CallInv, NextTarget
    PROVE  \E q \in Calls :
              /\ Send(q) /\ q # NoReq /\ q.at = "sent" /\ ~q.ok
              /\ q.op = act.kind /\ act.kind \in Subtree
              /\ Tail(act.todo) # << >> /\ q.doc = Head(Tail(act.todo)).doc
              /\ act' = [act EXCEPT !.todo = Tail(act.todo), !.row = act'.row]
              /\ act'.row = IF req["action"].doc = act.doc THEN req["action"].got ELSE act.row
<1> DEFINE todo == act.todo  t == todo[2]
<1>1. /\ Len(todo) > 1 /\ todo \in Seq(Targets) /\ act \in Acts
  BY DEF NextTarget, CallInv, Typed, Acts
<1> DEFINE tail == Tail(todo)
<1>2. act' = [act EXCEPT !.todo = tail,
                         !.row = IF req["action"].doc = act.doc THEN req["action"].got ELSE @]
  BY DEF NextTarget
<1> HIDE DEF todo
<1>3. tail # << >> /\ Head(tail) = t /\ todo # << >> /\ t \in Targets
  <2>1. Len(todo) \in Nat /\ 2 \in 1..Len(todo) /\ todo # << >>
    BY <1>1
  <2>2. t \in Targets
    BY <1>1, <2>1, ElementOfSeq
  <2>3. tail \in Seq(Targets) /\ Len(tail) = Len(todo) - 1 /\ tail[1] = todo[2]
    BY <1>1, <2>1
  <2>4. \A s \in Seq(Targets) : Len(s) > 0 => s # << >> /\ Head(s) = s[1]
    OBVIOUS
  <2> HIDE DEF tail
  <2>5. tail # << >> /\ Head(tail) = tail[1]
    <3>1. Len(tail) > 0
      BY <1>1, <2>1, <2>3
    <3> QED BY <2>3, <2>4, <3>1
  <2> QED BY <2>1, <2>2, <2>3, <2>5
<1>4. act.kind \in Subtree
  BY <1>3 DEF CallInv, ActionIsCurrent, todo
<1>5. t.doc \in Doc /\ t.rev \in Nat
  BY <1>3 DEF Targets
<1> HIDE DEF t, tail
<1>6. RevisionFor(t) \in Nat
  BY <1>5, RevisionIsNumber DEF CallInv
<1>7. PICK r \in Nat : Send(Call(act.kind, t.doc, r, NoText, NoText))
  BY <1>5, <1>6 DEF NextTarget, t, todo
<1>8. act.kind \in Ops
  BY <1>4 DEF Subtree, Ops
<1>9. Call(act.kind, t.doc, r, NoText, NoText) \in Calls
  BY <1>5, <1>8, CallIsCall, Bodies
<1>10. act'.row = IF req["action"].doc = act.doc THEN req["action"].got ELSE act.row
  BY <1>1, <1>2 DEF Acts
<1>11. act' = [act EXCEPT !.todo = tail, !.row = act'.row]
  BY <1>1, <1>2, <1>10 DEF Acts
<1> DEFINE q == Call(act.kind, t.doc, r, NoText, NoText)
<1>12. q # NoReq /\ q.at = "sent" /\ ~q.ok /\ q.op = act.kind /\ q.doc = t.doc
  BY DEF Call, NoReq
<1> HIDE DEF q
<1>13. q \in Calls /\ Send(q)
  BY <1>7, <1>9 DEF q
<1> QED BY <1>3, <1>4, <1>10, <1>11, <1>12, <1>13 DEF tail, todo

LEMMA NextTargetTyped == ASSUME CallInv, NextTarget PROVE Typed'
<1>1. PICK q \in Calls :
         /\ Send(q)
         /\ act' = [act EXCEPT !.todo = Tail(act.todo), !.row = act'.row]
         /\ act'.row = IF req["action"].doc = act.doc THEN req["action"].got ELSE act.row
         /\ Tail(act.todo) # << >>
  BY NextTargetFits
<1>2. act.todo # << >> /\ act \in Acts
  BY DEF NextTarget, CallInv, Typed
<1>3. Tail(act.todo) \in Seq(Targets)
  BY <1>2, HeadIsTarget DEF CallInv
<1>4. /\ req["action"].got \in Rows /\ Merged(req["action"].got, req["action"].doc) \in ListType
  BY ActionAsks DEF NextTarget
<1>5. act'.row \in Rows
  BY <1>1, <1>2, <1>4 DEF Acts
<1>6. act' \in Acts
  BY <1>1, <1>2, <1>3, <1>5 DEF Acts
<1>7. req' \in [Caller -> Calls \cup {NoReq}]
  BY <1>1, RequestChanges DEF Send, CallInv, Caller
<1>8. ctl' \in [Client -> Waiting]
  BY <1>1 DEF Send, CallInv, Typed, TypeOK, Waiting
<1> QED BY <1>4, <1>6, <1>7, <1>8
        DEF NextTarget, CallInv, Typed, TypeOK, editor, save, bounds, ListType, Waiting

\* The page the reader is taken to after a deletion.
LEMMA DeletedFits ==
    ASSUME CallInv, Deleted
    PROVE  \/ EndAct /\ req' = [req EXCEPT !["action"] = NoReq] /\ UNCHANGED loading
           \/ \E q \in Calls :
                 /\ Send(q) /\ q # NoReq /\ q.at = "sent" /\ ~q.ok
                 /\ q.op \in {"get", "create"} /\ (q.op = "create" => q.text.of = q.doc)
                 /\ act' = [act EXCEPT !.todo = << >>]
                 /\ loading' \in {loading, "yes"}
<1> SUFFICES ASSUME ~(EndAct /\ req' = [req EXCEPT !["action"] = NoReq] /\ UNCHANGED loading)
             PROVE  \E q \in Calls :
                       /\ Send(q) /\ q # NoReq /\ q.at = "sent" /\ ~q.ok
                       /\ q.op \in {"get", "create"} /\ (q.op = "create" => q.text.of = q.doc)
                       /\ act' = [act EXCEPT !.todo = << >>]
                       /\ loading' \in {loading, "yes"}
  OBVIOUS
<1>1. PICK d \in Doc :
         /\ act' = [act EXCEPT !.todo = << >>] /\ loading' \in {loading, "yes"}
         /\ \/ Send(Call("get", d, 0, NoText, NoText))
            \/ Send(Call("create", d, 0, Untouched(d), Untouched(d)))
  BY DEF Deleted, Unused
<1>2. CASE Send(Call("get", d, 0, NoText, NoText))
  <2> DEFINE q == Call("get", d, 0, NoText, NoText)
  <2>1. q \in Calls
    BY CallIsCall, Bodies DEF Ops
  <2>2. q # NoReq /\ q.at = "sent" /\ ~q.ok /\ q.op = "get"
    BY DEF Call, NoReq
  <2>3. Send(q)
    BY <1>2
  <2> HIDE DEF q
  <2> QED BY <1>1, <2>1, <2>2, <2>3
<1>3. CASE Send(Call("create", d, 0, Untouched(d), Untouched(d)))
  <2> DEFINE q == Call("create", d, 0, Untouched(d), Untouched(d))
  <2>1. q \in Calls
    BY CallIsCall, Bodies DEF Ops
  <2>2. q # NoReq /\ q.at = "sent" /\ ~q.ok /\ q.op = "create" /\ q.text.of = q.doc
    BY Bodies DEF Call, NoReq
  <2>3. Send(q)
    BY <1>3
  <2> HIDE DEF q
  <2> QED BY <1>1, <2>1, <2>2, <2>3
<1> QED BY <1>1, <1>2, <1>3

LEMMA DeletedTyped == ASSUME CallInv, Deleted PROVE Typed'
<1>1. list' \in ListType /\ UNCHANGED <<store, editor, save, pick, flushed, applied, closed, bounds>>
  BY ActionAsks DEF Deleted, LastTarget
<1>2. CASE EndAct /\ req' = [req EXCEPT !["action"] = NoReq] /\ UNCHANGED loading
  <2>1. req' \in [Caller -> Calls \cup {NoReq}]
    BY <1>2, RequestChanges DEF CallInv, Caller
  <2> QED BY <1>1, <1>2, <2>1, ActionEndsTyped
          DEF CallInv, Typed, TypeOK, editor, save, bounds, ListType, Waiting
<1>3. ASSUME NEW q \in Calls, Send(q), act' = [act EXCEPT !.todo = << >>],
             loading' \in {loading, "yes"}
      PROVE  Typed'
  <2>1. req' \in [Caller -> Calls \cup {NoReq}]
    BY <1>3, RequestChanges DEF Send, CallInv, Caller
  <2>2. act' \in Acts
    BY <1>3, EmptySeq DEF CallInv, Typed, Acts
  <2>3. ctl' \in [Client -> Waiting]
    BY <1>3 DEF Send, CallInv, Typed, TypeOK, Waiting
  <2> QED BY <1>1, <1>3, <2>1, <2>2, <2>3
          DEF CallInv, Typed, TypeOK, editor, save, bounds, ListType, Waiting
<1> QED BY <1>2, <1>3, DeletedFits

\* The dialogue and the patches.
LEMMA PropertiesTyped ==
    /\ \A d \in Doc : CallInv /\ Properties(d) => Typed'
    /\ CallInv /\ PropertiesResumed => Typed'
    /\ CallInv /\ PropertiesAnswered => Typed'
<1> USE DEF CallInv
<1>1. ASSUME CallInv, NEW d \in Doc, Properties(d) PROVE Typed'
  <2>1. /\ inputs' \in 0..MaxInputs /\ act' \in Acts
        /\ pick' \in [{"select", "props"} -> Doc \cup {NoDoc}]
    BY <1>1 DEF Properties, Typed
  <2>2. JoinFlush("props") /\ UNCHANGED <<store, list, loading, applied, closed>>
    BY <1>1 DEF Properties
  <2> QED BY <1>1, <2>1, <2>2, JoinTyped DEF Client, Caller
<1>2. ASSUME CallInv, PropertiesResumed PROVE Typed'
  <2>1. "props" \in Client /\ "props" \in Caller
    BY DEF Client, Caller
  <2>2. flushed' \in [res : {"clean", "saved", "failed"}, title : Body]
    BY <1>2, <2>1, ConsumeTyped DEF PropertiesResumed
  <2>3. /\ pick["props"] \in Doc /\ list[pick["props"]].rev \in Nat
        /\ pick' \in [{"select", "props"} -> Doc \cup {NoDoc}]
    BY <1>2, <2>1 DEF PropertiesResumed, Consume, Typed, TypeOK, DocumentsAreKnown
  <2>4. CASE flushed.res = "failed"
    BY <1>2, <2>2, <2>3, <2>4 DEF PropertiesResumed, Typed, TypeOK, editor, save, bounds
  <2>5. CASE flushed.res # "failed"
    <3>1. Call("update", pick["props"], list[pick["props"]].rev, NoText, NoText) \in Calls
      BY <2>3, Bodies, CallIsCall DEF Ops
    <3>2. req' \in [Caller -> Calls \cup {NoReq}]
      BY <1>2, <2>1, <2>5, <3>1 DEF PropertiesResumed, Typed
    <3> QED BY <1>2, <2>2, <2>3, <2>5, <3>2
            DEF PropertiesResumed, Typed, TypeOK, editor, save, bounds
  <2> QED BY <2>4, <2>5
<1>3. ASSUME CallInv, PropertiesAnswered PROVE Typed'
  <2> DEFINE q == req["props"]
  <2>1. q # NoReq /\ "props" \in Caller
    BY <1>3, SomethingIsAsked DEF PropertiesAnswered, Answered, Caller
  <2>2. q.doc \in Doc /\ q.got \in Rows /\ q.got.rev \in Nat
    BY <1>3, <2>1, RequestIs DEF Rows
  <2>3. Merged(q.got, q.doc) \in ListType
    BY <1>3, <2>2, MergedIsList DEF ListType
  <2>4. req' \in [Caller -> Calls \cup {NoReq}]
    BY <1>3, <2>1, RequestChanges DEF PropertiesAnswered
  <2>5. /\ list' \in ListType /\ rev' \in Nat
        /\ {dirty, fresh, failed, timer}' \subseteq BOOLEAN
    <3> HIDE DEF q
    <3>1. CASE q.ok /\ q.doc = cur
      BY <1>3, <2>2, <2>3, <3>1, ResetIsTyped DEF PropertiesAnswered, q
    <3>2. CASE ~(q.ok /\ q.doc = cur)
      BY <1>3, <2>3, <3>2
         DEF PropertiesAnswered, KeepSave, save, Typed, TypeOK, ListType, q
    <3> QED BY <3>1, <3>2
  <2> QED BY <1>3, <2>4, <2>5 DEF PropertiesAnswered, Typed, TypeOK, bounds, ListType
<1> QED BY <1>1, <1>2, <1>3

LEMMA PatchTyped ==
    /\ \A d \in Doc : CallInv /\ ApplyPatch(d) => Typed'
    /\ CallInv /\ Rollback => Typed'
    /\ CallInv /\ PatchSnapshot => Typed'
    /\ CallInv /\ PatchWritten => Typed'
<1> USE DEF CallInv
<1> DEFINE q == req["patch"]
<1>1. "patch" \in Caller
  BY DEF Caller
<1>2. ASSUME CallInv, NEW d \in Doc, ApplyPatch(d) PROVE Typed'
  <2>1. Call("get", d, 0, NoText, NoText) \in Calls
    BY CallIsCall, Bodies DEF Ops
  <2>2. req' \in [Caller -> Calls \cup {NoReq}]
    BY <1>1, <1>2, <2>1 DEF ApplyPatch, Typed
  <2>3. inputs' \in 0..MaxInputs
    BY <1>2 DEF ApplyPatch, Typed
  <2> QED BY <1>2, <2>2, <2>3 DEF ApplyPatch, Typed, TypeOK, editor, save
<1>3. ASSUME CallInv, Rollback PROVE Typed'
  <2>1. applied.doc \in Doc /\ applied.rev \in Nat /\ applied.before \in Body
    BY <1>3 DEF Rollback, Typed, DocumentsAreKnown
  <2>2. Call("rollback", applied.doc, applied.rev, applied.before, NoText) \in Calls
    BY <2>1, CallIsCall, Bodies DEF Ops
  <2>3. req' \in [Caller -> Calls \cup {NoReq}]
    BY <1>1, <1>3, <2>2 DEF Rollback, Typed
  <2>4. inputs' \in 0..MaxInputs
    BY <1>3 DEF Rollback, Typed
  <2> QED BY <1>3, <2>3, <2>4 DEF Rollback, Typed, TypeOK, editor, save
<1>4. ASSUME CallInv, PatchSnapshot PROVE Typed'
  <2>1. q # NoReq
    BY <1>4, SomethingIsAsked DEF PatchSnapshot, Answered
  <2>2. q.doc \in Doc /\ q.got \in Rows /\ q.got.rev \in Nat
    BY <1>1, <1>4, <2>1, RequestIs DEF Rows
  <2> DEFINE p == Call("patch", q.doc, q.got.rev, AgentText(q.doc), NoText)
  <2>3. p \in Calls
    <3>1. AgentText(q.doc) \in Body /\ "patch" \in Ops
      BY <2>2, Bodies DEF Ops
    <3> QED BY <2>2, <3>1, CallIsCall, Bodies
  <2>4. req' = [req EXCEPT !["patch"] = p] \/ req' = [req EXCEPT !["patch"] = NoReq]
    BY <1>4 DEF PatchSnapshot
  <2> HIDE DEF p
  <2>5. req' \in [Caller -> Calls \cup {NoReq}]
    BY <1>1, <1>4, <2>3, <2>4, RequestChanges
  <2> QED BY <1>4, <2>5 DEF PatchSnapshot, Typed, TypeOK, editor, save, bounds
<1>5. ASSUME CallInv, PatchWritten PROVE Typed'
  <2>1. q # NoReq
    BY <1>5, SomethingIsAsked DEF PatchWritten, Answered
  <2>2. q.doc \in Doc /\ q.got \in Rows /\ q.got.rev \in Nat /\ q.got.text \in Body
    BY <1>1, <1>5, <2>1, RequestIs DEF Rows
  <2>3. Merged(q.got, q.doc) \in ListType
    BY <1>5, <2>2, MergedIsList DEF ListType
  <2>4. req' \in [Caller -> Calls \cup {NoReq}]
    BY <1>1, <1>5, RequestChanges DEF PatchWritten
  <2>5. applied' \in [doc : Doc \cup {NoDoc}, rev : Nat, before : Body, known : BOOLEAN]
    <3>1. \/ applied' = applied \/ applied' = NoApplied
          \/ applied' = [applied EXCEPT !.known = TRUE]
      BY <1>5 DEF PatchWritten
    <3>2. NoApplied \in [doc : Doc \cup {NoDoc}, rev : Nat, before : Body, known : BOOLEAN]
      BY Bodies DEF NoApplied
    <3> QED BY <1>5, <3>1, <3>2 DEF Typed
  <2>6. /\ list' \in ListType /\ cur' \in Doc /\ {text, title, base}' \subseteq Body
        /\ rev' \in Nat /\ {dirty, fresh, failed, timer}' \subseteq BOOLEAN
    <3> HIDE DEF q
    <3>1. CASE q.ok /\ q.doc = cur
      <4>1. /\ text' = q.got.text /\ base' = q.got.text /\ ResetSavedState(q.got.rev)
            /\ UNCHANGED <<list, cur, title>>
        BY <1>5, <3>1 DEF PatchWritten, q
      <4> QED BY <1>5, <2>2, <4>1, ResetIsTyped DEF Typed, TypeOK, ListType
    <3>2. CASE q.ok /\ q.doc # cur
      <4>1. list' = Merged(q.got, q.doc) /\ UNCHANGED <<editor, save>>
        BY <1>5, <3>2 DEF PatchWritten, q
      <4> QED BY <1>5, <2>3, <4>1 DEF Typed, TypeOK, editor, save
    <3>3. CASE ~q.ok
      <4>1. UNCHANGED <<list, editor, save>>
        BY <1>5, <3>3 DEF PatchWritten, q
      <4> QED BY <1>5, <4>1 DEF Typed, TypeOK, editor, save, ListType
    <3> QED BY <3>1, <3>2, <3>3
  <2> QED BY <1>5, <2>4, <2>5, <2>6 DEF PatchWritten, Typed, TypeOK, bounds, ListType
<1> QED BY <1>2, <1>3, <1>4, <1>5

-----------------------------------------------------------------------------
(* The calls and their callers.                                            *)

LEMMA CallsAside ==
    ASSUME CallInv,
           \A c \in Caller : \/ req'[c] = req[c] \/ req'[c] = NoReq
                             \/ c = "save" /\ req'[c].op = "save" /\ ~req'[c].ok
    PROVE  CallsAreTheirs'
BY SaveCallIsCall DEF CallInv, CallsAreTheirs, OpsOf

LEMMA ActionAside ==
    ASSUME CallInv, act' = act, req'["action"] = req["action"],
           \/ ctl'["action"] = ctl["action"]
           \/ ctl["action"] = "flushing" /\ ctl'["action"] = "resumed"
    PROVE  ActionIsCurrent'
BY DEF CallInv, ActionIsCurrent, CallFits

LEMMA KnownAside ==
    ASSUME CallInv, pick' = pick, applied' = applied,
           \/ req'["patch"] = req["patch"] \/ req'["patch"] = NoReq
           \/ req'["patch"].op # "patch"
           \/ req'["patch"].at = "sent" /\ ~req'["patch"].ok,
           \A c \in {"select", "props"} : ctl'[c] \in {"flushing", "resumed"} =>
                                             ctl[c] \in {"flushing", "resumed"}
    PROVE  DocumentsAreKnown'
BY DEF CallInv, DocumentsAreKnown

LEMMA AsideKeeps ==
    ASSUME CallInv, Typed', pick' = pick, applied' = applied, act' = act,
           \A c \in Caller : \/ req'[c] = req[c]
                             \/ c # "action" /\ req'[c] = NoReq
                             \/ c = "save" /\ req'[c].op = "save" /\ ~req'[c].ok,
           \A c \in {"select", "props", "action"} :
              \/ ctl'[c] = ctl[c]
              \/ ctl[c] = "flushing" /\ ctl'[c] = "resumed"
              \/ c # "action" /\ ctl'[c] \notin {"flushing", "resumed"}
    PROVE  CallInv'
<1>1. CallsAreTheirs'
  BY CallsAside
<1>2. req'["action"] = req["action"] /\ (req'["patch"] = req["patch"] \/ req'["patch"] = NoReq)
  BY DEF Caller
<1>3. ActionIsCurrent'
  BY <1>2, ActionAside
<1>4. DocumentsAreKnown'
  <2>1. \A c \in {"select", "props"} : ctl'[c] \in {"flushing", "resumed"} =>
                                           ctl[c] \in {"flushing", "resumed"}
    OBVIOUS
  <2> QED BY <1>2, <2>1, KnownAside
<1> QED BY <1>1, <1>3, <1>4 DEF CallInv

\* The database moves a call on: what it asks stays.
LEMMA MovedOn ==
    ASSUME CallInv, Typed', UNCHANGED <<act, ctl, pick>>, NEW c \in Caller,
           \A o \in Caller : o # c => req'[o] = req[o],
           req[c] # NoReq, req'[c] # NoReq,
           req'[c].op = req[c].op, req'[c].doc = req[c].doc,
           req'[c].at # "answered" => ~req'[c].ok,
           c # "patch" => applied' = applied,
           applied' = applied \/ applied'.doc \in Doc,
           c = "patch" /\ req[c].op = "patch" /\ (req'[c].at = "written" \/ req'[c].ok)
              => applied'.doc \in Doc
    PROVE  CallInv'
<1>1. CallsAreTheirs'
  BY DEF CallInv, CallsAreTheirs
<1>2. ActionIsCurrent'
  BY DEF CallInv, ActionIsCurrent, CallFits, Caller
<1>3. DocumentsAreKnown'
  BY DEF CallInv, DocumentsAreKnown, Caller
<1> QED BY <1>1, <1>2, <1>3 DEF CallInv

LEMMA DatabaseKeepsCalls ==
    ASSUME CallInv, NEW c \in Caller, Commit(c) \/ Reread(c) \/ Fail(c)
    PROVE  CallInv'
<1>1. Typed'
  BY CommitTyped, DatabaseTyped
<1>2. req[c] # NoReq /\ req[c] \in Calls /\ UNCHANGED <<act, ctl, pick>>
  BY SomethingIsAsked, RequestIs DEF Commit, Reread, Fail, CallInv
<1>3. req[c].at # "answered" => ~req[c].ok
  BY <1>2 DEF CallInv, CallsAreTheirs
<1>4. /\ \A o \in Caller : o # c => req'[o] = req[o]
      /\ req'[c].op = req[c].op /\ req'[c].doc = req[c].doc
      /\ req'[c].at \in {"written", "answered"}
  BY <1>2 DEF Commit, Reread, Fail, CallInv, Typed, Calls
<1>5. req'[c] # NoReq
  BY <1>4 DEF NoReq
<1>6. CASE Commit(c)
  <2>1. req'[c].ok = req[c].ok /\ req[c].at = "sent"
    BY <1>2, <1>6 DEF Commit, CallInv, Typed, Calls
  <2>2. CASE req'[c].at = "written" /\ req[c].op = "patch"
    <3>1. c = "patch"
      BY <1>2, <2>2 DEF CallInv, CallsAreTheirs, OpsOf, Caller
    <3>2. applied'.doc = req[c].doc /\ ~applied'.known
      BY <1>2, <1>6, <2>2 DEF Commit, CallInv, Typed, Calls
    <3>3. req[c].doc \in Doc
      BY <1>2 DEF Calls
    <3> QED BY <1>1, <1>2, <1>3, <1>4, <1>5, <2>1, <3>1, <3>2, <3>3, MovedOn
  <2>3. CASE ~(req'[c].at = "written" /\ req[c].op = "patch")
    <3>1. applied' = applied
      BY <1>2, <1>6, <2>3 DEF Commit, CallInv, Typed, Calls
    <3> QED BY <1>1, <1>2, <1>3, <1>4, <1>5, <2>1, <2>3, <3>1, MovedOn
  <2> QED BY <2>2, <2>3
<1>7. CASE Reread(c)
  <2>1. applied' = applied /\ req'[c].at = "answered"
    BY <1>2, <1>7 DEF Reread, CallInv, Typed, Calls
  <2>2. c = "patch" /\ req[c].op = "patch" => applied.doc \in Doc
    BY <1>2, <1>7 DEF Reread, CallInv, DocumentsAreKnown
  <2> QED BY <1>1, <1>2, <1>4, <1>5, <2>1, <2>2, MovedOn
<1>8. CASE Fail(c)
  <2>1. applied' = applied /\ req'[c].at = "answered" /\ ~req'[c].ok
    BY <1>2, <1>8 DEF Fail, CallInv, Typed, Calls
  <2> QED BY <1>1, <1>2, <1>4, <1>5, <2>1, MovedOn
<1> QED BY <1>6, <1>7, <1>8

\* The steps that ask nothing new but a save.
LEMMA EditorKeepsCalls ==
    ASSUME CallInv,
           \/ \E d \in Doc : AgentWrite(d)
           \/ \E f \in {"text", "title"} : Edit(f)
           \/ FlushNow \/ SaveAnswered \/ CloseRequested \/ CloseResumed
    PROVE  CallInv'
<1>1. Typed'
  BY DatabaseTyped, EditTyped, FlushNowTyped, SaveTyped, CloseTyped
<1>2. SaveCall.op = "save" /\ ~SaveCall.ok
  BY SaveCallIsCall DEF CallInv
<1>3. ctl \in [Client -> Waiting] /\ req \in [Caller -> Calls \cup {NoReq}]
  BY DEF CallInv, Typed, TypeOK, Waiting
<1>4. SUFFICES
        /\ UNCHANGED <<pick, applied, act>>
        /\ \A c \in Caller : \/ req'[c] = req[c]
                             \/ c # "action" /\ req'[c] = NoReq
                             \/ c = "save" /\ req'[c].op = "save" /\ ~req'[c].ok
        /\ \A c \in {"select", "props", "action"} :
              \/ ctl'[c] = ctl[c]
              \/ ctl[c] = "flushing" /\ ctl'[c] = "resumed"
  BY <1>1, AsideKeeps
<1>5. CASE \E d \in Doc : AgentWrite(d)
  BY <1>5 DEF AgentWrite
<1>6. CASE \E f \in {"text", "title"} : Edit(f)
  BY <1>6 DEF Edit
<1>7. CASE FlushNow
  BY <1>2, <1>3, <1>7 DEF FlushNow, Caller
<1>8. CASE SaveFailed
  BY <1>3, <1>8 DEF SaveFailed, Resume, Client, Caller
<1>9. CASE SaveConfirmed
  BY <1>3, <1>9 DEF SaveConfirmed, Resume, Client, Caller
<1>10. CASE SaveOvertaken
  BY <1>3, <1>10 DEF SaveOvertaken, Call, Caller
<1>11. CASE CloseRequested
  <2>1. CASE ~dirty
    BY <1>11, <2>1 DEF CloseRequested
  <2>2. CASE dirty
    <3>1. JoinFlush("close") /\ "close" \in Client
      BY <1>11, <2>2 DEF CloseRequested, Client
    <3>2. \A o \in {"select", "props", "action"} : ctl'[o] = ctl[o]
      BY <3>1, JoinFlushKeeps DEF Client, Caller
    <3>3. \A o \in Caller : \/ req'[o] = req[o]
                            \/ o = "save" /\ req'[o] = NoReq
                            \/ o = "save" /\ req'[o] = SaveCall
      <4>1. /\ \A o \in Caller : o # "save" => req'[o] = req[o]
            /\ req'["save"] # NoReq => req'["save"] = req["save"] \/ req'["save"] = SaveCall
        BY <3>1, JoinFlushKeeps
      <4> QED BY <4>1
    <3> QED BY <1>2, <1>11, <3>2, <3>3 DEF CloseRequested
  <2> QED BY <2>1, <2>2
<1>12. CASE CloseResumed
  BY <1>3, <1>12 DEF CloseResumed, Client, Caller
<1> QED BY <1>5, <1>6, <1>7, <1>8, <1>9, <1>10, <1>11, <1>12 DEF SaveAnswered

\* A client that joins the flush knows its document.
LEMMA JoinKeepsCalls ==
    ASSUME CallInv, Typed', NEW c \in {"select", "props"}, JoinFlush(c),
           pick'[c] \in Doc, \A o \in {"select", "props"} : o # c => pick'[o] = pick[o],
           UNCHANGED <<act, applied>>
    PROVE  CallInv'
<1>1. SaveCall.op = "save" /\ ~SaveCall.ok /\ c \in Client
  BY SaveCallIsCall DEF CallInv, Client, Caller
<1>2. /\ \A o \in Caller : o # "save" => req'[o] = req[o]
      /\ req'["save"] # NoReq => req'["save"] = req["save"] \/ req'["save"] = SaveCall
      /\ \A o \in Client : o # c => ctl'[o] = ctl[o]
  BY <1>1, JoinFlushKeeps
<1>3. CallsAreTheirs'
  BY <1>1, <1>2, CallsAside
<1>4. req'["action"] = req["action"] /\ ctl'["action"] = ctl["action"] /\ req'["patch"] = req["patch"]
  BY <1>2 DEF Client, Caller
<1>5. ActionIsCurrent'
  BY <1>4, ActionAside
<1>6. DocumentsAreKnown'
  BY <1>2, <1>4 DEF CallInv, DocumentsAreKnown, Client, Caller
<1> QED BY <1>3, <1>5, <1>6 DEF CallInv

\* The selection and the dialogue.
LEMMA ReaderKeepsCalls ==
    ASSUME CallInv,
           \/ \E d \in Doc : Select(d) \/ Properties(d)
           \/ SelectResumed \/ Loaded("select") \/ PropertiesResumed \/ PropertiesAnswered
    PROVE  CallInv'
<1>1. Typed'
  BY SelectTyped, LoadedTyped, PropertiesTyped
<1>2. ctl \in [Client -> Waiting] /\ req \in [Caller -> Calls \cup {NoReq}]
      /\ pick \in [{"select", "props"} -> Doc \cup {NoDoc}]
      /\ {"select", "props", "action"} \subseteq Client /\ {"select", "props"} \subseteq Caller
  BY DEF CallInv, Typed, TypeOK, Waiting, Client, Caller
<1>3. ASSUME NEW d \in Doc, Select(d) PROVE CallInv'
  <2>1. JoinFlush("select") /\ pick' = [pick EXCEPT !["select"] = d] /\ UNCHANGED <<act, applied>>
    BY <1>3 DEF Select
  <2> QED BY <1>1, <1>2, <2>1, JoinKeepsCalls
<1>4. ASSUME NEW d \in Doc, Properties(d) PROVE CallInv'
  <2>1. JoinFlush("props") /\ pick' = [pick EXCEPT !["props"] = d] /\ UNCHANGED <<act, applied>>
    BY <1>4 DEF Properties
  <2> QED BY <1>1, <1>2, <2>1, JoinKeepsCalls
<1>5. ASSUME NEW c \in {"select", "props"}, act' = act, applied' = applied,
             ctl'[c] \in {"idle", "busy"},
             \A o \in Client : o # c => ctl'[o] = ctl[o],
             \A o \in Caller : o # c => req'[o] = req[o],
             \A o \in {"select", "props"} : o # c => pick'[o] = pick[o],
             \/ req'[c] = req[c]
             \/ req'[c] = NoReq
             \/ req'[c].op \in OpsOf(c) /\ ~req'[c].ok
      PROVE  CallInv'
  <2>1. CallsAreTheirs'
    BY <1>5 DEF CallInv, CallsAreTheirs
  <2>2. req'["action"] = req["action"] /\ ctl'["action"] = ctl["action"]
        /\ req'["patch"] = req["patch"]
    BY <1>5 DEF Client, Caller
  <2>3. ActionIsCurrent'
    BY <1>5, <2>2, ActionAside
  <2>4. DocumentsAreKnown'
    BY <1>5, <2>2 DEF CallInv, DocumentsAreKnown, Client, Caller
  <2> QED BY <1>1, <2>1, <2>3, <2>4 DEF CallInv
<1>6. CASE SelectResumed
  <2>1. UNCHANGED <<act, applied>> /\ pick' = [pick EXCEPT !["select"] = NoDoc]
    BY <1>6 DEF SelectResumed
  <2>2. CASE ctl' = [ctl EXCEPT !["select"] = "idle"] /\ UNCHANGED req
    <3>1. /\ ctl'["select"] = "idle" /\ \A o \in Client : o # "select" => ctl'[o] = ctl[o]
          /\ \A o \in {"select", "props"} : o # "select" => pick'[o] = pick[o]
          /\ \A o \in Caller : req'[o] = req[o]
          /\ req'["select"] = req["select"]
      BY <1>2, <2>1, <2>2
    <3> QED BY <1>5, <2>1, <3>1
  <2>3. CASE /\ ctl' = [ctl EXCEPT !["select"] = "busy"]
             /\ req' = [req EXCEPT !["select"] = Call("get", pick["select"], 0, NoText, NoText)]
    <3>1. req'["select"].op \in OpsOf("select") /\ ~req'["select"].ok
      BY <1>2, <2>3 DEF Call, OpsOf
    <3> QED BY <1>2, <1>5, <2>1, <2>3, <3>1
  <2> QED BY <1>6, <2>2, <2>3 DEF SelectResumed
<1>7. CASE Loaded("select")
  <2>1. /\ UNCHANGED <<act, applied, pick>> /\ ctl' = [ctl EXCEPT !["select"] = "idle"]
        /\ req' = [req EXCEPT !["select"] = NoReq]
    BY <1>7 DEF Loaded
  <2>2. /\ ctl'["select"] = "idle" /\ \A o \in Client : o # "select" => ctl'[o] = ctl[o]
        /\ req'["select"] = NoReq /\ \A o \in Caller : o # "select" => req'[o] = req[o]
    BY <1>2, <2>1
  <2> QED BY <1>5, <2>1, <2>2
<1>8. CASE PropertiesResumed
  <2>1. UNCHANGED <<act, applied>> /\ pick' = [pick EXCEPT !["props"] = NoDoc]
    BY <1>8 DEF PropertiesResumed
  <2>2. CASE ctl' = [ctl EXCEPT !["props"] = "idle"] /\ UNCHANGED req
    <3>1. /\ ctl'["props"] = "idle" /\ \A o \in Client : o # "props" => ctl'[o] = ctl[o]
          /\ \A o \in {"select", "props"} : o # "props" => pick'[o] = pick[o]
          /\ \A o \in Caller : req'[o] = req[o]
          /\ req'["props"] = req["props"]
      BY <1>2, <2>1, <2>2
    <3> QED BY <1>5, <2>1, <3>1
  <2>3. CASE /\ ctl' = [ctl EXCEPT !["props"] = "busy"]
             /\ req' = [req EXCEPT !["props"] =
                          Call("update", pick["props"], list[pick["props"]].rev, NoText, NoText)]
    <3>1. req'["props"].op \in OpsOf("props") /\ ~req'["props"].ok
      BY <1>2, <2>3 DEF Call, OpsOf
    <3> QED BY <1>2, <1>5, <2>1, <2>3, <3>1
  <2> QED BY <1>8, <2>2, <2>3 DEF PropertiesResumed
<1>9. CASE PropertiesAnswered
  <2>1. /\ UNCHANGED <<act, applied, pick>> /\ ctl' = [ctl EXCEPT !["props"] = "idle"]
        /\ req' = [req EXCEPT !["props"] = NoReq]
    BY <1>9 DEF PropertiesAnswered
  <2>2. /\ ctl'["props"] = "idle" /\ \A o \in Client : o # "props" => ctl'[o] = ctl[o]
        /\ req'["props"] = NoReq /\ \A o \in Caller : o # "props" => req'[o] = req[o]
    BY <1>2, <2>1
  <2> QED BY <1>5, <2>1, <2>2
<1> QED BY <1>3, <1>4, <1>6, <1>7, <1>8, <1>9

LEMMA PatchKeepsCalls ==
    ASSUME CallInv,
           \/ \E d \in Doc : ApplyPatch(d)
           \/ Rollback \/ PatchSnapshot \/ PatchWritten
    PROVE  CallInv'
<1>1. Typed'
  BY PatchTyped
<1>2. ctl \in [Client -> Waiting] /\ req \in [Caller -> Calls \cup {NoReq}]
      /\ "patch" \in Client /\ "patch" \in Caller
  BY DEF CallInv, Typed, TypeOK, Waiting, Client, Caller
<1>3. act' = act /\ pick' = pick
  BY DEF ApplyPatch, Rollback, PatchSnapshot, PatchWritten
<1>4. /\ \A o \in Client : o # "patch" => ctl'[o] = ctl[o]
      /\ \A o \in Caller : o # "patch" => req'[o] = req[o]
  BY <1>2 DEF ApplyPatch, Rollback, PatchSnapshot, PatchWritten
<1>5. /\ req'["action"] = req["action"] /\ ctl'["action"] = ctl["action"]
      /\ \A c \in {"select", "props"} : ctl'[c] = ctl[c]
  BY <1>4 DEF Client, Caller
<1>6. ActionIsCurrent'
  BY <1>3, <1>5, ActionAside
<1>7. \/ req'["patch"] = NoReq
      \/ req'["patch"].op \in OpsOf("patch") /\ req'["patch"].at = "sent" /\ ~req'["patch"].ok
  BY <1>2 DEF ApplyPatch, Rollback, PatchSnapshot, PatchWritten, Call, OpsOf
<1>8. CallsAreTheirs'
  BY <1>4, <1>7 DEF CallInv, CallsAreTheirs
<1>9. applied'.known => applied'.doc \in Doc
  <2>1. CASE applied' = applied \/ applied' = NoApplied
    BY <2>1 DEF CallInv, DocumentsAreKnown, NoApplied
  <2>2. CASE applied' # applied /\ applied' # NoApplied
    <3>1. /\ PatchWritten /\ req["patch"].ok /\ req["patch"].op # "rollback"
          /\ req["patch"].op # "get" /\ applied' = [applied EXCEPT !.known = TRUE]
      BY <2>2 DEF ApplyPatch, Rollback, PatchSnapshot, PatchWritten
    <3>2. req["patch"] # NoReq
      BY <3>1, SomethingIsAsked DEF PatchWritten, Answered
    <3>3. req["patch"].op = "patch"
      BY <1>2, <3>1, <3>2 DEF CallInv, CallsAreTheirs, OpsOf
    <3>4. applied.doc \in Doc
      BY <3>1, <3>2, <3>3 DEF CallInv, DocumentsAreKnown
    <3> QED BY <3>1, <3>4 DEF CallInv, Typed
  <2> QED BY <2>1, <2>2
<1>10. DocumentsAreKnown'
  BY <1>3, <1>5, <1>7, <1>9 DEF CallInv, DocumentsAreKnown
<1> QED BY <1>1, <1>6, <1>8, <1>10 DEF CallInv

\* The steps of an action leave the other clients alone.
LEMMA ActionStepKeeps ==
    ASSUME CallInv, Typed', pick' = pick, applied' = applied,
           \A o \in Client : o # "action" => ctl'[o] = ctl[o],
           \A o \in Caller : o # "action" => req'[o] = req[o],
           ActionIsCurrent',
           req'["action"] # NoReq =>
              req'["action"].op \in OpsOf("action") /\ ~req'["action"].ok
    PROVE  CallInv'
<1>1. CallsAreTheirs'
  BY DEF CallInv, CallsAreTheirs
<1>2. req'["patch"] = req["patch"] /\ \A c \in {"select", "props"} : ctl'[c] = ctl[c]
  BY DEF Client, Caller
<1>3. DocumentsAreKnown'
  BY <1>2, KnownAside
<1> QED BY <1>1, <1>3 DEF CallInv

LEMMA BeginKeepsCalls ==
    ASSUME CallInv, Begins
    PROVE  CallInv'
<1>1. PICK a \in Acts, needsFlush \in BOOLEAN : Begin(a, needsFlush) /\ Planned(a)
  BY DEF Begins
<1>2. Typed'
  BY <1>1, BeginTyped
<1>3. /\ act' = a /\ pick' = pick /\ applied' = applied /\ req["action"] = NoReq
      /\ ctl \in [Client -> Waiting]
  BY <1>1 DEF Begin, CallInv, ActionIsCurrent, Typed, TypeOK, Waiting
<1>4. "action" \in Client /\ "action" \in Caller
  BY DEF Client, Caller
<1>5. /\ \A o \in Client : o # "action" => ctl'[o] = ctl[o]
      /\ ctl'["action"] \in {"flushing", "resumed"}
      /\ \A o \in Caller : o # "save" => req'[o] = req[o]
      /\ req'["save"] # NoReq => req'["save"] = req["save"] \/ req'["save"] = SaveCall
  <2>1. CASE needsFlush
    <3>1. JoinFlush("action")
      BY <1>1, <2>1 DEF Begin
    <3> QED BY <1>4, <3>1, JoinFlushKeeps
  <2>2. CASE ~needsFlush
    <3>1. ctl' = [ctl EXCEPT !["action"] = "resumed"] /\ req' = req
      BY <1>1, <2>2 DEF Begin
    <3> QED BY <1>3, <1>4, <3>1
  <2> QED BY <2>1, <2>2
<1>6. SaveCall.op = "save" /\ ~SaveCall.ok
  BY SaveCallIsCall DEF CallInv
<1>7. CallsAreTheirs'
  BY <1>5, <1>6, CallsAside
<1>8. req'["action"] = NoReq /\ req'["patch"] = req["patch"]
      /\ \A c \in {"select", "props"} : ctl'[c] = ctl[c]
  BY <1>3, <1>5 DEF Client, Caller
<1>9. ActionIsCurrent'
  BY <1>1, <1>3, <1>5, <1>8 DEF ActionIsCurrent, Planned
<1>10. DocumentsAreKnown'
  BY <1>3, <1>8, KnownAside
<1> QED BY <1>2, <1>7, <1>9, <1>10 DEF CallInv

LEMMA ActionStepKeepsCalls ==
    ASSUME CallInv, ActionResumed \/ ActionStep
    PROVE  CallInv'
<1>1. Typed'
  BY ActionResumedTyped, ActionDoneTyped, NextTargetTyped, DeletedTyped, LoadedTyped
     DEF ActionStep
<1>2. ctl \in [Client -> Waiting] /\ req \in [Caller -> Calls \cup {NoReq}]
      /\ "action" \in Client /\ "action" \in Caller
  BY DEF CallInv, Typed, TypeOK, Waiting, Client, Caller
<1>3. pick' = pick /\ applied' = applied
  BY DEF ActionResumed, ActionStep, Loaded, ActionRefused, Created, Updated, NextTarget,
     Deleted, Restored, Purged
<1>4. ASSUME EndAct, req' = [req EXCEPT !["action"] = NoReq]
      PROVE  CallInv'
  <2>1. /\ \A o \in Client : o # "action" => ctl'[o] = ctl[o]
        /\ \A o \in Caller : o # "action" => req'[o] = req[o]
        /\ req'["action"] = NoReq /\ ctl'["action"] = "idle"
        /\ act'.kind = "none" /\ act'.todo = << >>
    BY <1>2, <1>4, NoActIsAct DEF EndAct
  <2>2. ActionIsCurrent'
    BY <2>1 DEF ActionIsCurrent, Subtree
  <2> QED BY <1>1, <1>3, <2>1, <2>2, ActionStepKeeps
<1>5. ASSUME NEW q \in Calls, Send(q), q # NoReq, ~q.ok, q.op \in OpsOf("action"),
             CallFits(q)', act'.kind # "none", act'.doc \in Doc,
             act'.kind \notin Subtree => act'.todo = << >>
      PROVE  CallInv'
  <2>1. /\ \A o \in Client : o # "action" => ctl'[o] = ctl[o]
        /\ \A o \in Caller : o # "action" => req'[o] = req[o]
        /\ req'["action"] = q /\ ctl'["action"] = "busy"
    BY <1>2, <1>5 DEF Send
  <2>2. ActionIsCurrent'
    BY <1>5, <2>1 DEF ActionIsCurrent, CallFits
  <2> QED BY <1>1, <1>3, <1>5, <2>1, <2>2, ActionStepKeeps
<1>6. CASE ActionResumed
  <2>1. ctl["action"] = "resumed" /\ req["action"] = NoReq
    BY <1>6 DEF ActionResumed, Consume, CallInv, ActionIsCurrent
  <2>2. CASE EndAct /\ UNCHANGED req
    <3>1. req' = [req EXCEPT !["action"] = NoReq]
      BY <1>2, <2>1, <2>2
    <3> QED BY <1>4, <2>2, <3>1
  <2>3. CASE Send(FirstCall) /\ UNCHANGED act
    <3>1. /\ FirstCall \in Calls /\ FirstCall # NoReq /\ ~FirstCall.ok
          /\ FirstCall.op \in OpsOf("action") /\ CallFits(FirstCall)
      BY <2>1, FirstCallFits
    <3>2. PICK q \in Calls : Send(q) /\ q # NoReq /\ ~q.ok /\ q.op \in OpsOf("action") /\ CallFits(q)
      BY <2>3, <3>1
    <3>3. /\ act.kind # "none" /\ act.doc \in Doc
          /\ act.kind \notin Subtree => act.todo = << >>
      BY <2>1 DEF CallInv, ActionIsCurrent
    <3>4. CallFits(q)'
      BY <2>3, <3>2 DEF CallFits
    <3> QED BY <1>5, <2>3, <3>2, <3>3, <3>4
  <2> QED BY <1>6, <2>2, <2>3 DEF ActionResumed
<1>7. CASE ActionRefused \/ Created \/ Updated \/ Restored \/ Purged
  BY <1>4, <1>7 DEF ActionRefused, Created, Updated, Restored, Purged
<1>8. CASE Loaded("action")
  <2>1. EndAct /\ req' = [req EXCEPT !["action"] = NoReq]
    BY <1>8 DEF Loaded, EndAct
  <2> QED BY <1>4, <2>1
<1>9. CASE NextTarget
  <2>1. PICK q \in Calls :
              /\ Send(q) /\ q # NoReq /\ q.at = "sent" /\ ~q.ok
              /\ q.op = act.kind /\ act.kind \in Subtree
              /\ Tail(act.todo) # << >> /\ q.doc = Head(Tail(act.todo)).doc
              /\ act' = [act EXCEPT !.todo = Tail(act.todo), !.row = act'.row]
    BY <1>9, NextTargetFits
  <2>2. act'.kind = act.kind /\ act'.doc = act.doc /\ act'.todo = Tail(act.todo)
    BY <2>1 DEF CallInv, Typed, Acts
  <2>3. CallFits(q)'
    BY <2>1, <2>2 DEF CallFits
  <2>4. act.kind # "none" /\ act.doc \in Doc /\ q.op \in OpsOf("action")
    BY <2>1 DEF CallInv, ActionIsCurrent, Subtree, OpsOf
  <2> QED BY <1>5, <2>1, <2>2, <2>3, <2>4
<1>10. CASE Deleted
  <2>1. CASE EndAct /\ req' = [req EXCEPT !["action"] = NoReq]
    BY <1>4, <2>1
  <2>2. ASSUME NEW q \in Calls, Send(q), q # NoReq, ~q.ok, q.op \in {"get", "create"},
               act' = [act EXCEPT !.todo = << >>]
        PROVE  CallInv'
    <3>1. act'.kind = act.kind /\ act'.doc = act.doc /\ act'.todo = << >>
          /\ act.kind = "delete"
      BY <1>10, <2>2 DEF CallInv, Typed, Acts, Deleted
    <3>2. CallFits(q)' /\ q.op \in OpsOf("action")
      BY <2>2, <3>1 DEF CallFits, Subtree, OpsOf
    <3>3. act.doc \in Doc
      BY <3>1 DEF CallInv, ActionIsCurrent
    <3> QED BY <1>5, <2>2, <3>1, <3>2, <3>3
  <2> QED BY <1>10, <2>1, <2>2, DeletedFits
<1> QED BY <1>6, <1>7, <1>8, <1>9, <1>10 DEF ActionStep

-----------------------------------------------------------------------------
\* Every call is its caller's, and the action's call the one it is at.
LEMMA CallInvIsKept == ASSUME CallInv, [Next]_vars PROVE CallInv'
<1>1. CASE UNCHANGED vars
  BY <1>1 DEF vars, editor, save, bounds, CallInv, Typed, TypeOK, CallsAreTheirs,
     ActionIsCurrent, CallFits, DocumentsAreKnown
<1>2. CASE User
  BY <1>2, EditorKeepsCalls, SimpleActionsBegin, DeleteBegins, SubtreeActionsBegin,
     BeginKeepsCalls, ReaderKeepsCalls, PatchKeepsCalls DEF User
<1>3. CASE Fault \/ Store
  BY <1>3, DatabaseKeepsCalls, EditorKeepsCalls DEF Fault, Store
<1>4. CASE FlushNow \/ SaveAnswered \/ Resumed
  BY <1>4, EditorKeepsCalls, ReaderKeepsCalls, ActionStepKeepsCalls DEF Resumed
<1>5. CASE Loaded("select") \/ ActionStep \/ PropertiesAnswered \/ PatchStep
  BY <1>5, ReaderKeepsCalls, ActionStepKeepsCalls, PatchKeepsCalls DEF PatchStep
<1> QED BY <1>1, <1>2, <1>3, <1>4, <1>5 DEF Next

-----------------------------------------------------------------------------
(* Text.  What a call carries into the store, and what was read for it,     *)
(* belongs to the document the call names.                                  *)

WithText == {"save", "create", "patch", "rollback"}

OwnText(q) ==
    /\ q.op \in WithText => q.text.of = q.doc
    /\ q.ok => q.got.text.of = q.doc

TextInv ==
    /\ text.of = cur
    /\ TextStaysInItsDocument
    /\ \A c \in Caller : req[c] # NoReq => OwnText(req[c])
    /\ applied.doc # NoDoc => applied.before.of = applied.doc
    /\ act.kind = "restore" /\ act.todo # << >> /\ Head(act.todo).doc # act.doc
         => act.row.text.of = act.doc

LEMMA TextInvHolds == Init => TextInv
BY Bodies, NoActIsAct
   DEF Init, TextInv, TextStaysInItsDocument, RowOf, Row, NoApplied, Untouched

\* A row that accepts a write keeps text of its own.
LEMMA WrittenIsOwn ==
    ASSUME Typed, TextStaysInItsDocument, NEW q \in Calls, OwnText(q), Accepts(q),
           q.op # "get"
    PROVE  Written(q).text.of = q.doc
<1> DEFINE old == store[q.doc]
<1>1. /\ old \in Rows /\ old.text.of = q.doc /\ q.op \in Ops /\ q.doc \in Doc
  BY DEF Typed, TypeOK, TextStaysInItsDocument, Calls
<1> HIDE DEF old
<1>2. CASE q.op \in {"save", "create"}
  BY <1>2 DEF Written, Row, OwnText, WithText
<1>3. CASE q.op = "purge"
  BY <1>1, <1>3, Bodies DEF Written, RowOf, Row
<1>4. CASE q.op \in {"title", "update", "delete", "restore"}
  BY <1>1, <1>4 DEF Written, Rows, old
<1>5. CASE q.op \in {"patch", "rollback"}
  BY <1>1, <1>5 DEF Written, Rows, OwnText, WithText, old
<1> QED BY <1>1, <1>2, <1>3, <1>4, <1>5 DEF Ops

\* What the editor shows and what the journal and the action keep, when the
\* calls keep text of their own.
LEMMA TextAside ==
    ASSUME TextInv, text'.of = cur', UNCHANGED <<store, applied>>,
           act' = act \/ act'.kind # "restore" \/ act'.todo = << >>
             \/ Head(act'.todo).doc = act'.doc,
           \A c \in Caller : req'[c] = req[c] \/ req'[c] = NoReq \/ OwnText(req'[c])
    PROVE  TextInv'
BY DEF TextInv, TextStaysInItsDocument, OwnText

\* The calls that carry no text of the editor and have read nothing yet.
LEMMA PlainCallIsOwn ==
    ASSUME NEW q, ~q.ok, q.op \notin WithText \/ q.text.of = q.doc
    PROVE  OwnText(q)
BY DEF OwnText

LEMMA DatabaseKeepsText ==
    ASSUME CallInv, TextInv, NEW c \in Caller, Commit(c) \/ Reread(c) \/ Fail(c)
    PROVE  TextInv'
<1>1. req[c] # NoReq /\ req[c] \in Calls /\ OwnText(req[c]) /\ req[c].doc \in Doc
      /\ req \in [Caller -> Calls \cup {NoReq}]
  BY SomethingIsAsked, RequestIs DEF Commit, Reread, Fail, CallInv, TextInv, Typed
<1>2. UNCHANGED <<text, cur, act>>
  BY DEF Commit, Reread, Fail, editor
<1>3. \A o \in Caller : o # c => req'[o] = req[o]
  BY <1>1 DEF Commit, Reread, Fail
<1>4. CASE Commit(c) /\ Accepts(req[c])
  <2> DEFINE q == req[c]
  <2>1. q.op # "get" /\ q \in Calls /\ OwnText(q) /\ q.doc \in Doc /\ ~q.ok
    BY <1>1, <1>4 DEF Commit, CallInv, CallsAreTheirs
  <2>2. Written(q).text.of = q.doc
    BY <1>4, <2>1, WrittenIsOwn DEF CallInv, TextInv
  <2>3. store' = [store EXCEPT ![q.doc] = Written(q)]
    BY <1>4 DEF Commit
  <2>4. TextStaysInItsDocument'
    BY <2>1, <2>2, <2>3 DEF TextInv, TextStaysInItsDocument, CallInv, Typed, TypeOK
  <2>5. req'[c] = [q EXCEPT !.at = "written"]
    BY <1>1, <1>4 DEF Commit
  <2>6. OwnText(req'[c])
    BY <2>1, <2>5 DEF OwnText, Calls
  <2>7. applied'.doc # NoDoc => applied'.before.of = applied'.doc
    <3>1. CASE q.op = "patch"
      BY <1>4, <2>1, <3>1 DEF Commit, TextInv, TextStaysInItsDocument
    <3>2. CASE q.op # "patch"
      BY <1>4, <3>2 DEF Commit, TextInv
    <3> QED BY <3>1, <3>2
  <2> QED BY <1>2, <1>3, <2>4, <2>6, <2>7 DEF TextInv, OwnText
<1>5. CASE Commit(c) /\ ~Accepts(req[c])
  <2>1. OwnText(req'[c]) /\ UNCHANGED <<store, applied>>
    BY <1>1, <1>5 DEF Commit, OwnText, Calls
  <2> QED BY <1>2, <1>3, <2>1, TextAside DEF TextInv
<1>6. CASE Reread(c)
  <2>1. req' = [req EXCEPT ![c] = [req[c] EXCEPT !.at = "answered",
                       !.ok = req[c].op # "get" \/ store[req[c].doc].st = "active",
                       !.got = store[req[c].doc]]]
    BY <1>1, <1>6 DEF Reread
  <2>2. OwnText(req'[c]) /\ UNCHANGED <<store, applied>>
    BY <1>1, <1>6, <2>1 DEF Reread, OwnText, Calls, TextInv, TextStaysInItsDocument
  <2> QED BY <1>2, <1>3, <2>2, TextAside DEF TextInv
<1>7. CASE Fail(c)
  <2>1. req' = [req EXCEPT ![c] = [req[c] EXCEPT !.at = "answered", !.ok = FALSE]]
    BY <1>1, <1>7 DEF Fail
  <2>2. OwnText(req'[c]) /\ UNCHANGED <<store, applied>>
    BY <1>1, <1>7, <2>1 DEF Fail, OwnText, Calls
  <2> QED BY <1>2, <1>3, <2>2, TextAside DEF TextInv
<1> QED BY <1>4, <1>5, <1>6, <1>7

LEMMA AgentKeepsText ==
    ASSUME CallInv, TextInv, NEW d \in Doc, AgentWrite(d)
    PROVE  TextInv'
<1>1. AgentText(d).of = d
  BY Bodies
<1>2. store' = [store EXCEPT ![d] = [store[d] EXCEPT !.text = AgentText(d), !.rev = @ + 1]]
  BY DEF AgentWrite, CallInv, Typed, TypeOK
<1>3. store \in [Doc -> Rows] /\ store[d] \in Rows
  BY DEF CallInv, Typed, TypeOK
<1>4. [store[d] EXCEPT !.text = AgentText(d), !.rev = @ + 1].text = AgentText(d)
  BY <1>3 DEF Rows
<1>5. TextStaysInItsDocument'
  BY <1>1, <1>2, <1>3, <1>4 DEF TextInv, TextStaysInItsDocument
<1> QED BY <1>5 DEF AgentWrite, TextInv, OwnText, editor

\* A save takes the text, the id and the revision of the open document at once.
LEMMA SaveIsOwn ==
    ASSUME CallInv, TextInv
    PROVE  OwnText(SaveCall)
BY SaveCallIsCall DEF CallInv, TextInv, OwnText

LEMMA EditorKeepsText ==
    ASSUME CallInv, TextInv,
           \/ \E f \in {"text", "title"} : Edit(f)
           \/ FlushNow \/ SaveAnswered \/ CloseRequested \/ CloseResumed
    PROVE  TextInv'
<1>1. req \in [Caller -> Calls \cup {NoReq}]
  BY DEF CallInv, Typed
<1>2. OwnText(SaveCall)
  BY SaveIsOwn
<1>3. SUFFICES /\ text'.of = cur' /\ UNCHANGED <<store, applied, act>>
               /\ \A c \in Caller : req'[c] = req[c] \/ req'[c] = NoReq \/ OwnText(req'[c])
  BY TextAside
<1>4. CASE \E f \in {"text", "title"} : Edit(f)
  BY <1>4 DEF Edit, TextInv
<1>5. CASE FlushNow
  BY <1>1, <1>2, <1>5 DEF FlushNow, TextInv, editor
<1>6. CASE SaveFailed
  BY <1>1, <1>6 DEF SaveFailed, TextInv, editor
<1>7. CASE SaveConfirmed
  BY <1>1, <1>7 DEF SaveConfirmed, TextInv
<1>8. CASE SaveOvertaken
  <2> DEFINE q == Call("save", cur, rev', text, title)
  <2>1. ~q.ok /\ q.text.of = q.doc
    BY DEF Call, TextInv
  <2>2. OwnText(q)
    BY <2>1, PlainCallIsOwn
  <2>3. req' = [req EXCEPT !["save"] = q]
    BY <1>8 DEF SaveOvertaken
  <2> HIDE DEF q
  <2>4. \A c \in Caller : req'[c] = req[c] \/ OwnText(req'[c])
    BY <1>1, <2>2, <2>3
  <2> QED BY <1>8, <2>4 DEF SaveOvertaken, TextInv
<1>9. CASE CloseRequested
  <2>1. CASE ~dirty
    BY <1>9, <2>1 DEF CloseRequested, TextInv, editor
  <2>2. CASE dirty
    <3>1. JoinFlush("close") /\ "close" \in Client
      BY <1>9, <2>2 DEF CloseRequested, Client
    <3>2. /\ UNCHANGED <<cur, text>>
          /\ \A o \in Caller : o # "save" => req'[o] = req[o]
          /\ req'["save"] # NoReq => req'["save"] = req["save"] \/ req'["save"] = SaveCall
      BY <3>1, JoinFlushKeeps
    <3> QED BY <1>2, <1>9, <3>2 DEF CloseRequested, TextInv
  <2> QED BY <2>1, <2>2
<1>10. CASE CloseResumed
  BY <1>10 DEF CloseResumed, TextInv, editor
<1> QED BY <1>4, <1>5, <1>6, <1>7, <1>8, <1>9, <1>10 DEF SaveAnswered

LEMMA JoinKeepsText ==
    ASSUME CallInv, TextInv, NEW c \in Client, JoinFlush(c), UNCHANGED <<store, applied>>,
           act' = act \/ act'.kind # "restore" \/ act'.todo = << >>
             \/ Head(act'.todo).doc = act'.doc
    PROVE  TextInv'
<1>1. /\ UNCHANGED <<cur, text>>
      /\ \A o \in Caller : o # "save" => req'[o] = req[o]
      /\ req'["save"] # NoReq => req'["save"] = req["save"] \/ req'["save"] = SaveCall
  BY JoinFlushKeeps
<1>2. \A o \in Caller : req'[o] = req[o] \/ req'[o] = NoReq \/ OwnText(req'[o])
  BY <1>1, SaveIsOwn
<1>3. text'.of = cur'
  BY <1>1 DEF TextInv
<1> QED BY <1>2, <1>3, TextAside

\* The row that is shown is the row of the document that is shown.
LEMMA ShownIsOwn ==
    ASSUME NEW d, NEW row, Show(d, row), row.text.of = d
    PROVE  text'.of = cur'
BY DEF Show

LEMMA ReaderKeepsText ==
    ASSUME CallInv, TextInv,
           \/ \E d \in Doc : Select(d) \/ Properties(d)
           \/ SelectResumed \/ Loaded("select") \/ PropertiesResumed \/ PropertiesAnswered
    PROVE  TextInv'
<1>1. /\ req \in [Caller -> Calls \cup {NoReq}]
      /\ {"select", "props"} \subseteq Client /\ {"select", "props"} \subseteq Caller
  BY DEF CallInv, Typed, Client, Caller
<1>2. CASE \E d \in Doc : Select(d) \/ Properties(d)
  <2>1. \E c \in {"select", "props"} : JoinFlush(c)
    BY <1>2 DEF Select, Properties
  <2>2. UNCHANGED <<store, applied, act>>
    BY <1>2 DEF Select, Properties
  <2> QED BY <1>1, <2>1, <2>2, JoinKeepsText
<1>3. SUFFICES ASSUME SelectResumed \/ Loaded("select") \/ PropertiesResumed \/ PropertiesAnswered
               PROVE  /\ text'.of = cur' /\ UNCHANGED <<store, applied, act>>
                      /\ \A c \in Caller :
                            req'[c] = req[c] \/ req'[c] = NoReq \/ OwnText(req'[c])
  BY <1>2, TextAside
<1>4. \A d, r : OwnText(Call("get", d, 0, NoText, NoText)) /\ OwnText(Call("update", d, r, NoText, NoText))
  BY DEF OwnText, WithText, Call
<1>5. CASE SelectResumed
  BY <1>1, <1>4, <1>5 DEF SelectResumed, TextInv, editor
<1>6. CASE PropertiesResumed
  BY <1>1, <1>4, <1>6 DEF PropertiesResumed, TextInv, editor
<1>7. CASE PropertiesAnswered
  BY <1>1, <1>7 DEF PropertiesAnswered, TextInv
<1>8. CASE Loaded("select")
  <2>1. UNCHANGED <<store, applied, act>> /\ req' = [req EXCEPT !["select"] = NoReq]
    BY <1>8 DEF Loaded
  <2>2. req["select"] # NoReq
    BY <1>8, SomethingIsAsked DEF Loaded, Answered
  <2>3. text'.of = cur'
    <3>1. CASE req["select"].ok
      <4>1. Show(req["select"].doc, req["select"].got)
        BY <1>8, <3>1 DEF Loaded
      <4>2. req["select"].got.text.of = req["select"].doc
        BY <1>1, <2>2, <3>1 DEF TextInv, OwnText
      <4> QED BY <4>1, <4>2, ShownIsOwn
    <3>2. CASE ~req["select"].ok
      BY <1>8, <3>2 DEF Loaded, TextInv, editor
    <3> QED BY <3>1, <3>2
  <2> QED BY <1>1, <2>1, <2>3
<1> QED BY <1>3, <1>5, <1>6, <1>7, <1>8

LEMMA PatchKeepsText ==
    ASSUME CallInv, TextInv,
           \/ \E d \in Doc : ApplyPatch(d)
           \/ Rollback \/ PatchSnapshot \/ PatchWritten
    PROVE  TextInv'
<1>1. req \in [Caller -> Calls \cup {NoReq}] /\ "patch" \in Caller
  BY DEF CallInv, Typed, Caller
<1>2. \A c \in Caller : c # "patch" => req'[c] = req[c]
  BY <1>1 DEF ApplyPatch, Rollback, PatchSnapshot, PatchWritten
<1>3. CASE \E d \in Doc : ApplyPatch(d)
  <2>1. OwnText(req'["patch"])
    BY <1>1, <1>3 DEF ApplyPatch, OwnText, WithText, Call
  <2> QED BY <1>2, <1>3, <2>1, TextAside DEF ApplyPatch, TextInv, editor
<1>4. CASE Rollback
  <2>1. applied.doc \in Doc /\ applied.before.of = applied.doc
    BY <1>4 DEF Rollback, CallInv, DocumentsAreKnown, TextInv
  <2>2. OwnText(req'["patch"])
    BY <1>1, <1>4, <2>1 DEF Rollback, OwnText, WithText, Call
  <2> QED BY <1>2, <1>4, <2>2, TextAside DEF Rollback, TextInv, editor
<1>5. CASE PatchSnapshot
  <2> DEFINE d == req["patch"].doc
  <2>1. d \in Doc
    BY <1>1, <1>5, SomethingIsAsked, RequestIs DEF PatchSnapshot, Answered, CallInv
  <2>2. AgentText(d).of = d
    BY <2>1, Bodies
  <2>3. OwnText(Call("patch", d, req["patch"].got.rev, AgentText(d), NoText))
    BY <2>2 DEF OwnText, Call
  <2>4. req'["patch"] = NoReq \/ OwnText(req'["patch"])
    BY <1>1, <1>5, <2>3 DEF PatchSnapshot
  <2> QED BY <1>2, <1>5, <2>4, TextAside DEF PatchSnapshot, TextInv, editor
<1>6. CASE PatchWritten
  <2> DEFINE q == req["patch"]
  <2>1. q # NoReq /\ OwnText(q) /\ q.doc \in Doc
    BY <1>1, <1>6, SomethingIsAsked, RequestIs DEF PatchWritten, Answered, CallInv, TextInv
  <2>2. text'.of = cur'
    <3>1. CASE q.ok /\ q.doc = cur
      BY <1>6, <2>1, <3>1 DEF PatchWritten, OwnText
    <3>2. CASE ~(q.ok /\ q.doc = cur)
      BY <1>6, <3>2 DEF PatchWritten, TextInv, editor
    <3> QED BY <3>1, <3>2
  <2>3. applied'.doc # NoDoc => applied'.before.of = applied'.doc
    <3>1. \/ applied' = applied \/ applied' = NoApplied
          \/ applied' = [applied EXCEPT !.known = TRUE]
      BY <1>6 DEF PatchWritten
    <3> QED BY <3>1 DEF TextInv, NoApplied, CallInv, Typed
  <2>4. UNCHANGED <<store, act>> /\ req'["patch"] = NoReq
    BY <1>1, <1>6 DEF PatchWritten
  <2> QED BY <1>2, <2>2, <2>3, <2>4 DEF TextInv, TextStaysInItsDocument
<1> QED BY <1>3, <1>4, <1>5, <1>6

LEMMA ActionKeepsText ==
    ASSUME CallInv, TextInv, Begins \/ ActionResumed \/ ActionStep
    PROVE  TextInv'
<1>1. req \in [Caller -> Calls \cup {NoReq}] /\ "action" \in Caller /\ "action" \in Client
  BY DEF CallInv, Typed, Caller, Client
<1>2. CASE Begins
  <2>1. PICK a \in Acts, needsFlush \in BOOLEAN : Begin(a, needsFlush) /\ Planned(a)
    BY <1>2 DEF Begins
  <2>2. /\ act' = a /\ UNCHANGED <<store, applied>>
        /\ a.kind = "restore" => Head(a.todo).doc = a.doc
    BY <2>1 DEF Begin, Planned
  <2>3. CASE needsFlush
    BY <1>1, <2>1, <2>2, <2>3, JoinKeepsText DEF Begin
  <2>4. CASE ~needsFlush
    BY <2>1, <2>2, <2>4, TextAside DEF Begin, TextInv, editor
  <2> QED BY <2>3, <2>4
<1>3. CASE ActionResumed
  <2>1. UNCHANGED <<store, applied, cur, text>>
    BY <1>3 DEF ActionResumed, editor
  <2>2. CASE EndAct /\ UNCHANGED req
    BY <2>1, <2>2, NoActIsAct, TextAside DEF EndAct, TextInv
  <2>3. CASE Send(FirstCall) /\ UNCHANGED act
    <3>1. ctl["action"] = "resumed" /\ act.kind \in Kinds /\ act.kind # "none" /\ act.doc \in Doc
      BY <1>3 DEF ActionResumed, Consume, CallInv, ActionIsCurrent, Typed, Acts
    <3>2. OwnText(FirstCall)
      BY <3>1, Bodies DEF FirstCall, OwnText, WithText, Call, Kinds, Subtree
    <3> QED BY <1>1, <2>1, <2>3, <3>2, TextAside DEF Send, TextInv
  <2> QED BY <1>3, <2>2, <2>3 DEF ActionResumed
<1> DEFINE q == req["action"]
<1>4. q # NoReq => OwnText(q)
  BY <1>1 DEF TextInv
<1>5. ASSUME EndAct, req' = [req EXCEPT !["action"] = NoReq], UNCHANGED <<store, applied>>,
             text'.of = cur'
      PROVE  TextInv'
  <2>1. act' = NoAct /\ \A c \in Caller : req'[c] = req[c] \/ req'[c] = NoReq
    BY <1>1, <1>5 DEF EndAct
  <2> QED BY <1>5, <2>1, NoActIsAct, TextAside
<1>6. CASE Loaded("action")
  <2>1. /\ EndAct /\ req' = [req EXCEPT !["action"] = NoReq] /\ UNCHANGED <<store, applied>>
        /\ q # NoReq
    BY <1>6, SomethingIsAsked DEF Loaded, EndAct, Answered
  <2>2. CASE q.ok
    <3>1. Show(q.doc, q.got)
      BY <1>6, <2>2 DEF Loaded
    <3> QED BY <1>4, <1>5, <2>1, <2>2, <3>1, ShownIsOwn DEF OwnText
  <2>3. CASE ~q.ok
    <3>1. UNCHANGED <<text, cur>>
      BY <1>6, <2>3 DEF Loaded, editor
    <3> QED BY <1>5, <2>1, <3>1 DEF TextInv
  <2> QED BY <2>2, <2>3
<1>7. CASE ActionRefused \/ Updated \/ Purged
  <2>1. UNCHANGED <<text, cur>>
    BY <1>7 DEF ActionRefused, Updated, Purged, editor
  <2>2. EndAct /\ req' = [req EXCEPT !["action"] = NoReq] /\ UNCHANGED <<store, applied>>
    BY <1>7 DEF ActionRefused, Updated, Purged
  <2> QED BY <1>5, <2>1, <2>2 DEF TextInv
<1>8. CASE Created
  <2>1. Show(q.doc, q.got) /\ q.ok /\ q # NoReq
    BY <1>8, ActionAsks DEF Created
  <2>2. EndAct /\ req' = [req EXCEPT !["action"] = NoReq] /\ UNCHANGED <<store, applied>>
    BY <1>8 DEF Created
  <2> QED BY <1>4, <1>5, <2>1, <2>2, ShownIsOwn DEF OwnText
<1>9. CASE Restored
  <2> DEFINE row == IF q.doc = act.doc THEN q.got ELSE act.row
  <2>1. q.ok /\ q # NoReq /\ act.kind = "restore" /\ Len(act.todo) = 1 /\ CallFits(q)
    BY <1>9, ActionAsks DEF Restored, LastTarget
  <2>2. act.todo # << >>
    <3>1. SUFFICES ASSUME act.todo = << >> PROVE FALSE
      OBVIOUS
    <3>2. Len(act.todo) = Len(<< >>)
      BY <3>1, Zenon
    <3>3. Len(<< >>) = 0
      OBVIOUS
    <3>4. Len(act.todo) = 1
      BY <1>9 DEF Restored, LastTarget
    <3> QED BY <3>2, <3>3, <3>4
  <2>3. q.doc = Head(act.todo).doc
    BY <2>1, <2>2 DEF CallFits
  <2>4. row.text.of = act.doc
    BY <1>4, <2>1, <2>2, <2>3 DEF OwnText, TextInv
  <2>5. Show(act.doc, row)
    BY <1>9 DEF Restored
  <2>6. EndAct /\ req' = [req EXCEPT !["action"] = NoReq] /\ UNCHANGED <<store, applied>>
    BY <1>9 DEF Restored
  <2> QED BY <1>5, <2>4, <2>5, <2>6, ShownIsOwn
<1>10. CASE NextTarget
  <2>1. PICK p \in Calls :
              /\ Send(p) /\ p # NoReq /\ ~p.ok /\ p.op = act.kind /\ act.kind \in Subtree
              /\ act' = [act EXCEPT !.todo = Tail(act.todo), !.row = act'.row]
              /\ act'.row = IF q.doc = act.doc THEN q.got ELSE act.row
    BY <1>10, NextTargetFits
  <2>2. act'.doc = act.doc /\ act'.kind = act.kind
    BY <2>1 DEF CallInv, Typed, Acts
  <2>3. OwnText(p)
    BY <2>1 DEF OwnText, WithText, Subtree
  <2>4. q.ok /\ q # NoReq /\ CallFits(q) /\ act.todo # << >>
    BY <1>10, <2>1, ActionAsks DEF NextTarget, CallInv, ActionIsCurrent, CallFits
  <2>5. act.kind = "restore" => act'.row.text.of = act.doc
    <3>1. CASE q.doc = act.doc
      BY <1>4, <2>1, <2>4, <3>1 DEF OwnText
    <3>2. CASE q.doc # act.doc
      <4>1. act.kind = "restore" => q.doc = Head(act.todo).doc
        BY <2>4 DEF CallFits
      <4> QED BY <2>1, <2>4, <3>2, <4>1 DEF TextInv
    <3> QED BY <3>1, <3>2
  <2>6. UNCHANGED <<store, applied, text, cur>>
    BY <1>10 DEF NextTarget, editor
  <2>7. req'["action"] = p /\ \A c \in Caller : c # "action" => req'[c] = req[c]
    BY <1>1, <2>1 DEF Send
  <2> QED BY <2>2, <2>3, <2>5, <2>6, <2>7 DEF TextInv, TextStaysInItsDocument, OwnText
<1>11. CASE Deleted
  <2>1. UNCHANGED <<store, applied, text, cur>>
    BY <1>11 DEF Deleted, editor
  <2>2. CASE EndAct /\ req' = [req EXCEPT !["action"] = NoReq]
    BY <1>5, <2>1, <2>2 DEF TextInv
  <2>3. ASSUME NEW p \in Calls, Send(p), ~p.ok, p.op \in {"get", "create"},
               p.op = "create" => p.text.of = p.doc, act' = [act EXCEPT !.todo = << >>]
        PROVE  TextInv'
    <3>1. OwnText(p)
      BY <2>3 DEF OwnText, WithText
    <3>2. act'.todo = << >>
      BY <2>3 DEF CallInv, Typed, Acts
    <3>3. \A c \in Caller : req'[c] = req[c] \/ OwnText(req'[c])
      BY <1>1, <2>3, <3>1 DEF Send
    <3> QED BY <2>1, <3>2, <3>3, TextAside DEF TextInv
  <2> QED BY <1>11, <2>2, <2>3, DeletedFits
<1> QED BY <1>2, <1>3, <1>6, <1>7, <1>8, <1>9, <1>10, <1>11 DEF ActionStep

\* What is shown, stored, carried and read stays with its document.
LEMMA TextInvIsKept == ASSUME CallInv, TextInv, [Next]_vars PROVE TextInv'
<1>1. CASE UNCHANGED vars
  BY <1>1 DEF vars, editor, TextInv, TextStaysInItsDocument, OwnText
<1>2. CASE User
  BY <1>2, EditorKeepsText, SimpleActionsBegin, DeleteBegins, SubtreeActionsBegin,
     ActionKeepsText, ReaderKeepsText, PatchKeepsText DEF User
<1>3. CASE Fault \/ Store
  BY <1>3, DatabaseKeepsText, AgentKeepsText DEF Fault, Store
<1>4. CASE FlushNow \/ SaveAnswered \/ Resumed
  BY <1>4, EditorKeepsText, ReaderKeepsText, ActionKeepsText DEF Resumed
<1>5. CASE Loaded("select") \/ ActionStep \/ PropertiesAnswered \/ PatchStep
  BY <1>5, ReaderKeepsText, ActionKeepsText, PatchKeepsText DEF PatchStep
<1> QED BY <1>1, <1>2, <1>3, <1>4, <1>5 DEF Next

-----------------------------------------------------------------------------
(* Unsaved edits.                                                          *)

LEMMA DirtyAside ==
    ASSUME DirtyIsScheduled, UNCHANGED <<dirty, timer, failed>>,
           req["save"].at # "none" => req'["save"].at # "none"
    PROVE  DirtyIsScheduled'
BY DEF DirtyIsScheduled

\* A reset leaves nothing to save.
LEMMA ResetIsScheduled ==
    ASSUME NEW r, ResetSavedState(r)
    PROVE  DirtyIsScheduled'
BY DEF ResetSavedState, DirtyIsScheduled

\* Joining a flush takes the timer away, and leaves a save for what is dirty.
LEMMA JoinIsScheduled ==
    ASSUME CallInv, NEW c \in Client, JoinFlush(c)
    PROVE  DirtyIsScheduled'
<1>1. req \in [Caller -> Calls \cup {NoReq}] /\ "save" \in Caller
  BY DEF CallInv, Typed, Caller
<1>2. dirty' = dirty
  BY JoinFlushKeeps
<1>3. CASE req["save"].at # "none"
  BY <1>3 DEF JoinFlush, DirtyIsScheduled
<1>4. CASE req["save"].at = "none" /\ dirty
  <2>1. req' = [req EXCEPT !["save"] = SaveCall]
    BY <1>4 DEF JoinFlush
  <2>2. SaveCall.at = "sent"
    BY DEF SaveCall, Call
  <2> QED BY <1>1, <2>1, <2>2 DEF DirtyIsScheduled
<1>5. CASE req["save"].at = "none" /\ ~dirty
  BY <1>2, <1>5 DEF DirtyIsScheduled
<1> QED BY <1>3, <1>4, <1>5

LEMMA SaveStaysScheduled ==
    ASSUME CallInv, DirtyIsScheduled,
           \/ \E f \in {"text", "title"} : Edit(f)
           \/ FlushNow \/ SaveAnswered \/ CloseRequested \/ CloseResumed
           \/ Fault \/ Store
    PROVE  DirtyIsScheduled'
<1>1. req \in [Caller -> Calls \cup {NoReq}] /\ "save" \in Caller
  BY DEF CallInv, Typed, Caller
<1>2. CASE \E f \in {"text", "title"} : Edit(f)
  BY <1>2 DEF Edit, DirtyIsScheduled
<1>3. CASE FlushNow
  <2>1. SaveCall.at = "sent"
    BY DEF SaveCall, Call
  <2>2. CASE req["save"].at = "none" /\ dirty
    BY <1>1, <1>3, <2>1, <2>2 DEF FlushNow, DirtyIsScheduled
  <2>3. CASE ~(req["save"].at = "none" /\ dirty)
    BY <1>3, <2>3 DEF FlushNow, DirtyIsScheduled
  <2> QED BY <2>2, <2>3
<1>4. CASE SaveAnswered
  BY <1>4 DEF SaveAnswered, SaveFailed, SaveConfirmed, SaveOvertaken, DirtyIsScheduled
<1>5. CASE CloseRequested
  <2>1. CASE ~dirty
    BY <1>5, <2>1, DirtyAside DEF CloseRequested, save
  <2>2. CASE dirty
    BY <1>5, <2>2, JoinIsScheduled DEF CloseRequested, Client
  <2> QED BY <2>1, <2>2
<1>6. CASE CloseResumed
  BY <1>6, DirtyAside DEF CloseResumed, save
<1>7. CASE \E d \in Doc : AgentWrite(d)
  BY <1>7, DirtyAside DEF AgentWrite, save
<1>8. ASSUME NEW c \in Caller, Commit(c) \/ Reread(c) \/ Fail(c) PROVE DirtyIsScheduled'
  <2>1. UNCHANGED <<dirty, timer, failed>>
    BY <1>8 DEF Commit, Reread, Fail, save
  <2>2. req[c] \in Calls /\ \A o \in Caller : o # c => req'[o] = req[o]
    BY <1>1, <1>8, SomethingIsAsked, RequestIs DEF Commit, Reread, Fail, CallInv
  <2>3. req'[c].at \in {"written", "answered"}
    BY <1>1, <1>8, <2>2 DEF Commit, Reread, Fail, Calls
  <2> QED BY <1>1, <2>1, <2>2, <2>3, DirtyAside
<1> QED BY <1>2, <1>3, <1>4, <1>5, <1>6, <1>7, <1>8 DEF Fault, Store

LEMMA ActionsStayScheduled ==
    ASSUME CallInv, DirtyIsScheduled,
           Begins \/ ActionResumed \/ ActionStep
    PROVE  DirtyIsScheduled'
<1>1. req \in [Caller -> Calls \cup {NoReq}] /\ "action" \in Client
  BY DEF CallInv, Typed, Client, Caller
<1>2. CASE Begins
  <2>1. PICK a \in Acts, needsFlush \in BOOLEAN : Begin(a, needsFlush)
    BY <1>2 DEF Begins
  <2>2. CASE needsFlush
    BY <1>1, <2>1, <2>2, JoinIsScheduled DEF Begin
  <2>3. CASE ~needsFlush
    BY <2>1, <2>3, DirtyAside DEF Begin, save
  <2> QED BY <2>2, <2>3
<1>3. ActionResumed \/ ActionStep => req'["save"] = req["save"]
  <2>1. ASSUME NEW p, Send(p) PROVE req'["save"] = req["save"]
    BY <1>1, <2>1 DEF Send, Caller
  <2>2. ASSUME NEW p, req' = [req EXCEPT !["action"] = p] PROVE req'["save"] = req["save"]
    BY <1>1, <2>2 DEF Caller
  <2> QED BY <2>1, <2>2 DEF ActionResumed, ActionStep, Loaded, ActionRefused, Created,
          Updated, NextTarget, Deleted, Restored, Purged
<1>4. CASE ActionResumed
  BY <1>3, <1>4, DirtyAside DEF ActionResumed, save
<1>5. CASE Loaded("action")
  <2>1. CASE req["action"].ok
    BY <1>5, <2>1, ResetIsScheduled DEF Loaded, Show
  <2>2. CASE ~req["action"].ok
    BY <1>3, <1>5, <2>2, DirtyAside DEF Loaded, save, ActionStep
  <2> QED BY <2>1, <2>2
<1>6. CASE ActionRefused \/ NextTarget \/ Deleted \/ Purged
  BY <1>3, <1>6, DirtyAside DEF ActionRefused, NextTarget, Deleted, Purged, save, ActionStep
<1>7. CASE Created \/ Restored
  <2>1. \E r : ResetSavedState(r)
    BY <1>7 DEF Created, Restored, Show
  <2> QED BY <2>1, ResetIsScheduled
<1>8. CASE Updated
  <2>1. \/ \E r : ResetSavedState(r)
        \/ KeepSave
    BY <1>8 DEF Updated
  <2> QED BY <1>3, <1>8, <2>1, ResetIsScheduled, DirtyAside DEF KeepSave, save, ActionStep
<1> QED BY <1>2, <1>4, <1>5, <1>6, <1>7, <1>8 DEF ActionStep

LEMMA ReadersStayScheduled ==
    ASSUME CallInv, DirtyIsScheduled,
           \/ \E d \in Doc : Select(d) \/ Properties(d) \/ ApplyPatch(d)
           \/ SelectResumed \/ Loaded("select") \/ PropertiesResumed \/ PropertiesAnswered
           \/ Rollback \/ PatchSnapshot \/ PatchWritten
    PROVE  DirtyIsScheduled'
<1>1. req \in [Caller -> Calls \cup {NoReq}] /\ {"select", "props"} \subseteq Client
  BY DEF CallInv, Typed, Client, Caller
<1>2. CASE \E d \in Doc : Select(d) \/ Properties(d)
  <2>1. JoinFlush("select") \/ JoinFlush("props")
    BY <1>2 DEF Select, Properties
  <2> QED BY <1>1, <2>1, JoinIsScheduled
<1>3. SUFFICES ASSUME \/ \E d \in Doc : ApplyPatch(d)
                      \/ SelectResumed \/ Loaded("select") \/ PropertiesResumed
                      \/ PropertiesAnswered \/ Rollback \/ PatchSnapshot \/ PatchWritten
               PROVE  DirtyIsScheduled'
  BY <1>2
<1>4. req'["save"] = req["save"]
  BY <1>1, <1>3 DEF ApplyPatch, SelectResumed, Loaded, PropertiesResumed, PropertiesAnswered,
     Rollback, PatchSnapshot, PatchWritten, Caller
<1>5. \/ \E r : ResetSavedState(r)
      \/ UNCHANGED <<dirty, timer, failed>>
  BY <1>3 DEF ApplyPatch, SelectResumed, Loaded, PropertiesResumed, PropertiesAnswered,
     Rollback, PatchSnapshot, PatchWritten, Show, KeepSave, save
<1> QED BY <1>4, <1>5, ResetIsScheduled, DirtyAside

\* A timer, a save in flight or the error stays behind unsaved edits.
LEMMA DirtyStaysScheduled ==
    ASSUME CallInv, DirtyIsScheduled, [Next]_vars
    PROVE  DirtyIsScheduled'
<1>1. CASE UNCHANGED vars
  BY <1>1 DEF vars, save, DirtyIsScheduled
<1>2. CASE User
  BY <1>2, SaveStaysScheduled, SimpleActionsBegin, DeleteBegins, SubtreeActionsBegin,
     ActionsStayScheduled, ReadersStayScheduled DEF User
<1>3. CASE Fault \/ Store \/ FlushNow \/ SaveAnswered
  BY <1>3, SaveStaysScheduled
<1>4. CASE Resumed \/ Loaded("select") \/ ActionStep \/ PropertiesAnswered \/ PatchStep
  BY <1>4, SaveStaysScheduled, ActionsStayScheduled, ReadersStayScheduled
     DEF Resumed, PatchStep
<1> QED BY <1>1, <1>2, <1>3, <1>4 DEF Next

-----------------------------------------------------------------------------
(* The trash.  Pages go into it from the bottom up, and come back by a      *)
(* restoration only.                                                       *)

\* While a page is being deleted, what was listed below it is deleted or still
\* to come, and the page itself comes last.
DeletionInv ==
    /\ act.kind = "delete" /\ act.todo # << >> =>
          /\ PlansDeletion(act)
          /\ \A e \in act.below : store[e].st = "active" => PlannedBefore(act, e)
    /\ req["action"] # NoReq /\ req["action"].op = "delete"
          /\ (req["action"].at = "written" \/ req["action"].ok)
       => store[req["action"].doc].st # "active"

LEMMA DeletionInvHolds == Init => DeletionInv
BY NoActIsAct DEF Init, DeletionInv, Caller

\* The database changes the state of a page for a call of the action only.
LEMMA WriteOfAction ==
    ASSUME CallInv, NEW c \in Caller, Commit(c), Accepts(req[c]), NEW d \in Doc
    PROVE  /\ req[c] # NoReq
           /\ d # req[c].doc => store'[d].st = store[d].st
           /\ store[d].st # "active" /\ store'[d].st = "active" =>
                 /\ c = "action"
                 /\ req[c].op = "restore" \/ (req[c].op = "create" /\ store[d].st = "absent")
           /\ store[d].st = "active" /\ store'[d].st # "active" =>
                 c = "action" /\ req[c].op = "delete"
           /\ req[c].op = "delete" => store'[req[c].doc].st # "active"
<1> DEFINE q == req[c]
<1>1. q # NoReq /\ q \in Calls /\ q.doc \in Doc /\ q.op \in Ops /\ q.op \in OpsOf(c)
      /\ q.op # "get"
  BY SomethingIsAsked, RequestIs DEF Commit, CallInv, CallsAreTheirs
<1>2. store' = [store EXCEPT ![q.doc] = Written(q)] /\ store \in [Doc -> Rows]
  BY DEF Commit, CallInv, Typed, TypeOK
<1>3. \A e \in Doc : store'[e] = IF e = q.doc THEN Written(q) ELSE store[e]
  BY <1>2
<1> DEFINE old == store[q.doc]
<1>4. old \in Rows
  BY <1>1, <1>2
<1> HIDE DEF old, q
<1>5. /\ q.op \in {"save", "create"} => Written(q).st = "active"
      /\ q.op \in {"title", "update", "patch", "rollback"} => Written(q).st = old.st
      /\ q.op = "delete" => Written(q).st = "deleted"
      /\ q.op = "restore" => Written(q).st = "active"
      /\ q.op = "purge" => Written(q).st = "absent"
  BY <1>4 DEF Written, Row, RowOf, Rows, old
<1>6. /\ q.op \in {"save", "patch", "rollback"} => old.st = "active"
      /\ q.op = "create" => old.st = "absent"
      /\ q.op = "purge" => old.st = "deleted"
  BY DEF Accepts, old, q
<1>7. q.op \in {"create", "delete", "restore"} => c = "action"
  BY <1>1 DEF OpsOf, Caller
<1>8. CASE d # q.doc
  BY <1>1, <1>3, <1>5, <1>8 DEF q
<1>9. CASE d = q.doc
  <2>1. store'[d] = Written(q) /\ store[d] = old
    BY <1>3, <1>9 DEF old
  <2>2. q.op \in {"save", "create", "title", "update", "delete", "restore", "purge",
                  "patch", "rollback"}
    BY <1>1 DEF Ops
  <2>3. old.st # "active" /\ Written(q).st = "active" =>
           q.op = "restore" \/ q.op = "create"
    BY <1>5, <1>6, <2>2
  <2>4. old.st = "active" /\ Written(q).st # "active" => q.op = "delete"
    BY <1>5, <1>6, <2>2
  <2>5. q.op = "delete" => store'[q.doc].st # "active"
    BY <1>5, <1>9, <2>1
  <2>6. store[d].st # "active" /\ store'[d].st = "active" =>
           /\ c = "action"
           /\ q.op = "restore" \/ (q.op = "create" /\ store[d].st = "absent")
    BY <1>6, <1>7, <2>1, <2>3
  <2>7. store[d].st = "active" /\ store'[d].st # "active" => c = "action" /\ q.op = "delete"
    BY <1>7, <2>1, <2>4
  <2> QED BY <1>1, <1>9, <2>5, <2>6, <2>7 DEF q
<1> QED BY <1>8, <1>9

\* Nothing but a commit and the agent's decision writes the store.
LEMMA StoreIsWritten ==
    ASSUME [Next]_vars
    PROVE  \/ UNCHANGED store
           \/ \E c \in Caller : Commit(c) /\ Accepts(req[c])
           \/ \E d \in Doc : AgentWrite(d)
<1>1. UNCHANGED vars => UNCHANGED store
  BY DEF vars
<1>2. User => UNCHANGED store
  BY DEF User, Edit, CloseRequested, CommitTitle, Rollback, Select, Create, Delete, Restore,
     Purge, Properties, ApplyPatch, Update, Begin
<1>3. FlushNow \/ SaveAnswered \/ Resumed => UNCHANGED store
  BY DEF FlushNow, SaveAnswered, SaveFailed, SaveConfirmed, SaveOvertaken, Resumed,
     CloseResumed, SelectResumed, ActionResumed, PropertiesResumed
<1>4. Loaded("select") \/ ActionStep \/ PropertiesAnswered \/ PatchStep => UNCHANGED store
  BY DEF Loaded, ActionStep, ActionRefused, Created, Updated, NextTarget, Deleted, Restored,
     Purged, PropertiesAnswered, PatchStep, PatchSnapshot, PatchWritten
<1>5. ASSUME NEW c \in Caller, Commit(c), ~Accepts(req[c]) PROVE UNCHANGED store
  BY <1>5 DEF Commit
<1>6. ASSUME NEW c \in Caller, Reread(c) \/ Fail(c) PROVE UNCHANGED store
  BY <1>6 DEF Reread, Fail
<1> QED BY <1>1, <1>2, <1>3, <1>4, <1>5, <1>6 DEF Next, Store, Fault

LEMMA AgentLeavesStates ==
    ASSUME CallInv, NEW d \in Doc, AgentWrite(d), NEW e \in Doc
    PROVE  store'[e].st = store[e].st
<1>1. store \in [Doc -> Rows] /\ store[d] \in Rows
  BY DEF CallInv, Typed, TypeOK
<1>2. store' = [store EXCEPT ![d] = [store[d] EXCEPT !.text = AgentText(d), !.rev = @ + 1]]
  BY DEF AgentWrite, CallInv, Typed, TypeOK
<1>3. [store[d] EXCEPT !.text = AgentText(d), !.rev = @ + 1].st = store[d].st
  BY <1>1 DEF Rows
<1> QED BY <1>1, <1>2, <1>3

LEMMA OnlyRestoreTakesOut ==
    ASSUME CallInv, [Next]_vars, NEW d \in Doc,
           store[d].st = "deleted", store'[d].st = "active"
    PROVE  act.kind = "restore"
<1>1. \E c \in Caller : Commit(c) /\ Accepts(req[c])
  BY StoreIsWritten, AgentLeavesStates
<1>2. PICK c \in Caller : Commit(c) /\ Accepts(req[c])
  BY <1>1
<1>3. c = "action" /\ req["action"] # NoReq /\ req["action"].op = "restore"
  BY <1>2, WriteOfAction
<1> QED BY <1>3 DEF CallInv, ActionIsCurrent, CallFits, Subtree

LEMMA PagesGoFirst ==
    ASSUME CallInv, DeletionInv, [Next]_vars, NEW d \in Doc, NEW e \in Doc,
           store[d].st = "active", store'[d].st = "deleted",
           Parent[e] = d, e \in act.below
    PROVE  store[e].st # "active"
<1>1. \E c \in Caller : Commit(c) /\ Accepts(req[c])
  BY StoreIsWritten, AgentLeavesStates
<1>2. PICK c \in Caller : Commit(c) /\ Accepts(req[c])
  BY <1>1
<1>3. /\ c = "action" /\ req["action"] # NoReq /\ req["action"].op = "delete"
      /\ d = req["action"].doc
  BY <1>2, WriteOfAction
<1>4. act.kind = "delete" /\ act.todo # << >> /\ d = Head(act.todo).doc
  BY <1>3 DEF CallInv, ActionIsCurrent, CallFits, Subtree
<1>5. PlansDeletion(act) /\ (store[e].st = "active" => PlannedBefore(act, e))
  BY <1>4 DEF DeletionInv
<1>6. act.todo \in Seq(Targets) /\ Len(act.todo) \in Nat \ {0}
  BY <1>4, EmptySeq DEF CallInv, Typed, Acts
<1>7. d = act.doc
  BY <1>5 DEF PlansDeletion
<1>8. act.todo[1].doc = act.doc
  BY <1>4, <1>6, <1>7
<1>9. 1 \notin 1..(Len(act.todo) - 1)
  BY <1>5, <1>8 DEF PlansDeletion
<1>10. ~PlannedBefore(act, e)
  BY <1>6, <1>9 DEF PlannedBefore
<1> QED BY <1>5, <1>10

\* No step but a commit of the action makes a page active.
LEMMA DeletionAside ==
    ASSUME CallInv, DeletionInv,
           \A d \in Doc : store'[d].st = "active" => store[d].st = "active",
           act' = act \/ act'.kind # "delete" \/ act'.todo = << >>,
           \/ req'["action"] = req["action"]
           \/ req'["action"] = NoReq
           \/ req'["action"].op # "delete"
           \/ req'["action"].at # "written" /\ ~req'["action"].ok
    PROVE  DeletionInv'
<1>1. act' = act /\ act.kind = "delete" /\ act.todo # << >> =>
         PlansDeletion(act') /\ \A e \in act'.below : store'[e].st = "active" => PlannedBefore(act', e)
  BY DEF DeletionInv, CallInv, Typed, Acts
<1>2. req["action"] # NoReq => req["action"].doc \in Doc
  BY RequestIs DEF CallInv, Caller
<1> QED BY <1>1, <1>2 DEF DeletionInv

LEMMA DatabaseKeepsDeletion ==
    ASSUME CallInv, DeletionInv, NEW c \in Caller, Commit(c) \/ Reread(c) \/ Fail(c)
    PROVE  DeletionInv'
<1>1. req[c] # NoReq /\ req[c] \in Calls /\ req[c].doc \in Doc /\ act' = act
      /\ req \in [Caller -> Calls \cup {NoReq}]
  BY SomethingIsAsked, RequestIs DEF Commit, Reread, Fail, CallInv, Typed
<1>2. \A o \in Caller : o # c => req'[o] = req[o]
  BY <1>1 DEF Commit, Reread, Fail
<1>3. req[c].at # "answered" => ~req[c].ok
  BY <1>1 DEF CallInv, CallsAreTheirs
<1>4. "action" \in Caller
  BY DEF Caller
<1>5. CASE Commit(c) /\ Accepts(req[c])
  <2>1. CASE \E d \in Doc : store[d].st # "active" /\ store'[d].st = "active"
    <3>1. /\ c = "action" /\ req[c].op \in {"create", "restore"}
      BY <1>5, <2>1, WriteOfAction
    <3>2. act.kind # "delete" \/ act.todo = << >>
      BY <1>1, <3>1 DEF CallInv, ActionIsCurrent, CallFits, Subtree
    <3>3. req'[c].op = req[c].op
      BY <1>1, <1>5 DEF Commit, Calls
    <3> QED BY <1>1, <3>1, <3>2, <3>3 DEF DeletionInv
  <2>2. CASE \A d \in Doc : store'[d].st = "active" => store[d].st = "active"
    <3>1. CASE c = "action" /\ req[c].op = "delete"
      <4>1. req'[c].doc = req[c].doc /\ store'[req[c].doc].st # "active"
        BY <1>1, <1>5, <3>1, WriteOfAction DEF Commit, Calls
      <4>2. act.kind = "delete" /\ act.todo # << >> =>
               PlansDeletion(act) /\ \A e \in act.below : store'[e].st = "active" => PlannedBefore(act, e)
        BY <2>2 DEF DeletionInv, CallInv, Typed, Acts
      <4> QED BY <1>1, <3>1, <4>1, <4>2 DEF DeletionInv
    <3>2. CASE c # "action"
      BY <1>1, <1>2, <1>4, <2>2, <3>2, DeletionAside
    <3>3. CASE c = "action" /\ req[c].op # "delete"
      <4>1. req'[c].op = req[c].op
        BY <1>1, <1>5 DEF Commit, Calls
      <4> QED BY <1>1, <2>2, <3>3, <4>1, DeletionAside
    <3> QED BY <3>1, <3>2, <3>3
  <2> QED BY <2>1, <2>2
<1>6. CASE ~(Commit(c) /\ Accepts(req[c]))
  <2>1. store' = store
    BY <1>6 DEF Commit, Reread, Fail
  <2>2. CASE c # "action"
    BY <1>1, <1>2, <1>4, <2>1, <2>2, DeletionAside
  <2>3. CASE c = "action"
    <3>1. req'[c].op = req[c].op /\ req'[c].doc = req[c].doc
      BY <1>1 DEF Commit, Reread, Fail, Calls
    <3>2. CASE Reread(c)
      <4>1. req[c].op = "delete" => req[c].at = "written"
        BY <3>2 DEF Reread
      <4> QED BY <1>1, <2>1, <2>3, <3>1, <4>1 DEF DeletionInv, PlansDeletion, PlannedBefore
    <3>3. CASE Fail(c) \/ Commit(c)
      <4>1. req'[c].at = "answered" /\ ~req'[c].ok
        BY <1>1, <1>3, <1>6, <3>3 DEF Fail, Commit, Calls
      <4> QED BY <1>1, <2>1, <2>3, <4>1, DeletionAside
    <3> QED BY <3>2, <3>3
  <2> QED BY <2>2, <2>3
<1> QED BY <1>5, <1>6

LEMMA OthersKeepDeletion ==
    ASSUME CallInv, DeletionInv,
           \/ \E f \in {"text", "title"} : Edit(f)
           \/ FlushNow \/ SaveAnswered \/ CloseRequested \/ CloseResumed
           \/ \E d \in Doc : AgentWrite(d) \/ Select(d) \/ Properties(d) \/ ApplyPatch(d)
           \/ SelectResumed \/ Loaded("select") \/ PropertiesResumed \/ PropertiesAnswered
           \/ Rollback \/ PatchSnapshot \/ PatchWritten
    PROVE  DeletionInv'
<1>1. req \in [Caller -> Calls \cup {NoReq}] /\ "action" \in Caller
      /\ {"close", "select", "props"} \subseteq Client
  BY DEF CallInv, Typed, Caller, Client
<1>2. act' = act
  BY DEF Edit, FlushNow, SaveAnswered, SaveFailed, SaveConfirmed, SaveOvertaken, CloseRequested,
     CloseResumed, AgentWrite, Select, Properties, ApplyPatch, SelectResumed, Loaded,
     PropertiesResumed, PropertiesAnswered, Rollback, PatchSnapshot, PatchWritten
<1>3. \A d \in Doc : store'[d].st = store[d].st
  <2>1. CASE \E d \in Doc : AgentWrite(d)
    BY <2>1, AgentLeavesStates
  <2>2. CASE ~\E d \in Doc : AgentWrite(d)
    <3>1. UNCHANGED store
      BY <2>2 DEF Edit, FlushNow, SaveAnswered, SaveFailed, SaveConfirmed, SaveOvertaken,
         CloseRequested, CloseResumed, Select, Properties, ApplyPatch, SelectResumed, Loaded,
         PropertiesResumed, PropertiesAnswered, Rollback, PatchSnapshot, PatchWritten
    <3> QED BY <3>1
  <2> QED BY <2>1, <2>2
<1>4. req'["action"] = req["action"]
  <2>1. CASE \E c \in {"close", "select", "props"} : JoinFlush(c)
    BY <1>1, <2>1, JoinFlushKeeps
  <2>2. CASE \E d \in Doc : Select(d) \/ Properties(d)
    BY <2>1, <2>2 DEF Select, Properties
  <2>3. CASE CloseRequested
    BY <2>1, <2>3 DEF CloseRequested
  <2>4. CASE \/ \E f \in {"text", "title"} : Edit(f)
             \/ FlushNow \/ SaveAnswered \/ CloseResumed
             \/ \E d \in Doc : AgentWrite(d) \/ ApplyPatch(d)
             \/ SelectResumed \/ Loaded("select") \/ PropertiesResumed \/ PropertiesAnswered
             \/ Rollback \/ PatchSnapshot \/ PatchWritten
    BY <1>1, <2>4 DEF Edit, FlushNow, SaveAnswered, SaveFailed, SaveConfirmed, SaveOvertaken,
       CloseResumed, AgentWrite, ApplyPatch, SelectResumed, Loaded, PropertiesResumed,
       PropertiesAnswered, Rollback, PatchSnapshot, PatchWritten
  <2> QED BY <2>2, <2>3, <2>4
<1> QED BY <1>2, <1>3, <1>4, DeletionAside

\* Once a target is done, the plan goes on with the targets behind it.
LEMMA PlanGoesOn ==
    ASSUME NEW a, NEW b, a.todo \in Seq(Targets), Len(a.todo) > 1, PlansDeletion(a),
           b.todo = Tail(a.todo), b.doc = a.doc, b.below = a.below
    PROVE  /\ PlansDeletion(b)
           /\ \A e : PlannedBefore(a, e) => e = a.todo[1].doc \/ PlannedBefore(b, e)
<1> DEFINE s == a.todo  t == Tail(s)
<1>1. s \in Seq(Targets) /\ Len(s) \in Nat /\ Len(s) > 1
  BY LenProperties
<1> HIDE DEF s
<1>2. t \in Seq(Targets) /\ Len(t) = Len(s) - 1 /\ \A i \in 1..Len(t) : t[i] = s[i + 1]
  BY <1>1
<1> HIDE DEF t
<1>3. b.todo = t /\ a.todo = s
  BY DEF s, t
<1>4. t[Len(t)] = s[Len(s)]
  <2>1. Len(t) \in 1..Len(t) /\ Len(t) + 1 = Len(s)
    BY <1>1, <1>2
  <2> QED BY <1>2, <2>1
<1>5. \A i \in 1..(Len(t) - 1) : t[i] = s[i + 1] /\ i + 1 \in 1..(Len(s) - 1)
  BY <1>1, <1>2
<1>6. PlansDeletion(b)
  BY <1>3, <1>4, <1>5 DEF PlansDeletion
<1>7. ASSUME NEW e, PlannedBefore(a, e), e # a.todo[1].doc PROVE PlannedBefore(b, e)
  <2>1. PICK i \in 1..(Len(s) - 1) : s[i].doc = e
    BY <1>3, <1>7 DEF PlannedBefore
  <2>2. i # 1
    BY <1>3, <1>7, <2>1
  <2>3. i - 1 \in 1..(Len(t) - 1) /\ i - 1 \in 1..Len(t) /\ (i - 1) + 1 = i
    BY <1>1, <1>2, <2>1, <2>2
  <2>4. t[i - 1] = s[i]
    BY <1>2, <2>3
  <2> QED BY <1>3, <2>1, <2>3, <2>4 DEF PlannedBefore
<1> QED BY <1>6, <1>7

LEMMA ActionsKeepDeletion ==
    ASSUME CallInv, DeletionInv, Begins \/ ActionResumed \/ ActionStep
    PROVE  DeletionInv'
<1>1. req \in [Caller -> Calls \cup {NoReq}] /\ "action" \in Caller /\ "action" \in Client
  BY DEF CallInv, Typed, Caller, Client
<1>2. store' = store
  BY DEF Begins, Begin, ActionResumed, ActionStep, Loaded, ActionRefused, Created, Updated,
     NextTarget, Deleted, Restored, Purged
<1>3. ASSUME EndAct, req'["action"] = NoReq PROVE DeletionInv'
  BY <1>2, <1>3, NoActIsAct, DeletionAside DEF EndAct
<1>4. CASE Begins
  <2>1. PICK a \in Acts, needsFlush \in BOOLEAN : Begin(a, needsFlush) /\ Planned(a)
    BY <1>4 DEF Begins
  <2>2. act' = a /\ req["action"] = NoReq
    BY <2>1 DEF Begin, CallInv, ActionIsCurrent
  <2>3. req'["action"] = req["action"]
    <3>1. CASE needsFlush
      BY <1>1, <2>1, <3>1, JoinFlushKeeps DEF Begin
    <3>2. CASE ~needsFlush
      BY <2>1, <3>2 DEF Begin
    <3> QED BY <3>1, <3>2
  <2>4. a.kind = "delete" => PlansDeletion(a) /\ \A e \in a.below : PlannedBefore(a, e)
    BY <2>1 DEF Planned
  <2> QED BY <2>2, <2>3, <2>4 DEF DeletionInv
<1>5. CASE ActionResumed
  <2>1. req["action"] = NoReq /\ ctl["action"] = "resumed"
    BY <1>5 DEF ActionResumed, Consume, CallInv, ActionIsCurrent
  <2>2. CASE EndAct /\ UNCHANGED req
    BY <1>3, <2>1, <2>2
  <2>3. CASE Send(FirstCall) /\ UNCHANGED act
    <3>1. FirstCall.at = "sent" /\ ~FirstCall.ok /\ req'["action"] = FirstCall
      BY <1>1, <2>1, <2>3, FirstCallFits DEF Send
    <3> QED BY <1>2, <2>3, <3>1, DeletionAside
  <2> QED BY <1>5, <2>2, <2>3 DEF ActionResumed
<1>6. CASE Loaded("action") \/ ActionRefused \/ Created \/ Updated \/ Restored \/ Purged
  <2>1. EndAct /\ req' = [req EXCEPT !["action"] = NoReq]
    BY <1>6 DEF Loaded, ActionRefused, Created, Updated, Restored, Purged, EndAct
  <2> QED BY <1>1, <1>3, <2>1
<1>7. CASE NextTarget
  <2> DEFINE q == req["action"]
  <2>1. PICK p \in Calls :
              /\ Send(p) /\ p.at = "sent" /\ ~p.ok
              /\ act' = [act EXCEPT !.todo = Tail(act.todo), !.row = act'.row]
    BY <1>7, NextTargetFits
  <2>2. /\ act'.doc = act.doc /\ act'.kind = act.kind /\ act'.below = act.below
        /\ act'.todo = Tail(act.todo)
        /\ act.todo \in Seq(Targets) /\ Len(act.todo) > 1
    BY <1>7, <2>1 DEF CallInv, Typed, Acts, NextTarget
  <2>3. req'["action"] = p
    BY <1>1, <2>1 DEF Send
  <2>4. q # NoReq /\ q.ok /\ CallFits(q)
    BY <1>7, ActionAsks DEF NextTarget
  <2>5. SUFFICES ASSUME act.kind = "delete"
                 PROVE  /\ PlansDeletion(act')
                        /\ \A e \in act'.below : store[e].st = "active" => PlannedBefore(act', e)
    BY <1>2, <2>1, <2>2, <2>3 DEF DeletionInv
  <2>6. act.todo # << >>
    BY <1>7, NextTargetFits DEF CallInv, ActionIsCurrent, NextTarget
  <2>7. q.op = "delete" /\ q.doc = Head(act.todo).doc
    BY <2>4, <2>5, <2>6 DEF CallFits, Subtree
  <2>8. store[q.doc].st # "active"
    BY <2>4, <2>7 DEF DeletionInv
  <2>9. Head(act.todo) = act.todo[1]
    BY <2>2
  <2>10. /\ PlansDeletion(act)
         /\ \A e \in act.below : store[e].st = "active" => PlannedBefore(act, e)
    BY <2>5, <2>6 DEF DeletionInv
  <2>11. PICK b : b = act'
    OBVIOUS
  <2>12. /\ PlansDeletion(b)
         /\ \A e : PlannedBefore(act, e) => e = act.todo[1].doc \/ PlannedBefore(b, e)
    BY <2>2, <2>10, <2>11, PlanGoesOn
  <2> QED BY <2>2, <2>7, <2>8, <2>9, <2>10, <2>11, <2>12
<1>8. CASE Deleted
  <2>1. CASE EndAct /\ req' = [req EXCEPT !["action"] = NoReq]
    BY <1>1, <1>3, <2>1
  <2>2. ASSUME NEW p \in Calls, Send(p), p.op \in {"get", "create"},
               act' = [act EXCEPT !.todo = << >>]
        PROVE  DeletionInv'
    <3>1. act'.todo = << >> /\ req'["action"] = p
      BY <1>1, <2>2 DEF CallInv, Typed, Acts, Send
    <3> QED BY <1>2, <2>2, <3>1, DeletionAside
  <2> QED BY <1>8, <2>1, <2>2, DeletedFits
<1> QED BY <1>4, <1>5, <1>6, <1>7, <1>8 DEF ActionStep

LEMMA DeletionInvIsKept == ASSUME CallInv, DeletionInv, [Next]_vars PROVE DeletionInv'
<1>1. CASE UNCHANGED vars
  BY <1>1 DEF vars, DeletionInv, PlansDeletion, PlannedBefore
<1>2. CASE User
  BY <1>2, OthersKeepDeletion, SimpleActionsBegin, DeleteBegins, SubtreeActionsBegin,
     ActionsKeepDeletion DEF User
<1>3. CASE Fault \/ Store
  BY <1>3, DatabaseKeepsDeletion, OthersKeepDeletion DEF Fault, Store
<1>4. CASE FlushNow \/ SaveAnswered \/ Resumed
  BY <1>4, OthersKeepDeletion, ActionsKeepDeletion DEF Resumed
<1>5. CASE Loaded("select") \/ ActionStep \/ PropertiesAnswered \/ PatchStep
  BY <1>5, OthersKeepDeletion, ActionsKeepDeletion DEF PatchStep
<1> QED BY <1>1, <1>2, <1>3, <1>4, <1>5 DEF Next

-----------------------------------------------------------------------------
(* The theorems.                                                           *)

IInv == CallInv /\ TextInv /\ DirtyIsScheduled /\ DeletionInv

\* The calls of the clients, the text they carry, the schedule of unsaved edits and the
\* plan of a deletion hold together at every step of the front end, the store and the core.
THEOREM InductiveInvariant == Spec => []IInv
<1>1. Init => IInv
  BY CallInvHolds, TextInvHolds, DeletionInvHolds DEF Init, IInv, DirtyIsScheduled
<1>2. IInv /\ [Next]_vars => IInv'
  BY CallInvIsKept, TextInvIsKept, DirtyStaysScheduled, DeletionInvIsKept DEF IInv
<1> QED BY <1>1, <1>2, PTL DEF Spec

\* Rows, list, editor and clients keep their types for any pages and any number of inputs.
THEOREM TypeCorrect == Spec => []TypeOK
<1>1. IInv => TypeOK
  BY DEF IInv, CallInv, Typed
<1> QED BY <1>1, InductiveInvariant, PTL

\* No save, patch, rollback or restoration writes the text of one document into another,
\* whatever is selected, loaded or refused between a call and its answer.
THEOREM TextStays == Spec => []TextStaysInItsDocument
<1>1. IInv => TextStaysInItsDocument
  BY DEF IInv, TextInv
<1> QED BY <1>1, InductiveInvariant, PTL

\* A timer, a save in flight or the error shown stands behind unsaved edits, whichever flush,
\* load or reset ran in between.
THEOREM DirtyStays == Spec => []DirtyIsScheduled
<1>1. IInv => DirtyIsScheduled
  BY DEF IInv
<1> QED BY <1>1, InductiveInvariant, PTL

\* deleteDocument puts a page into the trash after every page that was listed below it when
\* the deletion began, wherever a refused or failed call stops it.
THEOREM PagesPrecede == Spec => PagesPrecedeTheirParent
<1>1. IInv /\ [Next]_vars =>
        [\A d \in Doc : store[d].st = "active" /\ store'[d].st = "deleted"
           => \A e \in Doc : Parent[e] = d /\ e \in act.below => store[e].st # "active"]_vars
  BY PagesGoFirst DEF IInv
<1> QED BY <1>1, InductiveInvariant, PTL DEF Spec, PagesPrecedeTheirParent

\* Only a call of restoreDocument takes a page out of the trash: not a save in flight, nor
\* the answer to another action.
THEOREM TrashKeeps == Spec => TrashIsKept
<1>1. IInv /\ [Next]_vars =>
        [\A d \in Doc : store[d].st = "deleted" /\ store'[d].st = "active"
           => act.kind = "restore"]_vars
  BY OnlyRestoreTakesOut DEF IInv
<1> QED BY <1>1, InductiveInvariant, PTL DEF Spec, TrashIsKept
=============================================================================
