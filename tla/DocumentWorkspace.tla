------------------------- MODULE DocumentWorkspace -------------------------
(***************************************************************************)
(* The open document of the front end and its store: the debounced         *)
(* autosave (useDocumentAutosave.ts), the document actions that run under  *)
(* isBusy (useDocumentWorkspace.ts, useDocumentTrash.ts,                   *)
(* useDocumentTreeActions.ts, useDocumentMetadata.ts), the properties      *)
(* dialogue, the selection of another document, the application and the    *)
(* rollback of a reviewed patch (useAgentPatchWorkflow.ts), and the        *)
(* optimistic writes of TauriDocumentRepository.ts behind them.            *)
(*                                                                         *)
(* One step is one macrotask of the event loop.  A call of the service is  *)
(* a record of `req`: sent, committed by the store ("written"), read again *)
(* ("answered"), and its answer handled.  What awaits a flush goes on in   *)
(* the microtasks of the flush's end: no other step happens while somebody *)
(* is `resumed` (Quiet).                                                   *)
(***************************************************************************)
EXTENDS Integers, Sequences, SequencesExt

CONSTANTS
    Doc,        \* document ids
    NoDoc,
    First,      \* the document the workspace opens with
    Fresh,      \* the ids createId() may still give out
    Parent,     \* [Doc -> Doc \cup {NoDoc}]: the parent page of a page
    MaxInputs,  \* bound: keystrokes of the user, and operations the user starts
    MaxFaults   \* bound: calls of the database that fail, and writes of the Rust core

ASSUME DocAssumption ==
    /\ IsFiniteSet(Doc) /\ NoDoc \notin Doc
    /\ Fresh \subseteq Doc
    /\ First \in Doc \ Fresh
    /\ Parent \in [Doc -> Doc \cup {NoDoc}]
    /\ \A d \in Doc : Parent[d] # NoDoc => Parent[Parent[d]] = NoDoc  \* bound: one level
ASSUME BoundAssumption ==
    {MaxInputs, MaxFaults} \subseteq Nat

VARIABLES
    store,      \* the documents table: [Doc -> Row]
    list,       \* documents and deletedDocuments of the side bar: [Doc -> [st, rev, title]]
    cur,        \* currentDocumentId
    text,       \* what the editor shows
    title,      \* documentTitle
    base,       \* history: the stored text that the editor's text continues
    rev,        \* autosave.revision
    dirty,      \* autosave.dirty
    fresh,      \* capturedDirtyVersion = dirtyVersion of the save in flight
    failed,     \* autosave.status = 'error'
    timer,      \* the debounce timer is set
    ctl,        \* what each client awaits: [Client -> {"idle","flushing","resumed","busy"}]
    act,        \* the action under isBusy: kind, document, remaining targets; history: the
                \* pages below that a deletion began with
    pick,       \* the document that is being selected, or whose properties are saved
    flushed,    \* the result of the flush that the resumed clients awaited
    req,        \* the service call of each caller
    loading,    \* isLoadingDocument ("yes"), loadError ("error")
    applied,    \* the last patch in the transaction journal, and whether it was announced
    closed,     \* the window is closed
    inputs, faults   \* what the bounds count

editor == <<cur, text, title, base, rev>>
save   == <<dirty, fresh, failed, timer>>
bounds == <<inputs, faults>>
vars == <<store, list, editor, save, ctl, act, pick, flushed, req, loading,
          applied, closed, bounds>>

Caller == {"save", "action", "select", "props", "patch"}
Client == Caller \cup {"close"}
Body == [of : Doc, n : 0 .. (MaxInputs + 1)]
Untouched(d) == [of |-> d, n |-> 0]
AgentText(d) == [of |-> d, n |-> MaxInputs + 1]

Row(st, r, t, h) == [st |-> st, rev |-> r, text |-> t, title |-> h]
RowOf(d, st, r)  == Row(st, r, Untouched(d), Untouched(d))
Entry(row) == [st |-> row.st, rev |-> row.rev, title |-> row.title]

NoText == Untouched(First)
NoRow == RowOf(First, "absent", 0)
NoReq == [at |-> "none"]
Call(op, d, r, t, h) ==
    [at |-> "sent", op |-> op, doc |-> d, rev |-> r, text |-> t, title |-> h,
     ok |-> FALSE, got |-> NoRow]

NoFlush == [res |-> "clean", title |-> NoText]
NoAct == [kind |-> "none", doc |-> NoDoc, rev |-> 0, title |-> NoText,
          leaving |-> FALSE, below |-> {}, todo |-> << >>, row |-> NoRow]
NoApplied == [doc |-> NoDoc, rev |-> 0, before |-> NoText, known |-> FALSE]

----------------------------------------------------------------------------
(* The store: TauriDocumentRepository over persist_document. *)

\* The row a write leaves, once its revision was found to be the expected one.
Written(q) ==
    LET old == store[q.doc] IN
    CASE q.op \in {"save", "create"} -> Row("active", old.rev + 1, q.text, q.title)
      [] q.op = "title"    -> [old EXCEPT !.rev = @ + 1, !.title = q.title]
      [] q.op = "update"   -> [old EXCEPT !.rev = @ + 1]
      [] q.op = "delete"   -> [old EXCEPT !.rev = @ + 1, !.st = "deleted"]
      [] q.op = "restore"  -> [old EXCEPT !.rev = @ + 1, !.st = "active"]
      [] q.op = "purge"    -> RowOf(q.doc, "absent", old.rev + 1)
      [] OTHER             -> [old EXCEPT !.rev = @ + 1, !.text = q.text]

\* Mutant of Accepts: the save skips findById and the comparison of persist_document.
AcceptsAnySave(q) ==
    LET old == store[q.doc] IN
    CASE q.op = "create" -> old.st = "absent"
      [] q.op = "save"   -> old.st # "absent"
      [] q.op \in {"patch", "rollback"} -> old.st = "active" /\ old.rev = q.rev
      [] q.op = "purge"  -> old.st = "deleted" /\ old.rev = q.rev
      [] OTHER           -> old.st # "absent" /\ old.rev = q.rev

\* What each operation asks of the row; every one compares the revision.
Accepts(q) ==
    LET old == store[q.doc] IN
    CASE q.op = "create" -> old.st = "absent"
      [] q.op \in {"save", "patch", "rollback"} -> old.st = "active" /\ old.rev = q.rev
      [] q.op = "purge"  -> old.st = "deleted" /\ old.rev = q.rev
      [] OTHER           -> old.st # "absent" /\ old.rev = q.rev

\* The write transaction of persist_document, hardDeleteDocument, apply_agent_patch_set.
Commit(c) ==
    /\ ~closed
    /\ req[c].at = "sent" /\ req[c].op # "get"
    /\ IF Accepts(req[c])
         THEN /\ store' = [store EXCEPT ![req[c].doc] = Written(req[c])]
              /\ req' = [req EXCEPT ![c].at = "written"]
              /\ applied' = IF req[c].op = "patch"
                              THEN [doc |-> req[c].doc, rev |-> req[c].rev + 1,
                                    before |-> store[req[c].doc].text, known |-> FALSE]
                              ELSE applied
         ELSE /\ req' = [req EXCEPT ![c].at = "answered"]
              /\ UNCHANGED <<store, applied>>
    /\ UNCHANGED <<list, editor, save, ctl, act, pick, flushed, loading, closed, bounds>>

\* findById: the answer of getDocument, and of a write, which is read again.
Reread(c) ==
    /\ ~closed
    /\ \/ req[c].at = "written"
       \/ req[c].at = "sent" /\ req[c].op = "get"
    /\ LET row == store[req[c].doc] IN
         req' = [req EXCEPT ![c].at = "answered",
                            ![c].ok = req[c].op # "get" \/ row.st = "active",
                            ![c].got = row]
    /\ UNCHANGED <<store, list, editor, save, ctl, act, pick, flushed, loading, applied, closed, bounds>>

\* The database fails before the write, or between the write and the read after it.
Fail(c) ==
    /\ ~closed
    /\ faults < MaxFaults
    /\ req[c].at \in {"sent", "written"}
    /\ req' = [req EXCEPT ![c].at = "answered", ![c].ok = FALSE]
    /\ faults' = faults + 1
    /\ UNCHANGED <<store, list, editor, save, ctl, act, pick, flushed, loading, applied, closed, inputs>>

\* A decision on an A2A proposal is written by the core; the front end is not told.
AgentWrite(d) ==
    /\ ~closed
    /\ faults < MaxFaults
    /\ store[d].st = "active"
    /\ store' = [store EXCEPT ![d].text = AgentText(d), ![d].rev = @ + 1]
    /\ faults' = faults + 1
    /\ UNCHANGED <<list, editor, save, ctl, act, pick, flushed, req, loading, applied, closed, inputs>>

----------------------------------------------------------------------------
(* Pieces of the handlers. *)

Quiet == ~closed /\ \A c \in Client : ctl[c] # "resumed"
Answered(c) == Quiet /\ req[c].at = "answered"
ListedChildren(d, st) == {e \in Doc \ {d} : list[e].st = st /\ Parent[e] = d}
Merged(row, d) == [list EXCEPT ![d] = Entry(row)]

SaveCall == Call("save", cur, rev, text, title)

\* resetSavedState: nothing is dirty, and a save in flight is of an older version.
ResetSavedState(r) ==
    /\ rev' = r /\ dirty' = FALSE /\ fresh' = FALSE /\ failed' = FALSE /\ timer' = FALSE

KeepSave == UNCHANGED <<rev, save>>

\* Mutant of Show: the id changes and the editor keeps its content.
ShowLate(d, row) ==
    /\ cur' = d /\ base' = row.text /\ UNCHANGED <<text, title>>
    /\ ResetSavedState(row.rev)
    /\ loading' = "no"

\* The end of loadDocument: the row becomes the open document.
Show(d, row) ==
    /\ cur' = d /\ text' = row.text /\ title' = row.title /\ base' = row.text
    /\ ResetSavedState(row.rev)
    /\ loading' = "no"

\* `await flush()`: joins the flush in flight, starts one, or finds nothing to save.
JoinFlush(c) ==
    /\ timer' = FALSE
    /\ CASE req["save"].at # "none" ->
              ctl' = [ctl EXCEPT ![c] = "flushing"] /\ UNCHANGED <<req, fresh, failed, flushed>>
         [] req["save"].at = "none" /\ dirty ->
              /\ ctl' = [ctl EXCEPT ![c] = "flushing"]
              /\ req' = [req EXCEPT !["save"] = SaveCall]
              /\ fresh' = TRUE /\ failed' = FALSE
              /\ UNCHANGED flushed
         [] OTHER ->
              /\ ctl' = [ctl EXCEPT ![c] = "resumed"]
              /\ flushed' = NoFlush
              /\ UNCHANGED <<req, fresh, failed>>
    /\ UNCHANGED <<dirty, editor>>

\* The flush ends: whoever awaits it goes on before anything else happens.
Resume(res, h) ==
    /\ ctl' = [c \in Client |-> IF ctl[c] = "flushing" THEN "resumed" ELSE ctl[c]]
    /\ flushed' = IF \E c \in Client : ctl[c] = "flushing" THEN [res |-> res, title |-> h]
                  ELSE NoFlush

\* One of those goes on; the last one leaves the result behind.
Consume(c) ==
    /\ ~closed /\ ctl[c] = "resumed"
    /\ flushed' = IF \E o \in Client \ {c} : ctl[o] = "resumed" THEN flushed ELSE NoFlush

----------------------------------------------------------------------------
(* The editor and the autosave. *)

\* handleEditorContentUpdate, handleTitleInput and markDirty; a loading editor is read-only.
Edit(field) ==
    /\ Quiet /\ loading = "no" /\ inputs < MaxInputs
    /\ inputs' = inputs + 1
    /\ LET new == [of |-> cur, n |-> inputs + 1] IN
         IF field = "text" THEN text' = new /\ UNCHANGED title
                           ELSE title' = new /\ UNCHANGED text
    /\ dirty' = TRUE /\ fresh' = FALSE /\ failed' = FALSE /\ timer' = TRUE
    /\ UNCHANGED <<store, list, cur, base, rev, ctl, act, pick, flushed, req, loading, applied,
                   closed, faults>>

\* The debounce timer, a manual save and `beforeunload` call flush() and await nothing.
FlushNow ==
    /\ Quiet /\ (timer \/ dirty)
    /\ timer' = FALSE
    /\ IF req["save"].at = "none" /\ dirty
         THEN /\ req' = [req EXCEPT !["save"] = SaveCall]
              /\ fresh' = TRUE /\ failed' = FALSE
         ELSE UNCHANGED <<req, fresh, failed>>
    /\ UNCHANGED <<store, list, editor, dirty, ctl, act, pick, flushed, loading, applied, closed, bounds>>

\* Mutant of SaveFailed: the flush promise is never settled when a save fails.
SaveFailedSilently ==
    /\ Answered("save") /\ ~req["save"].ok
    /\ req' = [req EXCEPT !["save"] = NoReq]
    /\ dirty' = TRUE /\ failed' = TRUE
    /\ UNCHANGED <<store, list, editor, fresh, timer, ctl, act, pick, flushed, loading, applied,
                   closed, bounds>>

\* saveCurrentSnapshot fails: the loop ends with the error and the edits stay dirty.
SaveFailed ==
    /\ Answered("save") /\ ~req["save"].ok
    /\ req' = [req EXCEPT !["save"] = NoReq]
    /\ dirty' = TRUE /\ failed' = TRUE
    /\ Resume("failed", NoText)
    /\ UNCHANGED <<store, list, editor, fresh, timer, act, pick, loading, applied, closed, bounds>>

\* The save is confirmed and nothing was typed since: the flush ends.
SaveConfirmed ==
    /\ Answered("save") /\ req["save"].ok /\ fresh
    /\ list' = Merged(req["save"].got, req["save"].doc)
    /\ rev' = req["save"].got.rev
    /\ base' = req["save"].text
    /\ dirty' = FALSE /\ failed' = FALSE
    /\ req' = [req EXCEPT !["save"] = NoReq]
    /\ Resume("saved", req["save"].got.title)
    /\ UNCHANGED <<store, cur, text, title, fresh, timer, act, pick, loading, applied, closed, bounds>>

\* Mutant of SaveOvertaken: the loop stops after one save and relies on a timer long gone.
SaveOvertakenOnce ==
    /\ Answered("save") /\ req["save"].ok /\ ~fresh
    /\ list' = Merged(req["save"].got, req["save"].doc)
    /\ rev' = req["save"].got.rev
    /\ base' = IF req["save"].doc = cur THEN req["save"].text ELSE base
    /\ dirty' = TRUE /\ failed' = FALSE
    /\ req' = [req EXCEPT !["save"] = NoReq]
    /\ Resume("saved", req["save"].got.title)
    /\ UNCHANGED <<store, cur, text, title, fresh, timer, act, pick, loading, applied, closed, bounds>>

\* The save is confirmed but the version moved on: dirty again, and the loop saves at once.
SaveOvertaken ==
    /\ Answered("save") /\ req["save"].ok /\ ~fresh
    /\ list' = Merged(req["save"].got, req["save"].doc)
    /\ rev' = req["save"].got.rev
    /\ base' = IF req["save"].doc = cur THEN req["save"].text ELSE base
    /\ dirty' = TRUE /\ fresh' = TRUE /\ failed' = FALSE /\ timer' = TRUE
    /\ req' = [req EXCEPT !["save"] = Call("save", cur, rev', text, title)]
    /\ UNCHANGED <<store, cur, text, title, ctl, act, pick, flushed, loading, applied, closed, bounds>>

\* onCloseRequested: at once when nothing is dirty, otherwise after a flush.
CloseRequested ==
    /\ Quiet /\ ctl["close"] = "idle" /\ inputs < MaxInputs
    /\ inputs' = inputs + 1
    /\ IF ~dirty
         THEN closed' = TRUE /\ UNCHANGED <<editor, save, ctl, flushed, req>>
         ELSE JoinFlush("close") /\ UNCHANGED closed
    /\ UNCHANGED <<store, list, act, pick, loading, applied, faults>>

CloseResumed ==
    /\ Consume("close")
    /\ closed' = (flushed.res # "failed" /\ ~dirty)
    /\ ctl' = [ctl EXCEPT !["close"] = "idle"]
    /\ UNCHANGED <<store, list, editor, save, act, pick, req, loading, applied, bounds>>

----------------------------------------------------------------------------
(* selectDocument and loadDocument. *)

Select(d) ==
    /\ Quiet /\ inputs < MaxInputs
    /\ ctl["select"] = "idle" /\ ctl["action"] = "idle"
    /\ d # cur /\ list[d].st = "active"
    /\ pick' = [pick EXCEPT !["select"] = d]
    /\ JoinFlush("select")
    /\ inputs' = inputs + 1
    /\ UNCHANGED <<store, list, act, loading, applied, closed, faults>>

SelectResumed ==
    /\ Consume("select")
    /\ IF flushed.res = "failed"
         THEN ctl' = [ctl EXCEPT !["select"] = "idle"] /\ UNCHANGED <<req, loading>>
         ELSE /\ ctl' = [ctl EXCEPT !["select"] = "busy"]
              /\ req' = [req EXCEPT !["select"] = Call("get", pick["select"], 0, NoText, NoText)]
              /\ loading' = "yes"
    /\ pick' = [pick EXCEPT !["select"] = NoDoc]
    /\ UNCHANGED <<store, list, editor, save, act, applied, closed, bounds>>

\* loadDocument once the row is there: an unlisted document is merged, a listed one keeps
\* its entry.  A failed load leaves the previous document, read-only.
Loaded(c) ==
    /\ Answered(c) /\ req[c].op = "get" /\ c # "patch"
    /\ ctl' = [ctl EXCEPT ![c] = "idle"]
    /\ act' = IF c = "action" THEN NoAct ELSE act
    /\ req' = [req EXCEPT ![c] = NoReq]
    /\ IF req[c].ok
         THEN /\ Show(req[c].doc, req[c].got)
              /\ list' = IF list[req[c].doc].st = "active" THEN list
                         ELSE Merged(req[c].got, req[c].doc)
         ELSE loading' = "error" /\ UNCHANGED <<list, editor, save>>
    /\ UNCHANGED <<store, pick, flushed, applied, closed, bounds>>

----------------------------------------------------------------------------
(* The actions of runDocumentAction, one at a time (isBusy). *)

\* createId(): an id no document ever had.
Unused == {d \in Fresh : store[d].rev = 0}

Target(d) == [doc |-> d, rev |-> list[d].rev]

Begin(a, needsFlush) ==
    /\ Quiet /\ ctl["action"] = "idle" /\ inputs < MaxInputs
    /\ inputs' = inputs + 1
    /\ act' = a
    /\ IF needsFlush THEN JoinFlush("action")
       ELSE /\ ctl' = [ctl EXCEPT !["action"] = "resumed"]
            /\ flushed' = NoFlush
            /\ UNCHANGED <<editor, save, req>>
    /\ UNCHANGED <<store, list, pick, loading, applied, closed, faults>>

\* createAndOpenDocumentFromContent, writeMessageToChildDocument, the import.
Create(d) ==
    /\ d \in Unused
    /\ Begin([NoAct EXCEPT !.kind = "create", !.doc = d], TRUE)

\* commitRename and moveArticleToGroup: only the open document is flushed first.
Update(kind, d) ==
    /\ list[d].st = "active"
    /\ Begin([NoAct EXCEPT !.kind = kind, !.doc = d, !.rev = list[d].rev,
                           !.title = [of |-> d, n |-> MaxInputs + 1]], d = cur)

\* commitCurrentTitle: the title field, when it differs from the listed title.
CommitTitle ==
    /\ list[cur].st = "active" /\ title # list[cur].title
    /\ Begin([NoAct EXCEPT !.kind = "title", !.doc = cur, !.title = title], TRUE)

\* Mutant of Delete: the page goes first.
DeleteTopDown(d) ==
    /\ list[d].st = "active"
    /\ LET below == SetToSeq(ListedChildren(d, "active")) IN
         Begin([NoAct EXCEPT !.kind = "delete", !.doc = d,
                             !.leaving = cur = d \/ cur \in ListedChildren(d, "active"),
                             !.below = ListedChildren(d, "active"),
                             !.todo = <<Target(d)>> \o [i \in 1 .. Len(below) |-> Target(below[i])]],
               cur = d \/ cur \in ListedChildren(d, "active"))

\* deleteDocument takes the pages below first, restoreDocument and the list order last.
Delete(d) ==
    /\ list[d].st = "active"
    /\ LET below == SetToSeq(ListedChildren(d, "active")) IN
         Begin([NoAct EXCEPT !.kind = "delete", !.doc = d,
                             !.leaving = cur = d \/ cur \in ListedChildren(d, "active"),
                             !.below = ListedChildren(d, "active"),
                             !.todo = [i \in 1 .. Len(below) |-> Target(below[i])] \o <<Target(d)>>],
               cur = d \/ cur \in ListedChildren(d, "active"))

Restore(d) ==
    /\ list[d].st = "deleted"
    /\ LET below == SetToSeq(ListedChildren(d, "deleted")) IN
         Begin([NoAct EXCEPT !.kind = "restore", !.doc = d,
                             !.todo = <<Target(d)>> \o [i \in 1 .. Len(below) |-> Target(below[i])]],
               FALSE)

Purge(d) ==
    /\ list[d].st = "deleted"
    /\ LET below == SetToSeq(ListedChildren(d, "deleted")) IN
         Begin([NoAct EXCEPT !.kind = "purge", !.doc = d,
                             !.todo = [i \in 1 .. Len(below) |-> Target(below[i])] \o <<Target(d)>>],
               FALSE)

EndAct == ctl' = [ctl EXCEPT !["action"] = "idle"] /\ act' = NoAct
Send(q) ==
    /\ ctl' = [ctl EXCEPT !["action"] = "busy"]
    /\ req' = [req EXCEPT !["action"] = q]

\* The revision an action expects: autosave.revision of the open document, else the listed one.
RevisionFor(t) == IF t.doc = cur THEN rev ELSE t.rev

\* The call an action makes once its flush is over.
FirstCall ==
    CASE act.kind = "create" -> Call("create", act.doc, 0, Untouched(act.doc), Untouched(act.doc))
      [] act.kind = "title"  -> Call("title", act.doc, rev, NoText, act.title)
      [] act.kind = "rename" -> Call("title", act.doc, RevisionFor(act), NoText, act.title)
      [] act.kind = "move"   -> Call("update", act.doc, RevisionFor(act), NoText, NoText)
      [] act.kind = "delete" -> Call("delete", Head(act.todo).doc, RevisionFor(Head(act.todo)), NoText, NoText)
      [] OTHER               -> Call(act.kind, Head(act.todo).doc, Head(act.todo).rev, NoText, NoText)

\* The flush already stored the title that was to be committed.
TitleIsSaved == act.kind = "title" /\ flushed.res = "saved" /\ flushed.title = act.title

ActionResumed ==
    /\ Consume("action")
    /\ IF flushed.res = "failed" \/ TitleIsSaved
         THEN EndAct /\ UNCHANGED req
         ELSE Send(FirstCall) /\ UNCHANGED act
    /\ UNCHANGED <<store, list, editor, save, pick, loading, applied, closed, bounds>>

ActionAnswered == Answered("action") /\ req["action"].op # "get"

\* A refused or failed call ends the action where it is.
ActionRefused ==
    /\ ActionAnswered /\ ~req["action"].ok
    /\ EndAct
    /\ req' = [req EXCEPT !["action"] = NoReq]
    /\ UNCHANGED <<store, list, editor, save, pick, flushed, loading, applied, closed, bounds>>

Created ==
    /\ ActionAnswered /\ req["action"].ok /\ req["action"].op = "create"
    /\ list' = Merged(req["action"].got, req["action"].doc)
    /\ Show(req["action"].doc, req["action"].got)
    /\ EndAct
    /\ req' = [req EXCEPT !["action"] = NoReq]
    /\ UNCHANGED <<store, pick, flushed, applied, closed, bounds>>

\* commitRename and moveArticleToGroup look at the open document again, commitCurrentTitle
\* does not.
Updated ==
    /\ ActionAnswered /\ req["action"].ok /\ act.kind \in {"rename", "move", "title"}
    /\ LET q == req["action"]  isOpen == act.kind = "title" \/ act.doc = cur IN
         /\ list' = Merged(q.got, q.doc)
         /\ title' = IF isOpen /\ act.kind # "move" THEN q.got.title ELSE title
         /\ IF isOpen THEN ResetSavedState(q.got.rev) ELSE KeepSave
    /\ EndAct
    /\ req' = [req EXCEPT !["action"] = NoReq]
    /\ UNCHANGED <<store, cur, text, base, pick, flushed, loading, applied, closed, bounds>>

\* One page of the subtree is done and others are left.
NextTarget ==
    /\ ActionAnswered /\ req["action"].ok /\ Len(act.todo) > 1
    /\ list' = Merged(req["action"].got, req["action"].doc)
    /\ act' = [act EXCEPT !.todo = Tail(@),
                          !.row = IF req["action"].doc = act.doc THEN req["action"].got ELSE @]
    /\ LET t == act.todo[2] IN
         Send(Call(act.kind, t.doc, IF act.kind = "delete" THEN RevisionFor(t) ELSE t.rev, NoText, NoText))
    /\ UNCHANGED <<store, editor, save, pick, flushed, loading, applied, closed, bounds>>

LastTarget == ActionAnswered /\ req["action"].ok /\ Len(act.todo) = 1

\* The last page is in the trash; whoever was reading it moves to another page, or a new one.
Deleted ==
    /\ LastTarget /\ act.kind = "delete"
    /\ list' = Merged(req["action"].got, req["action"].doc)
    /\ LET others == {d \in Doc : list'[d].st = "active"} IN
       \/ /\ ~act.leaving \/ (others = {} /\ Unused = {})
          /\ EndAct
          /\ req' = [req EXCEPT !["action"] = NoReq] /\ UNCHANGED loading
       \/ /\ act.leaving
          /\ \E d \in others : Send(Call("get", d, 0, NoText, NoText))
          /\ act' = [act EXCEPT !.todo = << >>] /\ loading' = "yes"
       \/ /\ act.leaving /\ others = {}
          /\ \E d \in Unused : Send(Call("create", d, 0, Untouched(d), Untouched(d)))
          /\ act' = [act EXCEPT !.todo = << >>] /\ UNCHANGED loading
    /\ UNCHANGED <<store, editor, save, pick, flushed, applied, closed, bounds>>

\* restoreDocument opens the page as its own call returned it.  Nothing was flushed.
Restored ==
    /\ LastTarget /\ act.kind = "restore"
    /\ list' = Merged(req["action"].got, req["action"].doc)
    /\ EndAct
    /\ req' = [req EXCEPT !["action"] = NoReq]
    /\ Show(act.doc, IF req["action"].doc = act.doc THEN req["action"].got ELSE act.row)
    /\ UNCHANGED <<store, pick, flushed, applied, closed, bounds>>

Purged ==
    /\ LastTarget /\ act.kind = "purge"
    /\ list' = Merged(req["action"].got, req["action"].doc)
    /\ EndAct
    /\ req' = [req EXCEPT !["action"] = NoReq]
    /\ UNCHANGED <<store, editor, save, pick, flushed, loading, applied, closed, bounds>>

----------------------------------------------------------------------------
(* saveDocumentProperties: not under isBusy, and with the revision of the list. *)

Properties(d) ==
    /\ Quiet /\ inputs < MaxInputs
    /\ ctl["props"] = "idle" /\ list[d].st # "absent"
    /\ pick' = [pick EXCEPT !["props"] = d]
    /\ JoinFlush("props")
    /\ inputs' = inputs + 1
    /\ UNCHANGED <<store, list, act, loading, applied, closed, faults>>

PropertiesResumed ==
    /\ Consume("props")
    /\ IF flushed.res = "failed"
         THEN ctl' = [ctl EXCEPT !["props"] = "idle"] /\ UNCHANGED req
         ELSE /\ ctl' = [ctl EXCEPT !["props"] = "busy"]
              /\ req' = [req EXCEPT !["props"] =
                           Call("update", pick["props"], list[pick["props"]].rev, NoText, NoText)]
    /\ pick' = [pick EXCEPT !["props"] = NoDoc]
    /\ UNCHANGED <<store, list, editor, save, act, loading, applied, closed, bounds>>

PropertiesAnswered ==
    /\ Answered("props")
    /\ ctl' = [ctl EXCEPT !["props"] = "idle"]
    /\ req' = [req EXCEPT !["props"] = NoReq]
    /\ IF req["props"].ok
         THEN /\ list' = Merged(req["props"].got, req["props"].doc)
              /\ IF req["props"].doc = cur THEN ResetSavedState(req["props"].got.rev) ELSE KeepSave
         ELSE UNCHANGED <<list, rev, save>>
    /\ UNCHANGED <<store, cur, text, title, base, act, pick, flushed, loading, applied, closed, bounds>>

----------------------------------------------------------------------------
(* performApplyPendingAgentPatches and rollbackLastAgentTask, for one document. *)

\* loadSnapshot: unsaved edits of the open document refuse the patch; otherwise it is read.
ApplyPatch(d) ==
    /\ Quiet /\ inputs < MaxInputs
    /\ ctl["patch"] = "idle" /\ list[d].st = "active"
    /\ ~(d = cur /\ dirty)
    /\ ctl' = [ctl EXCEPT !["patch"] = "busy"]
    /\ req' = [req EXCEPT !["patch"] = Call("get", d, 0, NoText, NoText)]
    /\ inputs' = inputs + 1
    /\ UNCHANGED <<store, list, editor, save, act, pick, flushed, loading, applied, closed,
                   faults>>

PatchSnapshot ==
    /\ Answered("patch") /\ req["patch"].op = "get"
    /\ LET d == req["patch"].doc IN
         IF req["patch"].ok
           THEN /\ req' = [req EXCEPT !["patch"] =
                             Call("patch", d, req["patch"].got.rev, AgentText(d), NoText)]
                /\ UNCHANGED ctl
           ELSE /\ req' = [req EXCEPT !["patch"] = NoReq]
                /\ ctl' = [ctl EXCEPT !["patch"] = "idle"]
    /\ UNCHANGED <<store, list, editor, save, act, pick, flushed, loading, applied, closed, bounds>>

\* Rolling back asks nothing of the editor.
Rollback ==
    /\ Quiet /\ inputs < MaxInputs
    /\ ctl["patch"] = "idle" /\ applied.known
    /\ ctl' = [ctl EXCEPT !["patch"] = "busy"]
    /\ req' = [req EXCEPT !["patch"] =
                 Call("rollback", applied.doc, applied.rev, applied.before, NoText)]
    /\ inputs' = inputs + 1
    /\ UNCHANGED <<store, list, editor, save, act, pick, flushed, loading, applied, closed,
                   faults>>

\* applyDocument for the open document, which leaves the list alone; mergeDocument otherwise.
PatchWritten ==
    /\ Answered("patch") /\ req["patch"].op # "get"
    /\ ctl' = [ctl EXCEPT !["patch"] = "idle"]
    /\ req' = [req EXCEPT !["patch"] = NoReq]
    /\ LET q == req["patch"] IN
         IF ~q.ok THEN UNCHANGED <<list, editor, save, applied>>
         ELSE /\ applied' = IF q.op = "rollback" THEN NoApplied
                            ELSE [applied EXCEPT !.known = TRUE]
              /\ IF q.doc = cur
                   THEN /\ text' = q.got.text /\ base' = q.got.text
                        /\ ResetSavedState(q.got.rev)
                        /\ UNCHANGED <<list, cur, title>>
                   ELSE /\ list' = Merged(q.got, q.doc)
                        /\ UNCHANGED <<editor, save>>
    /\ UNCHANGED <<store, act, pick, flushed, loading, closed, bounds>>

----------------------------------------------------------------------------
Init ==
    /\ store = [d \in Doc |-> IF d \in Fresh THEN RowOf(d, "absent", 0) ELSE RowOf(d, "active", 1)]
    /\ list = [d \in Doc |-> Entry(store[d])]
    /\ cur = First /\ text = Untouched(First) /\ title = Untouched(First)
    /\ base = Untouched(First) /\ rev = 1
    /\ dirty = FALSE /\ fresh = FALSE /\ failed = FALSE /\ timer = FALSE
    /\ ctl = [c \in Client |-> "idle"]
    /\ act = NoAct
    /\ pick = [c \in {"select", "props"} |-> NoDoc]
    /\ flushed = NoFlush
    /\ req = [c \in Caller |-> NoReq]
    /\ loading = "no" /\ applied = NoApplied /\ closed = FALSE
    /\ inputs = 0 /\ faults = 0

Store == \E c \in Caller : Commit(c) \/ Reread(c)

SaveAnswered == SaveFailed \/ SaveConfirmed \/ SaveOvertaken

Resumed == CloseResumed \/ SelectResumed \/ ActionResumed \/ PropertiesResumed

ActionStep ==
    \/ Loaded("action") \/ ActionRefused \/ Created \/ Updated
    \/ NextTarget \/ Deleted \/ Restored \/ Purged

PatchStep == PatchSnapshot \/ PatchWritten

User ==
    \/ \E f \in {"text", "title"} : Edit(f)
    \/ CloseRequested
    \/ CommitTitle
    \/ Rollback
    \/ \E d \in Doc :
         \/ Select(d) \/ Create(d) \/ Delete(d) \/ Restore(d) \/ Purge(d)
         \/ Properties(d) \/ ApplyPatch(d)
         \/ \E k \in {"rename", "move"} : Update(k, d)

Fault == (\E c \in Caller : Fail(c)) \/ (\E d \in Doc : AgentWrite(d))

Next ==
    \/ User \/ Fault
    \/ Store \/ FlushNow \/ SaveAnswered \/ Resumed
    \/ Loaded("select") \/ ActionStep \/ PropertiesAnswered \/ PatchStep

Spec == Init /\ [][Next]_vars

(***************************************************************************)
(* Fairness: the database answers, the event loop delivers every answer,   *)
(* a timer that is set fires, and a resumed function runs.  Nothing is     *)
(* assumed of the user, nor of the faults.                                 *)
(***************************************************************************)
Fairness ==
    /\ \A c \in Caller : WF_vars(Commit(c) \/ Reread(c))
    /\ WF_vars(timer /\ FlushNow)
    /\ WF_vars(SaveAnswered)
    /\ WF_vars(Resumed)
    /\ WF_vars(Loaded("select"))
    /\ WF_vars(ActionStep)
    /\ WF_vars(PropertiesAnswered)
    /\ WF_vars(PatchStep)

FairSpec == Spec /\ Fairness

----------------------------------------------------------------------------
(* Properties. *)

Rows == [st : {"absent", "active", "deleted"}, rev : Nat, text : Body, title : Body]

TypeOK ==
    /\ store \in [Doc -> Rows]
    /\ list \in [Doc -> [st : {"absent", "active", "deleted"}, rev : Nat, title : Body]]
    /\ cur \in Doc /\ {text, title, base} \subseteq Body /\ rev \in Nat
    /\ {dirty, fresh, failed, timer, closed} \subseteq BOOLEAN
    /\ ctl \in [Client -> {"idle", "flushing", "resumed", "busy"}]
    /\ loading \in {"no", "yes", "error"}

\* The autosave reads the id, the revision and the text of the open document in one go: what
\* is stored in a document was typed in it or proposed for it, whatever is loaded meanwhile.
TextStaysInItsDocument == \A d \in Doc : store[d].text.of = d

\* Unsaved edits never wait for nothing: a timer, a save in flight or the error shown to the
\* user stands behind them, whichever flush, load or reset ran in between.
DirtyIsScheduled == dirty => timer \/ failed \/ req["save"].at # "none"

\* The pages listed below a page when its deletion began are in the trash before it is: an
\* action that stops half-way, or whose pages are saved, selected or renamed meanwhile,
\* leaves none of them behind.
PagesPrecedeTheirParent ==
    [][\A d \in Doc : store[d].st = "active" /\ store'[d].st = "deleted"
         => \A e \in Doc : Parent[e] = d /\ e \in act.below => store[e].st # "active"]_vars

\* A page leaves the trash by restoreDocument only: no save that was in flight, and no other
\* action, brings it back.
TrashIsKept ==
    [][\A d \in Doc : store[d].st = "deleted" /\ store'[d].st = "active"
         => act.kind = "restore"]_vars

\* Edits that arrive while an async save is in flight are persisted: what the editor shows is
\* stored, or counts as dirty.
TypedTextStaysDirty == text # base => dirty

\* The revision protects every write: a save replaces the text its editor continues.
SaveReplacesWhatItRead ==
    [][\A d \in Doc : req["save"].at = "sent" /\ req'["save"].at = "written"
                      /\ req["save"].doc = d
         => store[d].text = base]_vars

\* isBusy is released: every flush that an action awaits ends, and so does every call it
\* makes, whatever is typed, saved or selected meanwhile.
ActionEnds == ctl["action"] # "idle" ~> (ctl["action"] = "idle" \/ closed)
=============================================================================
