--------------------------- MODULE RolloutEditing ---------------------------
(***************************************************************************)
(* Several administrators work on one rollout: the detail view with its    *)
(* task list, its draft and its delete dialog                              *)
(* (frontend/src/app/features/rollout-detail), the handlers                *)
(* (backend/internal/api/handlers.go) and the rollout's tables             *)
(* (backend/internal/store/repository.go).                                 *)
(*                                                                         *)
(* A rollout is [head, stages, pair, tasks], one field per table.  The     *)
(* texts of head (title, descriptions, risks) and pair are numbers that    *)
(* stand for what was typed; 0 is an empty list.  A task is its identity   *)
(* id (the program has none: it stands for what the user means by the      *)
(* task, whatever its position or wording), its status and who set it.     *)
(* Positions count from 1 here.                                            *)
(*                                                                         *)
(* A rollout is read with one statement per table and written in one       *)
(* transaction at READ COMMITTED: its UPDATE of the rollouts row makes     *)
(* other saves and deletes wait, its DELETE of the task rows makes a task  *)
(* update wait, which then finds its row gone.  Live delivery is reliable  *)
(* here; LiveUpdates is about that.                                        *)
(***************************************************************************)
EXTENDS Integers, Sequences, SequencesExt

CONSTANTS
    Tabs,        \* detail views, each of another user
    None,        \* no rollout, no draft, nothing
    Away,        \* the view of a tab that has left the detail page
    InitTasks,   \* number of tasks the rollout inherits from its type
    MaxEdits,    \* bound of the model: forms and drafts opened or changed, and faults
    MaxRequests, \* bound of the model: mutations sent
    MaxFaults    \* bound of the model: database errors and failed requests

Statuses == {"", "done", "failed"}

Task == [id : 1..(InitTasks + MaxEdits), status : Statuses, by : Tabs \union {None}]

Rollout == [head : 0..(MaxEdits + 1), stages : {0, 1}, pair : 0..(MaxEdits + 1),
            tasks : Seq(Task)]

\* What a tab may ask of the server.
SaveRequest == [op : {"save"}, body : Rollout]
TaskRequest == [op : {"task"}, seq : Nat \ {0}, status : Statuses]
DeleteRequest == [op : {"delete"}]
Request == SaveRequest \union TaskRequest \union DeleteRequest

FailForm == [index : Nat \ {0}, id : Nat \ {0}]

ASSUME EditingAssumption ==
    /\ InitTasks \in Nat
    /\ MaxEdits \in Nat /\ MaxRequests \in Nat /\ MaxFaults \in Nat
    /\ None \notin Tabs \union Rollout \union Request \union FailForm

VARIABLES
    db,        \* the rollout in the database, or None
    lock,      \* the tab whose save holds the rollouts row, or None
    pc,        \* pc[t]: where the mutation of tab t is; "idle" is not busy
    req,       \* req[t]: the mutation of tab t
    view,      \* view[t]: the rollout tab t shows, None, or Away
    fetch,     \* fetch[t]: the statement the GET of tab t is at and its rows
    tick,      \* tick[t]: a bump of the refresh bus not yet handled
    draft,     \* draft[t]: the draft of tab t, None when not editing
    failing,   \* failing[t]: the open "why did this fail" form, or None
    edits,     \* forms and drafts opened or changed so far
    sent,      \* mutations sent so far
    faults,    \* faults so far
    missed,    \* history: missed[t], a fault kept a change from tab t
    marks,     \* history: what the users marked
    reordered  \* history: some save moved or removed tasks

dbVars == <<db, lock>>
reqVars == <<pc, req, sent>>
viewVars == <<view, fetch, tick>>
formVars == <<draft, failing, edits>>
historyVars == <<missed, marks, reordered>>
vars == <<dbVars, reqVars, viewVars, formVars, historyVars, faults>>

NewTask(n) == [id |-> n, status |-> "", by |-> None]

WithTasks(r, s) == [r EXCEPT !.tasks = s]

Swapped(s, i) == [s EXCEPT ![i] = s[i + 1], ![i + 1] = s[i]]

\* The row at position i after user t has set its status; clearing it clears the
\* log entry.
MarkedBy(r, i, status, t) ==
    WithTasks(r, [r.tasks EXCEPT ![i] =
        [id |-> r.tasks[i].id, status |-> status,
         by |-> IF status = "" THEN None ELSE t]])

Idle == [at |-> "idle", got |-> None]

\* Every tab has loaded the rollout; a tab that loads it later does what a tab
\* does after a bump.
Init ==
    /\ db = [head |-> 1, stages |-> 1, pair |-> 1,
             tasks |-> [i \in 1..InitTasks |-> NewTask(i)]]
    /\ lock = None
    /\ pc = [t \in Tabs |-> "idle"]
    /\ req = [t \in Tabs |-> None]
    /\ view = [t \in Tabs |-> db]
    /\ fetch = [t \in Tabs |-> Idle]
    /\ tick = [t \in Tabs |-> FALSE]
    /\ draft = [t \in Tabs |-> None]
    /\ failing = [t \in Tabs |-> None]
    /\ edits = 0 /\ sent = 0 /\ faults = 0
    /\ missed = [t \in Tabs |-> FALSE]
    /\ marks = {}
    /\ reordered = FALSE

Fault == faults < MaxFaults /\ edits + faults < MaxEdits /\ faults' = faults + 1

Goto(t, label) == pc' = [pc EXCEPT ![t] = label]

-----------------------------------------------------------------------------
(* The detail view fetches the rollout *)

\* Faulty variant: a bump during a fetch is dropped (exhaustMap).
Refetch_Exhaust(t) ==
    /\ tick[t] /\ view[t] # Away
    /\ tick' = [tick EXCEPT ![t] = FALSE]
    /\ fetch' = [fetch EXCEPT ![t] =
                    IF @ = Idle THEN [at |-> "head", got |-> None] ELSE @]
    /\ missed' = [missed EXCEPT ![t] = FALSE]
    /\ UNCHANGED <<dbVars, reqVars, view, formVars, marks, reordered, faults>>

\* A bump: switchMap abandons the GET in flight for a new one.
Refetch(t) ==
    /\ tick[t] /\ view[t] # Away
    /\ tick' = [tick EXCEPT ![t] = FALSE]
    /\ fetch' = [fetch EXCEPT ![t] = [at |-> "head", got |-> None]]
    /\ missed' = [missed EXCEPT ![t] = FALSE]
    /\ UNCHANGED <<dbVars, reqVars, view, formVars, marks, reordered, faults>>

\* Rollout: the rollouts row; the answer is 404 when there is none.
ReadHead(t) ==
    /\ fetch[t].at = "head"
    /\ IF db = None
       THEN /\ fetch' = [fetch EXCEPT ![t] = Idle]
            /\ view' = [view EXCEPT ![t] = None]
       ELSE /\ fetch' = [fetch EXCEPT ![t] =
                  [at |-> "lists",
                   got |-> [head |-> db.head, stages |-> 0, pair |-> 0,
                            tasks |-> <<>>]]]
            /\ UNCHANGED view
    /\ UNCHANGED <<dbVars, reqVars, tick, formVars, historyVars, faults>>

\* hydrate: the lists that saves from this page leave alone or replace whole,
\* empty when the rollout has just been deleted.
ReadLists(t) ==
    /\ fetch[t].at = "lists"
    /\ fetch' = [fetch EXCEPT ![t] =
          [at |-> "tasks",
           got |-> IF db = None THEN @.got
                   ELSE [head |-> @.got.head, stages |-> db.stages,
                         pair |-> db.pair, tasks |-> <<>>]]]
    /\ UNCHANGED <<dbVars, reqVars, view, tick, formVars, historyVars, faults>>

\* hydrate: the task rows; the answer is on its way.
ReadTasks(t) ==
    /\ fetch[t].at = "tasks"
    /\ fetch' = [fetch EXCEPT ![t] =
          [at |-> "answer",
           got |-> IF db = None THEN @.got ELSE WithTasks(@.got, db.tasks)]]
    /\ UNCHANGED <<dbVars, reqVars, view, tick, formVars, historyVars, faults>>

\* The answer is rendered, unless a bump has abandoned its GET meanwhile.
Render(t) ==
    /\ fetch[t].at = "answer"
    /\ view' = [view EXCEPT ![t] = fetch[t].got]
    /\ fetch' = [fetch EXCEPT ![t] = Idle]
    /\ UNCHANGED <<dbVars, reqVars, tick, formVars, historyVars, faults>>

\* The connection breaks while rows are read.  hydrate does not look at rows.Err:
\* the rows read so far are taken for the whole list.
ReadCut(t) ==
    /\ db # None
    /\ Fault
    /\ \/ /\ fetch[t].at = "lists"
          /\ fetch' = [fetch EXCEPT ![t] = [at |-> "tasks", got |-> @.got]]
       \/ /\ fetch[t].at = "tasks"
          /\ \E n \in 0..(Len(db.tasks) - 1) :
                fetch' = [fetch EXCEPT ![t] =
                             [at |-> "answer",
                              got |-> WithTasks(@.got, SubSeq(db.tasks, 1, n))]]
    /\ missed' = [missed EXCEPT ![t] = TRUE]
    /\ UNCHANGED <<dbVars, reqVars, view, tick, formVars, marks, reordered>>

\* The GET fails with anything but 404: the view stays as it is.
FetchFails(t) ==
    /\ fetch[t] # Idle
    /\ Fault
    /\ fetch' = [fetch EXCEPT ![t] = Idle]
    /\ missed' = [missed EXCEPT ![t] = TRUE]
    /\ UNCHANGED <<dbVars, reqVars, view, tick, formVars, marks, reordered>>

-----------------------------------------------------------------------------
(* The user *)

Shown(t) == view[t] \notin {None, Away}

\* The bounds: edits and faults share one; a form is of no use once no request may be sent.
CountEdit == edits + faults < MaxEdits /\ sent < MaxRequests /\ edits' = edits + 1

CanSend(t) == pc[t] = "idle" /\ sent < MaxRequests /\ Shown(t)

Send(t, label, r) ==
    /\ Goto(t, label)
    /\ req' = [req EXCEPT ![t] = r]
    /\ sent' = sent + 1

\* patch: the status goes to the position, whatever task is there by then.  id
\* is the task the user means.
PatchTask(t, i, id, status) ==
    /\ Send(t, "patch", [op |-> "task", seq |-> i, status |-> status])
    /\ marks' = marks \union {[id |-> id, status |-> status, by |-> t]}

\* toggleDone, and onFail on a failed task, which clears the failure.
Toggle(t) ==
    /\ CanSend(t) /\ draft[t] = None
    /\ \E i \in DOMAIN view[t].tasks :
          LET task == view[t].tasks[i]
          IN  \E new \in CASE task.status = "done"   -> {""}
                           [] task.status = "failed" -> {"", "done"}
                           [] OTHER                  -> {"done"} :
                 PatchTask(t, i, task.id, new)
    /\ UNCHANGED <<dbVars, viewVars, formVars, missed, reordered, faults>>

\* onFail on a task that has not failed, and editReason on one that has.
OpenFailForm(t) ==
    /\ Shown(t) /\ draft[t] = None
    /\ CountEdit
    /\ \E i \in DOMAIN view[t].tasks :
        /\ pc[t] = "idle" \/ view[t].tasks[i].status = "failed"
        /\ failing' = [failing EXCEPT ![t] = [index |-> i, id |-> view[t].tasks[i].id]]
    /\ UNCHANGED <<dbVars, reqVars, viewVars, draft, historyVars, faults>>

CancelFail(t) ==
    /\ failing[t] # None
    /\ failing' = [failing EXCEPT ![t] = None]
    /\ UNCHANGED <<dbVars, reqVars, viewVars, draft, edits, historyVars, faults>>

\* saveFailure: the form sits at the task that has the index by now.
SaveFailure(t) ==
    /\ CanSend(t) /\ draft[t] = None
    /\ failing[t] # None
    /\ failing[t].index \in DOMAIN view[t].tasks
    /\ PatchTask(t, failing[t].index, failing[t].id, "failed")
    /\ UNCHANGED <<dbVars, viewVars, formVars, missed, reordered, faults>>

\* The button is enabled whatever request or fetch is under way.
EnterEdit(t) ==
    /\ Shown(t) /\ draft[t] = None
    /\ CountEdit
    /\ draft' = [draft EXCEPT ![t] = view[t]]
    /\ UNCHANGED <<dbVars, reqVars, viewVars, failing, historyVars, faults>>

CancelEdit(t) ==
    /\ Shown(t) /\ draft[t] # None
    /\ draft' = [draft EXCEPT ![t] = None]
    /\ UNCHANGED <<dbVars, reqVars, viewVars, failing, edits, historyVars, faults>>

ChangeDraft(t, d) ==
    /\ Shown(t)
    /\ CountEdit
    /\ draft' = [draft EXCEPT ![t] = d]
    /\ UNCHANGED <<dbVars, reqVars, viewVars, failing, historyVars, faults>>

\* patchDraft and setPair; editDraftTask changes the wording of a task only.
PatchDraft(t) ==
    /\ draft[t] # None
    /\ \/ ChangeDraft(t, [draft[t] EXCEPT !.head = edits + 2])
       \/ ChangeDraft(t, [draft[t] EXCEPT !.pair = edits + 2])

AddDraftTask(t) ==
    /\ draft[t] # None
    /\ ChangeDraft(t, WithTasks(draft[t],
                                Append(draft[t].tasks, NewTask(InitTasks + edits + 1))))

RemoveDraftTask(t) ==
    /\ draft[t] # None
    /\ \E i \in DOMAIN draft[t].tasks :
          ChangeDraft(t, WithTasks(draft[t], RemoveAt(draft[t].tasks, i)))

MoveDraftTask(t) ==
    /\ draft[t] # None
    /\ \E i \in DOMAIN draft[t].tasks :
          /\ i + 1 \in DOMAIN draft[t].tasks
          /\ ChangeDraft(t, WithTasks(draft[t], Swapped(draft[t].tasks, i)))

SaveDraft(t) ==
    /\ CanSend(t) /\ draft[t] # None
    /\ Send(t, "update", [op |-> "save", body |-> draft[t]])
    /\ UNCHANGED <<dbVars, viewVars, formVars, historyVars, faults>>

ConfirmDelete(t) ==
    /\ CanSend(t) /\ draft[t] = None
    /\ Send(t, "delete", [op |-> "delete"])
    /\ UNCHANGED <<dbVars, viewVars, formVars, historyVars, faults>>

-----------------------------------------------------------------------------
(* The handlers *)

\* Task updates that wait for the rows a save has deleted.
Blocked == {q \in Tabs : pc[q] = "blocked"}

\* Faulty variant: the number of rows the UPDATE changed is not looked at, and
\* the row is inserted when it is missing.
Update_Upsert(t) ==
    /\ pc[t] = "update" /\ lock = None
    /\ lock' = t /\ Goto(t, "tables")
    /\ UNCHANGED <<db, req, sent, viewVars, formVars, historyVars, faults>>

\* UpdateRollout, the UPDATE of the rollouts row; 404 when it is gone.  Begin and the
\* UPDATE may fail, also while it waits for the row.
Update(t) ==
    /\ pc[t] = "update"
    /\ \/ /\ lock = None
          /\ IF db = None
             THEN Goto(t, "error") /\ UNCHANGED lock
             ELSE Goto(t, "tables") /\ lock' = t
          /\ UNCHANGED faults
       \/ Fault /\ Goto(t, "error") /\ UNCHANGED lock
    /\ UNCHANGED <<db, req, sent, viewVars, formVars, historyVars>>

\* UpdateRollout replaces the rows of the child tables; task rows are locked.
ReplaceTables(t) ==
    /\ pc[t] = "tables"
    /\ Goto(t, "commit")
    /\ UNCHANGED <<dbVars, req, sent, viewVars, formVars, historyVars, faults>>

\* Faulty variant: the tasks are stamped with the user who saves.
Stored_Restamped(t) ==
    [req[t].body EXCEPT !.tasks =
        [i \in DOMAIN @ |-> IF @[i].status = "" THEN @[i]
                            ELSE [@[i] EXCEPT !.by = t]]]

\* What the transaction of t has written: the body, completion log included.
Stored(t) == req[t].body

IdsOf(s) == [i \in DOMAIN s |-> s[i].id]

\* The new task list does more than append to the old one.
Reorders(old, new) ==
    old # None /\ ~IsPrefix(IdsOf(old.tasks), IdsOf(new.tasks))

\* The save commits.  A task update that waits for it matches no row any more,
\* which is not an error.
Commit(t) ==
    /\ pc[t] = "commit"
    /\ db' = Stored(t)
    /\ lock' = None
    /\ pc' = [q \in Tabs |-> IF q = t THEN "reread"
                            ELSE IF q \in Blocked THEN "broadcast" ELSE pc[q]]
    /\ reordered' = (reordered \/ Reorders(db, db'))
    /\ UNCHANGED <<req, sent, viewVars, formVars, missed, marks, faults>>

\* Faulty variant: no deferred Rollback.
Abort_NoRollback(t) ==
    /\ pc[t] \in {"tables", "commit"}
    /\ Fault
    /\ Goto(t, "error")
    /\ UNCHANGED <<dbVars, req, sent, viewVars, formVars, historyVars>>

\* A statement or the commit fails: the deferred Rollback ends the transaction,
\* and a task update that waits for it goes on.
Abort(t) ==
    /\ pc[t] \in {"tables", "commit"}
    /\ Fault
    /\ lock' = None
    /\ pc' = [q \in Tabs |-> IF q = t THEN "error"
                            ELSE IF q \in Blocked THEN "patch" ELSE pc[q]]
    /\ UNCHANGED <<db, req, sent, viewVars, formVars, historyVars>>

\* UpdateRollout reads the rollout back after the commit.  When that fails the
\* handler returns the error and nobody is told of the change.
Reread(t) ==
    /\ pc[t] = "reread"
    /\ \/ /\ Goto(t, IF db = None THEN "error" ELSE "broadcast")
          /\ UNCHANGED <<missed, faults>>
       \/ /\ Fault
          /\ Goto(t, "error")
          /\ missed' = [q \in Tabs |-> TRUE]
    /\ UNCHANGED <<dbVars, req, sent, viewVars, formVars, marks, reordered>>

RowExists(i) == IF db = None THEN FALSE ELSE i \in DOMAIN db.tasks

\* UpdateRolloutTask: the row at the position, if there is one.
Patch(t) ==
    LET r == req[t] IN
    /\ pc[t] = "patch"
    /\ \/ /\ RowExists(r.seq)
          /\ \E q \in Tabs : pc[q] = "commit"
          /\ Goto(t, "blocked") /\ UNCHANGED <<db, faults>>
       \/ /\ RowExists(r.seq)
          /\ \A q \in Tabs : pc[q] # "commit"
          /\ db' = MarkedBy(db, r.seq, r.status, t)
          /\ Goto(t, "broadcast") /\ UNCHANGED faults
       \/ /\ ~RowExists(r.seq)
          /\ Goto(t, "broadcast") /\ UNCHANGED <<db, faults>>
       \/ Fault /\ Goto(t, "error") /\ UNCHANGED db
    /\ UNCHANGED <<lock, req, sent, viewVars, formVars, historyVars>>

\* DeleteRollout, with the rows of the child tables.
Delete(t) ==
    /\ pc[t] = "delete"
    /\ \/ /\ lock = None
          /\ db' = None
          /\ Goto(t, IF db = None THEN "error" ELSE "broadcast")
          /\ UNCHANGED faults
       \/ Fault /\ Goto(t, "error") /\ UNCHANGED db
    /\ UNCHANGED <<lock, req, sent, viewVars, formVars, historyVars>>

\* Hub.Broadcast, after the reschedule (Notifications): every tab bumps its refresh
\* bus in due course.
Broadcast(t) ==
    /\ pc[t] = "broadcast"
    /\ Goto(t, "answer")
    /\ tick' = [q \in Tabs |-> TRUE]
    /\ UNCHANGED <<dbVars, req, sent, view, fetch, formVars, historyVars, faults>>

\* The tab gets its 2xx: it bumps its bus and closes what the request was for,
\* whichever draft or form is open by now; after a delete it goes elsewhere.
Answer(t) ==
    LET op == req[t].op IN
    /\ pc[t] = "answer"
    /\ Goto(t, "idle")
    /\ req' = [req EXCEPT ![t] = None]
    /\ tick' = [tick EXCEPT ![t] = op # "delete"]
    /\ draft' = [draft EXCEPT ![t] = IF op = "task" THEN @ ELSE None]
    /\ failing' = [failing EXCEPT ![t] = IF op = "save" THEN @ ELSE None]
    /\ view' = [view EXCEPT ![t] = IF op = "delete" THEN Away ELSE @]
    /\ fetch' = [fetch EXCEPT ![t] = IF op = "delete" THEN Idle ELSE @]
    /\ UNCHANGED <<dbVars, sent, edits, historyVars, faults>>

\* Faulty variant: the tab stays busy.
AnswerError_StaysBusy(t) ==
    /\ pc[t] = "error"
    /\ req' = [req EXCEPT ![t] = None]
    /\ UNCHANGED <<dbVars, pc, sent, viewVars, formVars, historyVars, faults>>

\* The tab gets the error; draft and form stay open.
AnswerError(t) ==
    /\ pc[t] = "error"
    /\ Goto(t, "idle")
    /\ req' = [req EXCEPT ![t] = None]
    /\ UNCHANGED <<dbVars, sent, viewVars, formVars, historyVars, faults>>

-----------------------------------------------------------------------------
ViewStep(t) ==
    \/ Refetch(t) \/ ReadHead(t) \/ ReadLists(t) \/ ReadTasks(t) \/ Render(t)
    \/ ReadCut(t) \/ FetchFails(t)

UserStep(t) ==
    \/ Toggle(t) \/ OpenFailForm(t) \/ CancelFail(t) \/ SaveFailure(t)
    \/ EnterEdit(t) \/ CancelEdit(t) \/ PatchDraft(t) \/ AddDraftTask(t)
    \/ RemoveDraftTask(t) \/ MoveDraftTask(t) \/ SaveDraft(t) \/ ConfirmDelete(t)

ServerStep(t) ==
    \/ Update(t) \/ ReplaceTables(t) \/ Commit(t) \/ Abort(t) \/ Reread(t)
    \/ Patch(t) \/ Delete(t) \/ Broadcast(t) \/ Answer(t) \/ AnswerError(t)

Next == \E t \in Tabs : ViewStep(t) \/ UserStep(t) \/ ServerStep(t)

Spec == Init /\ [][Next]_vars

-----------------------------------------------------------------------------
(* Properties *)

Labels == {"idle", "update", "tables", "commit", "reread", "patch", "blocked",
           "delete", "broadcast", "answer", "error"}
FetchState == [at : {"idle", "head"}, got : {None}]
              \union [at : {"lists", "tasks", "answer"}, got : Rollout]

DbTypeOK == db \in Rollout \union {None} /\ lock \in Tabs \union {None}

ReqTypeOK ==
    /\ pc \in [Tabs -> Labels]
    /\ req \in [Tabs -> Request \union {None}]
    /\ sent \in 0..MaxRequests
    /\ \A t \in Tabs :
        /\ (req[t] = None) = (pc[t] = "idle")
        /\ pc[t] \in {"update", "tables", "commit"} => req[t] \in SaveRequest
        /\ pc[t] \in {"patch", "blocked"} => req[t] \in TaskRequest

ViewTypeOK ==
    /\ view \in [Tabs -> Rollout \union {None, Away}]
    /\ fetch \in [Tabs -> FetchState]
    /\ tick \in [Tabs -> BOOLEAN]

FormTypeOK ==
    /\ draft \in [Tabs -> Rollout \union {None}]
    /\ failing \in [Tabs -> FailForm \union {None}]
    /\ edits \in 0..MaxEdits

HistoryTypeOK ==
    /\ missed \in [Tabs -> BOOLEAN]
    /\ marks \subseteq [id : Nat \ {0}, status : Statuses, by : Tabs]
    /\ reordered \in BOOLEAN
    /\ faults \in 0..MaxFaults

\* The state is well formed: a tab is busy exactly while it has a mutation under
\* way, the handlers get the bodies they decode, and a GET past its first statement
\* has a rollout to fill.
TypeOK == DbTypeOK /\ ReqTypeOK /\ ViewTypeOK /\ FormTypeOK /\ HistoryTypeOK

\* A task recorded as done or failed by a user was marked so by that user, through
\* stale drafts, positions and concurrent saves, as long as nobody's save has moved
\* or removed a task (updateTask and UpdateRollout know tasks by position only).
CompletionAuthentic ==
    (db # None /\ ~reordered) =>
        \A i \in DOMAIN db.tasks :
            LET task == db.tasks[i]
            IN  task.status # "" =>
                    [id |-> task.id, status |-> task.status, by |-> task.by] \in marks

\* A tab with nothing outstanding shows the rollout exactly as it is stored: a read
\* that mixed two versions (hydrate is no transaction) is always followed by another,
\* because the save that interfered broadcasts after its commit.
SettledViewExact ==
    (\A q \in Tabs : pc[q] \notin {"reread", "broadcast"}) =>
        \A t \in Tabs :
            (view[t] # Away /\ ~tick[t] /\ fetch[t] = Idle /\ ~missed[t]) =>
                view[t] = db

\* A deleted rollout never comes back, whatever saves waited for the delete or were
\* sent from tabs that still showed it (UpdateRollout checks RowsAffected).
NoResurrection == [][db = None => db' = None]_vars

\* Nobody waits for rows that nobody will release: the row of the rollout is held
\* only by a save whose transaction is still running and waits for nothing, and a
\* task update waits only for the save that holds it (the deferred Rollback of
\* UpdateRollout ends the transaction on every path).
WaitsEnd ==
    /\ lock # None => pc[lock] \in {"tables", "commit"}
    /\ Blocked # {} => lock # None /\ pc[lock] = "commit"
=============================================================================
