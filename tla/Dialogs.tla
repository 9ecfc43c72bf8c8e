------------------------------ MODULE Dialogs ------------------------------
(***************************************************************************)
(* The create and edit dialogs of the browser tabs and the requests they   *)
(* send: dialog.store.ts, create-rollout-modal, create-lock-modal, the     *)
(* locks page and the shell that hosts the dialogs, with the lock handlers *)
(* and createRollout of the server.                                        *)
(*                                                                         *)
(* A request is not cancelled when its dialog closes, and its answer calls *)
(* close() of the one DialogStore of the tab, whatever is open by then.    *)
(* What a form holds is reduced to what is checked or can fail: whether    *)
(* the title is filled and the start can be read as a date, whether a lock *)
(* ends after it starts and its products, and the version of the rollout   *)
(* type a cascade was planned from.                                        *)
(***************************************************************************)
EXTENDS Integers, FiniteSets

CONSTANTS
    Tabs,
    LockIds,        \* ids the server may give; uuids, so never given twice
    Stored,         \* the locks of the start
    Products,
    MaxReqs,        \* bound: requests sent
    MaxOpens,       \* bound: dialogs opened
    MaxFaults,      \* bound: requests that fail or whose answer is lost
    MaxSaves,       \* bound: changes of the rollout type
    None

LockBodies == [endsAfter : BOOLEAN, products : SUBSET (Products \union {"all"})]
LockRows == [id : LockIds, lock : LockBodies]

\* The component of a dialog; typeSeen is the version of the type it has fetched.
Modals ==
    [inst : Nat, kind : {"rollout", "lock"}, editId : LockIds \union {None}, title : BOOLEAN, start : BOOLEAN,
     lock : LockBodies, typeSeen : Nat \union {None}, submitting : BOOLEAN]

Requests ==
    [tab : Tabs, inst : Nat, phase : {"sent", "read", "ok", "error"},
     op : {"createRollout", "createLock", "updateLock", "deleteLock"}, id : LockIds \union {None},
     lock : LockBodies \union {None}, stages : Nat \union {None}, tasks : Nat \union {None}]

ASSUME DialogsAssumption ==
    /\ "all" \notin Products
    /\ MaxReqs \in Nat /\ MaxOpens \in Nat /\ MaxFaults \in Nat /\ MaxSaves \in Nat
    /\ Stored \subseteq LockIds
    /\ None \notin LockIds /\ None \notin LockBodies
    /\ None \notin Modals /\ None \notin Requests

VARIABLES
    open,           \* DialogStore.open of each tab
    lockEdit,       \* DialogStore.lockEdit
    modal,          \* the modal component on screen, None without one
    shown,          \* the rows of the locks page, None on another page
    confirmingId,   \* LocksViewComponent.confirmingId
    orphans,        \* deletes whose page has been left: their answer reaches a component that is gone
    req,            \* requests under way, None before and after
    sent,           \* number of requests sent so far
    locks,          \* the locks table
    gone,           \* ids of deleted locks
    rollouts,       \* rollouts created here
    typeVer,        \* version of the rollout type in the database
    opens,          \* dialogs opened so far
    errors,         \* errors shown by each dialog
    abandoned,      \* dialogs that closed while submitting
    threw,          \* dialogs whose submit ended in an exception
    faults

vars == <<open, lockEdit, modal, shown, confirmingId, orphans, req, sent, locks, gone,
          rollouts, typeVer, opens, errors, abandoned, threw, faults>>

tabVars == <<open, lockEdit, modal>>
pageVars == <<shown, confirmingId, orphans>>
dbVars == <<locks, gone, rollouts, typeVer>>
ghostVars == <<opens, errors, abandoned, threw>>

Reqs == 1..MaxReqs

-----------------------------------------------------------------------------
(* The dialogs *)

\* The signals of a new component; an edited lock fills the form.
NewModal(n, kind, existing) ==
    [inst |-> n, kind |-> kind,
     editId |-> IF existing = None THEN None ELSE existing.id,
     title |-> existing # None, start |-> TRUE,
     lock |-> IF existing = None THEN [endsAfter |-> TRUE, products |-> {"all"}] ELSE existing.lock,
     typeSeen |-> None, submitting |-> FALSE]

\* The scrim and the focus trap keep the pages behind an open dialog out of reach.
OpenDialog(t, kind, existing) ==
    /\ open[t] = "none"
    /\ opens < MaxOpens
    /\ opens' = opens + 1
    /\ open' = [open EXCEPT ![t] = kind]
    /\ modal' = [modal EXCEPT ![t] = NewModal(opens + 1, kind, existing)]
    /\ UNCHANGED <<pageVars, req, sent, dbVars, errors, abandoned, threw, faults>>

openRollout(t) == OpenDialog(t, "rollout", None) /\ UNCHANGED lockEdit

openLock(t, existing) ==
    /\ OpenDialog(t, "lock", existing)
    /\ lockEdit' = [lockEdit EXCEPT ![t] = existing]

onCreateRollout(t) == openRollout(t)
onCreateLock(t) == openLock(t, None)

\* Edit on the locks page, with the row as it was listed.
edit(t) ==
    /\ shown[t] # None
    /\ \E l \in shown[t] : openLock(t, l)

Abandon(t) ==
    abandoned' = IF modal[t] # None /\ modal[t].submitting THEN abandoned \union {modal[t].inst} ELSE abandoned

CloseStore(t) ==
    /\ open' = [open EXCEPT ![t] = "none"]
    /\ lockEdit' = [lockEdit EXCEPT ![t] = None]
    /\ modal' = [modal EXCEPT ![t] = None]

\* Escape, the scrim, the cross and Cancel, also while a request is under way.
close(t) ==
    /\ open[t] # "none"
    /\ CloseStore(t)
    /\ Abandon(t)
    /\ UNCHANGED <<pageVars, req, sent, dbVars, opens, errors, threw, faults>>

SetForm(t, fields) ==
    /\ modal' = [modal EXCEPT ![t] = fields]
    /\ fields # modal[t]
    /\ UNCHANGED <<open, lockEdit, pageVars, req, sent, dbVars, ghostVars, faults>>

\* The products and types of the new rollout dialog are fetched once, when it
\* opens, and the first of each is selected; a failed fetch leaves them empty.
ListsArrive(t) ==
    /\ open[t] = "rollout" /\ modal[t].typeSeen = None
    /\ SetForm(t, [modal[t] EXCEPT !.typeSeen = typeVer])

typeTitle(t) ==
    /\ open[t] # "none"
    /\ SetForm(t, [modal[t] EXCEPT !.title = TRUE])

\* A date or time field that is cleared or half filled has an empty value.
setStart(t, readable) ==
    /\ open[t] # "none"
    /\ SetForm(t, [modal[t] EXCEPT !.start = readable])

\* Start and end are free text of two fields; nothing compares them here.
setTimes(t, after) ==
    /\ open[t] = "lock"
    /\ SetForm(t, [modal[t] EXCEPT !.lock.endsAfter = after])

selectAll(t) ==
    /\ open[t] = "lock"
    /\ SetForm(t, [modal[t] EXCEPT !.lock.products = {"all"}])

toggleProduct(t, id) ==
    /\ open[t] = "lock"
    /\ SetForm(t, [modal[t] EXCEPT !.lock.products =
                      IF "all" \in @ THEN {id} ELSE IF id \in @ THEN @ \ {id} ELSE @ \union {id}])

canSubmitTwice(m) ==
    /\ m.title
    /\ m.kind = "rollout" => m.typeSeen # None
    /\ m.kind = "lock" => m.start /\ m.lock.products # {}

canSubmit(m) ==
    /\ m.title
    /\ m.kind = "rollout" => m.typeSeen # None
    /\ m.kind = "lock" => m.start /\ m.lock.products # {}
    /\ ~m.submitting

Request(t, m) ==
    [tab |-> t, inst |-> m.inst, phase |-> "sent",
     op |-> IF m.kind = "rollout" THEN "createRollout" ELSE IF m.editId = None THEN "createLock" ELSE "updateLock",
     id |-> m.editId, lock |-> m.lock,
     stages |-> m.typeSeen, tasks |-> None]

Submitting(m, b) == [m EXCEPT !.submitting = b]

\* submit() of both dialogs.
submit(t, i) ==
    /\ open[t] # "none" /\ canSubmit(modal[t]) /\ modal[t].start
    /\ i = sent + 1
    /\ sent' = i
    /\ req' = [req EXCEPT ![i] = Request(t, modal[t])]
    /\ modal' = [modal EXCEPT ![t] = Submitting(@, TRUE)]
    /\ UNCHANGED <<open, lockEdit, pageVars, dbVars, ghostVars, faults>>

\* submit() with a start that is no date: canSubmit of the new rollout does not look
\* at it, and toISOString in cascadeStages throws after submitting was set.
submitThrows(t) ==
    /\ open[t] # "none" /\ canSubmit(modal[t]) /\ ~modal[t].start
    /\ modal' = [modal EXCEPT ![t] = Submitting(@, TRUE)]
    /\ threw' = threw \union {modal[t].inst}
    /\ UNCHANGED <<open, lockEdit, pageVars, req, sent, dbVars, opens, errors, abandoned, faults>>

-----------------------------------------------------------------------------
(* The locks page *)

Visit(t) ==
    /\ shown[t] = None /\ open[t] = "none"
    /\ shown' = [shown EXCEPT ![t] = {}]
    /\ UNCHANGED <<tabVars, confirmingId, orphans, req, sent, dbVars, ghostVars, faults>>

LeavePage(t) ==
    /\ shown' = [shown EXCEPT ![t] = None]
    /\ confirmingId' = [confirmingId EXCEPT ![t] = None]
    /\ orphans' = orphans \union {i \in Reqs : req[i] # None /\ req[i].tab = t /\ req[i].op = "deleteLock"}

Leave(t) ==
    /\ shown[t] # None /\ open[t] = "none"
    /\ LeavePage(t)
    /\ UNCHANGED <<tabVars, req, sent, dbVars, ghostVars, faults>>

Listing == {[id |-> l, lock |-> locks[l]] : l \in {k \in LockIds : locks[k] # None}}

\* A refetch follows every bump, of this tab or of the live channel (LiveUpdates);
\* here it may be answered at any moment.  An error is taken for an empty list.
Refetch(t, rows) ==
    /\ shown[t] # None /\ shown[t] # rows
    /\ shown' = [shown EXCEPT ![t] = rows]
    /\ UNCHANGED <<tabVars, confirmingId, orphans, req, sent, dbVars, ghostVars, faults>>

RefetchAnswered(t) == Refetch(t, Listing)
RefetchFails(t) == Refetch(t, {})

AskRemove(t, id) ==
    /\ shown[t] # None /\ open[t] = "none"
    /\ \E l \in shown[t] : l.id = id
    /\ confirmingId[t] # id
    /\ confirmingId' = [confirmingId EXCEPT ![t] = id]
    /\ UNCHANGED <<tabVars, shown, orphans, req, sent, dbVars, ghostVars, faults>>

CancelRemove(t) ==
    /\ confirmingId[t] # None /\ open[t] = "none"
    /\ confirmingId' = [confirmingId EXCEPT ![t] = None]
    /\ UNCHANGED <<tabVars, shown, orphans, req, sent, dbVars, ghostVars, faults>>

RemoveRequest(t, id) ==
    [tab |-> t, inst |-> 0, phase |-> "sent", op |-> "deleteLock", id |-> id,
     lock |-> None, stages |-> None, tasks |-> None]

\* Confirm stands in the row it was asked for, as long as the row is listed.
confirmRemove(t, i) ==
    /\ confirmingId[t] # None /\ open[t] = "none"
    /\ \E l \in shown[t] : l.id = confirmingId[t]
    /\ i = sent + 1
    /\ sent' = i
    /\ req' = [req EXCEPT ![i] = RemoveRequest(t, confirmingId[t])]
    /\ UNCHANGED <<tabVars, pageVars, dbVars, ghostVars, faults>>

-----------------------------------------------------------------------------
(* The server *)

Phased(r, phase) == [r EXCEPT !.phase = phase]
Reply(i, phase) == req' = [req EXCEPT ![i] = Phased(@, phase)]

ServerKeeps == UNCHANGED <<tabVars, pageVars, sent, ghostVars, faults>>

Incoming(i, op) == req[i] # None /\ req[i].phase = "sent" /\ req[i].op = op

normalizeAndValidateLock(r) == r.lock.endsAfter

\* 400: the lock of the request is refused.
refuseLock(i) ==
    /\ Incoming(i, "createLock") \/ Incoming(i, "updateLock")
    /\ ~normalizeAndValidateLock(req[i])
    /\ Reply(i, "error")
    /\ UNCHANGED dbVars /\ ServerKeeps

\* A new lock gets an id that no lock has or had.
createLock(i, l) ==
    /\ Incoming(i, "createLock") /\ normalizeAndValidateLock(req[i])
    /\ locks[l] = None /\ l \notin gone
    /\ locks' = [locks EXCEPT ![l] = req[i].lock]
    /\ Reply(i, "ok")
    /\ UNCHANGED <<gone, rollouts, typeVer>> /\ ServerKeeps

UpsertLock(i) ==
    /\ Incoming(i, "updateLock") /\ normalizeAndValidateLock(req[i])
    /\ locks' = [locks EXCEPT ![req[i].id] = req[i].lock]
    /\ Reply(i, "ok")
    /\ UNCHANGED <<gone, rollouts, typeVer>> /\ ServerKeeps

updateLock(i) ==
    /\ Incoming(i, "updateLock") /\ normalizeAndValidateLock(req[i])
    /\ locks[req[i].id] # None
    /\ locks' = [locks EXCEPT ![req[i].id] = req[i].lock]
    /\ Reply(i, "ok")
    /\ UNCHANGED <<gone, rollouts, typeVer>> /\ ServerKeeps

deleteLock(i) ==
    /\ Incoming(i, "deleteLock")
    /\ locks[req[i].id] # None
    /\ locks' = [locks EXCEPT ![req[i].id] = None]
    /\ gone' = gone \union {req[i].id}
    /\ Reply(i, "ok")
    /\ UNCHANGED <<rollouts, typeVer>> /\ ServerKeeps

\* 404: no row was affected.
lockNotFound(i) ==
    /\ \/ Incoming(i, "updateLock") /\ normalizeAndValidateLock(req[i])
       \/ Incoming(i, "deleteLock")
    /\ locks[req[i].id] = None
    /\ Reply(i, "error")
    /\ UNCHANGED dbVars /\ ServerKeeps

WithTasks(r, ver) == [r EXCEPT !.phase = "read", !.tasks = ver]

readTypeCached(i) ==
    /\ Incoming(i, "createRollout")
    /\ req' = [req EXCEPT ![i] = WithTasks(@, 0)]
    /\ UNCHANGED dbVars /\ ServerKeeps

\* CreateRollout reads the type first and begins its transaction afterwards.
readType(i) ==
    /\ Incoming(i, "createRollout")
    /\ req' = [req EXCEPT ![i] = WithTasks(@, typeVer)]
    /\ UNCHANGED dbVars /\ ServerKeeps

commitRollout(i) ==
    /\ req[i] # None /\ req[i].phase = "read"
    /\ rollouts' = rollouts \union {[req |-> i, inst |-> req[i].inst, stages |-> req[i].stages, tasks |-> req[i].tasks]}
    /\ Reply(i, "ok")
    /\ UNCHANGED <<locks, gone, typeVer>> /\ ServerKeeps

\* A 500, or a connection that breaks before the request or before its answer.
Fail(i) ==
    /\ req[i] # None /\ req[i].phase \in {"sent", "read", "ok"}
    /\ faults < MaxFaults
    /\ faults' = faults + 1
    /\ Reply(i, "error")
    /\ UNCHANGED <<tabVars, pageVars, sent, dbVars, ghostVars>>

\* Another user saves the rollout type: plan and tasks together.
saveType ==
    /\ typeVer < MaxSaves
    /\ typeVer' = typeVer + 1
    /\ UNCHANGED <<tabVars, pageVars, req, sent, locks, gone, rollouts, ghostVars, faults>>

-----------------------------------------------------------------------------
(* The answers *)

Done(i) == req' = [req EXCEPT ![i] = None]

\* next of both submits: bump, close whatever dialog is open and, for a rollout,
\* go to its page.
Succeeded(i) ==
    /\ req[i] # None /\ req[i].phase = "ok" /\ req[i].op # "deleteLock"
    /\ LET t == req[i].tab
       IN /\ CloseStore(t) /\ Abandon(t)
          /\ IF req[i].op = "createRollout" THEN LeavePage(t) ELSE UNCHANGED pageVars
    /\ Done(i)
    /\ UNCHANGED <<sent, dbVars, opens, errors, threw, faults>>

OnScreen(i) == modal[req[i].tab] # None /\ modal[req[i].tab].inst = req[i].inst

FailedAndClosed(i) ==
    /\ req[i] # None /\ req[i].phase = "error" /\ req[i].op # "deleteLock"
    /\ CloseStore(req[i].tab)
    /\ Done(i)
    /\ UNCHANGED <<pageVars, sent, dbVars, ghostVars, faults>>

FailedStillSubmitting(i) ==
    /\ req[i] # None /\ req[i].phase = "error" /\ req[i].op # "deleteLock"
    /\ Done(i)
    /\ UNCHANGED <<tabVars, pageVars, sent, dbVars, ghostVars, faults>>

\* error of both submits; it reaches no dialog that is gone.
Failed(i) ==
    /\ req[i] # None /\ req[i].phase = "error" /\ req[i].op # "deleteLock"
    /\ IF OnScreen(i)
         THEN /\ modal' = [modal EXCEPT ![req[i].tab] = Submitting(@, FALSE)]
              /\ errors' = [errors EXCEPT ![req[i].inst] = @ + 1]
         ELSE UNCHANGED <<modal, errors>>
    /\ Done(i)
    /\ UNCHANGED <<open, lockEdit, pageVars, sent, dbVars, opens, abandoned, threw, faults>>

\* Both outcomes of a delete clear the confirmation of its page, of this row or
\* another.
Removed(i) ==
    /\ req[i] # None /\ req[i].phase \in {"ok", "error"} /\ req[i].op = "deleteLock"
    /\ confirmingId' = IF i \in orphans THEN confirmingId ELSE [confirmingId EXCEPT ![req[i].tab] = None]
    /\ orphans' = orphans \ {i}
    /\ Done(i)
    /\ UNCHANGED <<tabVars, shown, sent, dbVars, ghostVars, faults>>

-----------------------------------------------------------------------------
Init ==
    /\ open = [t \in Tabs |-> "none"]
    /\ lockEdit = [t \in Tabs |-> None]
    /\ modal = [t \in Tabs |-> None]
    /\ shown = [t \in Tabs |-> None]
    /\ confirmingId = [t \in Tabs |-> None] /\ orphans = {}
    /\ req = [i \in Reqs |-> None] /\ sent = 0
    /\ locks = [l \in LockIds |-> IF l \in Stored THEN [endsAfter |-> TRUE, products |-> {"all"}] ELSE None]
    /\ gone = {} /\ rollouts = {} /\ typeVer = 0
    /\ opens = 0 /\ errors = [n \in 1..MaxOpens |-> 0] /\ abandoned = {} /\ threw = {}
    /\ faults = 0

User(t) ==
    \/ onCreateRollout(t) \/ onCreateLock(t) \/ edit(t) \/ close(t)
    \/ typeTitle(t) \/ selectAll(t) \/ submitThrows(t)
    \/ \E b \in BOOLEAN : setTimes(t, b) \/ setStart(t, b)
    \/ \E p \in Products : toggleProduct(t, p)
    \/ \E i \in Reqs : submit(t, i) \/ confirmRemove(t, i)
    \/ Visit(t) \/ Leave(t) \/ CancelRemove(t)
    \/ \E l \in LockIds : AskRemove(t, l)

Serve(i) ==
    \/ refuseLock(i) \/ updateLock(i) \/ deleteLock(i) \/ lockNotFound(i)
    \/ (\E l \in LockIds : createLock(i, l)) \/ readType(i) \/ commitRollout(i)

Answer(i) == Succeeded(i) \/ Failed(i) \/ Removed(i)

Next ==
    \/ \E t \in Tabs : User(t) \/ ListsArrive(t) \/ RefetchAnswered(t) \/ RefetchFails(t)
    \/ \E i \in Reqs : Serve(i) \/ Fail(i) \/ Answer(i)
    \/ saveType

Spec == Init /\ [][Next]_vars

-----------------------------------------------------------------------------
(* Properties *)

TypeOK ==
    /\ open \in [Tabs -> {"none", "rollout", "lock"}]
    /\ modal \in [Tabs -> Modals \union {None}]
    /\ \A t \in Tabs : IF open[t] = "none" THEN modal[t] = None ELSE modal[t] # None /\ modal[t].kind = open[t]
    /\ shown \in [Tabs -> (SUBSET LockRows) \union {None}]
    /\ confirmingId \in [Tabs -> LockIds \union {None}] /\ orphans \subseteq Reqs
    /\ req \in [Reqs -> Requests \union {None}]
    /\ locks \in [LockIds -> LockBodies \union {None}]
    /\ gone \subseteq LockIds
    /\ sent \in Nat /\ typeVer \in Nat /\ opens \in Nat /\ threw \subseteq 1..opens
    /\ \A i \in Reqs : req[i] # None => i <= sent

\* A deleted lock stays deleted, whatever dialog was still editing it and whatever
\* request was under way (UpdateLock, DeleteLock: no row affected is a 404).
NoLockResurrection == \A l \in gone : locks[l] = None

\* A dialog stores at most one rollout more than the errors it has shown: a second
\* one takes a retry after an error whose request was committed all the same
\* (submit, canSubmit, CreateRollout).
DuplicatesOnlyAfterError ==
    \A n \in 1..opens : Cardinality({r \in rollouts : r.inst = n}) <= 1 + errors[n]

\* A rollout gets its stages from the plan the dialog fetched and its tasks from
\* the type as the server read it, before its transaction: the tasks are never
\* older than the stages, and never newer than the type.
TasksNotOlder == \A r \in rollouts : r.stages <= r.tasks /\ r.tasks <= typeVer

\* A dialog that closes without its user closes because something was stored: by
\* the success of its own request, or by that of another dialog of the tab that
\* closed while it was submitting.  An error never takes the input away.
ClosedOnlyBySuccess ==
    [][\A t \in Tabs :
          open[t] # "none" /\ open'[t] = "none" /\ req' # req =>
              \E i \in Reqs :
                  /\ req[i] # None /\ req'[i] = None /\ req[i].tab = t /\ req[i].phase = "ok"
                  /\ req[i].inst = modal[t].inst \/ req[i].inst \in abandoned]_vars

\* A dialog in "Creating" or "Saving", where its button is disabled, has its request
\* under way: whatever ends the request, an answer, a refusal or a broken connection,
\* enables the button or closes the dialog.  The one exception is a new rollout whose
\* start could not be read: submit() has thrown and sent nothing, so the dialog stays
\* in "Creating" until its user closes it.
StuckOnlyUnreadable ==
    \A t \in Tabs :
        modal[t] # None /\ modal[t].submitting =>
            LET underWay == {i \in Reqs : req[i] # None /\ req[i].tab = t /\ req[i].inst = modal[t].inst}
            IN  IF modal[t].inst \in threw
                THEN modal[t].kind = "rollout" /\ underWay = {}
                ELSE underWay # {}

=============================================================================
