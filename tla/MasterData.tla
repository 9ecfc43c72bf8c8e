----------------------------- MODULE MasterData -----------------------------
(***************************************************************************)
(* Master data: the page with its drafts (master-data-view.component.ts),  *)
(* upsertProduct and upsertRolloutType of the server and the listing and   *)
(* saving of rollout types in the repository, over a pool of connections.  *)
(*                                                                         *)
(* A type is a row (name, plan) and its tasks in a second table.  A save   *)
(* is a transaction that writes the row, which locks it, deletes the tasks *)
(* it sees and inserts its own; a listing reads the rows with one query,   *)
(* keeps its connection, and reads the tasks of each row with another one. *)
(* A name stands for every plain attribute and is its own slug.            *)
(***************************************************************************)
EXTENDS Integers, Sequences, FiniteSets, SequencesExt

CONSTANTS
    Tabs,
    Names,          \* names of types, and so the ids made from them
    Stored,         \* the types of the start, by id
    Tasks,          \* texts a user may enter for a task
    Stages,         \* keys of STAGE
    PoolSize,       \* connections of the pool
    MaxSaves,       \* bound: saves
    MaxEdits,       \* bound: changes of a draft
    MaxFaults,      \* bound: failures
    None

\* A type as the two tables hold it: the row, and the lists of tasks that were inserted.
Lists == Seq(STRING)
Plans == Seq([stage : STRING, delayHours : Int])
Types == [name : Names, plan : Plans, tasks : SUBSET Lists]

ASSUME MasterDataAssumption ==
    /\ PoolSize \in Nat \ {0} /\ Names # {} /\ None \notin Names
    /\ Tasks \subseteq STRING /\ Stages \subseteq STRING /\ "non-prod" \in Stages
    /\ Stored \in [Names -> Types \union {None}]
    /\ MaxSaves \in Nat /\ MaxEdits \in Nat /\ MaxFaults \in Nat

VARIABLES
    types,          \* rollout_types and rollout_type_tasks, by id
    version,        \* how often each type was committed
    products,       \* the products table: the value of the one product
    typeDraft,      \* typeDraft and productDraft of each tab
    productDraft,
    shown,          \* the types the page lists
    saving,         \* the flag both save buttons are disabled by
    save,           \* the saves, in the order they were sent
    listing,        \* the listing each tab has asked for
    edits,
    faults

vars == <<types, version, products, typeDraft, productDraft, shown, saving, save, listing, edits, faults>>

storeVars == <<types, version, products>>
pageVars == <<typeDraft, productDraft, shown, saving>>

-----------------------------------------------------------------------------
(* The drafts *)

newType == [id |-> None, name |-> CHOOSE n \in Names : TRUE,
            plan |-> <<[stage |-> "non-prod", delayHours |-> 0]>>, tasks |-> <<>>]

patchType(d, name) == [d EXCEPT !.name = name]
addTask(d, v) == [d EXCEPT !.tasks = Append(@, v)]
editTask(d, i, v) == [d EXCEPT !.tasks[i] = v]
removeTask(d, i) == [d EXCEPT !.tasks = RemoveAt(@, i)]

moveTask(d, i, dir) ==
    IF i + dir \in DOMAIN d.tasks
      THEN [d EXCEPT !.tasks[i] = d.tasks[i + dir], !.tasks[i + dir] = d.tasks[i]]
      ELSE d

\* A stage is added a week after the last one; the buttons offer unused stages.
addStage(d, key) ==
    IF d.plan = <<>>
      THEN [d EXCEPT !.plan = <<[stage |-> key, delayHours |-> 0]>>]
      ELSE [d EXCEPT !.plan = Append(@, [stage |-> key, delayHours |-> Last(d.plan).delayHours + 168])]

\* The delay of the first stage is a disabled field.
patchStageAny(d, i, delay) == [d EXCEPT !.plan[i].delayHours = delay]
patchStage(d, i, delay) ==
    IF i = 1 THEN d ELSE [d EXCEPT !.plan[i].delayHours = delay]

removeStage(d, i) == [d EXCEPT !.plan = RemoveAt(@, i)]

\* The drafts one change away.
Changed(d) ==
    {patchType(d, n) : n \in Names}
    \union {addTask(d, v) : v \in Tasks}
    \union {editTask(d, i, v) : i \in DOMAIN d.tasks, v \in Tasks}
    \union {removeTask(d, i) : i \in DOMAIN d.tasks}
    \union {moveTask(d, i, dir) : i \in DOMAIN d.tasks, dir \in {-1, 1}}
    \union {addStage(d, k) : k \in Stages \ {d.plan[i].stage : i \in DOMAIN d.plan}}
    \union {patchStage(d, i, 24) : i \in DOMAIN d.plan}
    \union {removeStage(d, i) : i \in DOMAIN d.plan}

EditType(t) ==
    /\ typeDraft[t] # None /\ edits < MaxEdits
    /\ \E d \in Changed(typeDraft[t]) \ {typeDraft[t]} : typeDraft' = [typeDraft EXCEPT ![t] = d]
    /\ edits' = edits + 1
    /\ UNCHANGED <<storeVars, productDraft, shown, saving, save, listing, faults>>

\* patchProduct, addBroker and removeBroker.
EditProduct(t) ==
    /\ edits < MaxEdits
    /\ productDraft' = [productDraft EXCEPT ![t] = @ + 1]
    /\ edits' = edits + 1
    /\ UNCHANGED <<storeVars, typeDraft, shown, saving, save, listing, faults>>

\* The page lists what a tab last fetched; a click takes a copy as the draft.
DraftOf(id, s) == [id |-> id, name |-> s.name, plan |-> s.plan, tasks |-> s.tasks]

selectType(t) ==
    /\ \E id \in Names :
          /\ shown[t][id] # None
          /\ typeDraft[t] # DraftOf(id, shown[t][id])
          /\ typeDraft' = [typeDraft EXCEPT ![t] = DraftOf(id, shown[t][id])]
    /\ UNCHANGED <<storeVars, productDraft, shown, saving, save, listing, edits, faults>>

NewType(t) ==
    /\ edits < MaxEdits
    /\ typeDraft' = [typeDraft EXCEPT ![t] = newType]
    /\ edits' = edits + 1
    /\ UNCHANGED <<storeVars, productDraft, shown, saving, save, listing, faults>>

-----------------------------------------------------------------------------
(* Connections *)

Saves == DOMAIN save
InTx(i) == save[i].phase \in {"tx", "row", "cleared", "leaked"}
Reading(t) == listing[t] # None /\ listing[t].phase = "open"
Free == PoolSize - Cardinality({i \in Saves : InTx(i)}) - Cardinality({t \in Tabs : Reading(t)})

-----------------------------------------------------------------------------
(* Saving *)

Send(t, kind, draft) ==
    /\ Len(save) < MaxSaves
    /\ save' = Append(save, [tab |-> t, kind |-> kind, draft |-> draft, phase |-> "sent", seen |-> {}])
    /\ saving' = [saving EXCEPT ![t] = TRUE]
    /\ UNCHANGED <<storeVars, typeDraft, productDraft, shown, listing, edits, faults>>

\* An empty id becomes the slug of the name, on the server.
WithId(d) == IF d.id = None THEN [d EXCEPT !.id = d.name] ELSE d

saveType(t) == typeDraft[t] # None /\ ~saving[t] /\ Send(t, "type", WithId(typeDraft[t]))

saveProductAnyTime(t) == Send(t, "product", productDraft[t])
saveProduct(t) == ~saving[t] /\ Send(t, "product", productDraft[t])

Phase(i, p) == save' = [save EXCEPT ![i].phase = p]

Tx(i, from) == save[i].kind = "type" /\ save[i].phase = from

beginTx(i) ==
    /\ Tx(i, "sent") /\ Free > 0
    /\ Phase(i, "tx")
    /\ UNCHANGED <<storeVars, pageVars, listing, edits, faults>>

upsertRowUnlocked(i) ==
    /\ Tx(i, "tx")
    /\ Phase(i, "row")
    /\ UNCHANGED <<storeVars, pageVars, listing, edits, faults>>

\* INSERT ... ON CONFLICT waits for any other transaction that wrote the row.
upsertRow(i) ==
    /\ Tx(i, "tx")
    /\ \A j \in Saves : Tx(j, "row") \/ Tx(j, "cleared") => save[j].draft.id # save[i].draft.id
    /\ Phase(i, "row")
    /\ UNCHANGED <<storeVars, pageVars, listing, edits, faults>>

TaskLists(id) == IF types[id] = None THEN {} ELSE types[id].tasks

clearTasks(i) ==
    /\ Tx(i, "row")
    /\ save' = [save EXCEPT ![i].phase = "cleared", ![i].seen = TaskLists(save[i].draft.id)]
    /\ UNCHANGED <<storeVars, pageVars, listing, edits, faults>>

\* The tasks table loses the tasks the transaction deleted and gains its own.
commitType(i) ==
    /\ Tx(i, "cleared")
    /\ LET d == save[i].draft
       IN /\ types' = [types EXCEPT ![d.id] =
                          [name |-> d.name, plan |-> d.plan,
                           tasks |-> (TaskLists(d.id) \ save[i].seen) \union {d.tasks}]]
          /\ version' = [version EXCEPT ![d.id] = @ + 1]
    /\ save' = [save EXCEPT ![i].phase = "ok", ![i].seen = {}]
    /\ listing' = [t \in Tabs |-> [phase |-> "asked"]]
    /\ UNCHANGED <<products, pageVars, edits, faults>>

upsertProduct(i) ==
    /\ save[i].kind = "product" /\ save[i].phase = "sent" /\ Free > 0
    /\ products' = save[i].draft
    /\ Phase(i, "ok")
    /\ listing' = [t \in Tabs |-> [phase |-> "asked"]]
    /\ UNCHANGED <<types, version, pageVars, edits, faults>>

Failing(i, p) ==
    /\ save[i].phase \in {"sent", "tx", "row", "cleared", "ok"}
    /\ faults < MaxFaults
    /\ faults' = faults + 1
    /\ Phase(i, p)
    /\ UNCHANGED <<storeVars, pageVars, listing, edits>>

failSaveLeaking(i) == Failing(i, IF InTx(i) THEN "leaked" ELSE "error")

\* A statement fails and the transaction is rolled back, or the answer is lost.
failSave(i) == Failing(i, "error")

\* The answer of a save echoes what was saved and replaces the draft on screen.
saved(i) ==
    /\ save[i].phase = "ok"
    /\ saving' = [saving EXCEPT ![save[i].tab] = FALSE]
    /\ IF save[i].kind = "type"
         THEN typeDraft' = [typeDraft EXCEPT ![save[i].tab] = save[i].draft] /\ UNCHANGED productDraft
         ELSE productDraft' = [productDraft EXCEPT ![save[i].tab] = save[i].draft] /\ UNCHANGED typeDraft
    /\ Phase(i, "done")
    /\ listing' = [listing EXCEPT ![save[i].tab] = [phase |-> "asked"]]
    /\ UNCHANGED <<storeVars, shown, edits, faults>>

saveFailed(i) ==
    /\ save[i].phase = "error"
    /\ saving' = [saving EXCEPT ![save[i].tab] = FALSE]
    /\ Phase(i, "done")
    /\ UNCHANGED <<storeVars, typeDraft, productDraft, shown, listing, edits, faults>>

-----------------------------------------------------------------------------
(* Listing *)

ListKeeps == UNCHANGED <<storeVars, saving, save, edits>>

RolloutTypes(t) ==
    /\ listing[t] # None /\ listing[t].phase = "asked" /\ Free > 0
    /\ listing' = [listing EXCEPT ![t] =
          [phase |-> "open", todo |-> {id \in Names : types[id] # None},
           rows |-> [id \in Names |->
                        IF types[id] = None THEN None
                        ELSE [name |-> types[id].name, plan |-> types[id].plan, rowVer |-> version[id]]],
           tasks |-> [id \in Names |-> None]]]
    /\ UNCHANGED <<typeDraft, productDraft, shown, faults>> /\ ListKeeps

ReadTasks(t, id, ver) ==
    /\ Reading(t) /\ id \in listing[t].todo /\ Free > 0
    /\ \E l \in types[id].tasks :
          listing' = [listing EXCEPT ![t].todo = @ \ {id}, ![t].tasks[id] = [list |-> l, ver |-> ver]]
    /\ UNCHANGED <<typeDraft, productDraft, shown, faults>> /\ ListKeeps

rolloutTypeTasksCached(t, id) == ReadTasks(t, id, 0)
rolloutTypeTasks(t, id) == ReadTasks(t, id, version[id])

Entry(l, id) ==
    IF l.rows[id] = None THEN None
    ELSE [name |-> l.rows[id].name, plan |-> l.rows[id].plan, tasks |-> l.tasks[id].list,
          rowVer |-> l.rows[id].rowVer, taskVer |-> l.tasks[id].ver]

\* The first listing that has a type fills an empty draft.
ListAnswered(t) ==
    /\ Reading(t) /\ listing[t].todo = {}
    /\ LET got == [id \in Names |-> Entry(listing[t], id)]
           found == {id \in Names : got[id] # None}
       IN /\ shown' = [shown EXCEPT ![t] = got]
          /\ IF typeDraft[t] = None /\ found # {}
               THEN \E id \in found : typeDraft' = [typeDraft EXCEPT ![t] = DraftOf(id, got[id])]
               ELSE UNCHANGED typeDraft
    /\ listing' = [listing EXCEPT ![t] = None]
    /\ UNCHANGED <<productDraft, faults>> /\ ListKeeps

\* An error is taken for an empty list, and nothing asks again before the next event.
Dropped(t) ==
    /\ shown' = [shown EXCEPT ![t] = [id \in Names |-> None]]
    /\ listing' = [listing EXCEPT ![t] = None]
    /\ UNCHANGED <<typeDraft, productDraft>> /\ ListKeeps

ListFails(t) ==
    /\ listing[t] # None
    /\ faults < MaxFaults
    /\ faults' = faults + 1
    /\ Dropped(t)

Needs(t) == listing[t] # None /\ (Reading(t) => listing[t].todo # {})

\* The proxy closes a request that has had no answer for 60 s; its context is
\* cancelled, which ends the wait for a connection and gives back the one it has.
\* Statements take far less, so this happens only while every connection is held by
\* listings that wait for another one or by transactions.
ProxyTimeout(t) ==
    /\ Needs(t) /\ Free = 0
    /\ \A u \in Tabs : Reading(u) => Needs(u)
    /\ Dropped(t) /\ UNCHANGED faults

-----------------------------------------------------------------------------
Init ==
    /\ types = Stored
    /\ version = [id \in Names |-> 0]
    /\ products = 0
    /\ typeDraft = [t \in Tabs |-> None]
    /\ productDraft = [t \in Tabs |-> 0]
    /\ shown = [t \in Tabs |-> [id \in Names |-> None]]
    /\ saving = [t \in Tabs |-> FALSE]
    /\ save = <<>>
    /\ listing = [t \in Tabs |-> [phase |-> "asked"]]
    /\ edits = 0 /\ faults = 0

User(t) ==
    EditType(t) \/ EditProduct(t) \/ selectType(t) \/ NewType(t) \/ saveType(t) \/ saveProduct(t)

Serve(i) == beginTx(i) \/ upsertRow(i) \/ clearTasks(i) \/ commitType(i) \/ upsertProduct(i)

Answer(i) == saved(i) \/ saveFailed(i)

List(t) == RolloutTypes(t) \/ ListAnswered(t) \/ \E id \in Names : rolloutTypeTasks(t, id)

Next ==
    \/ \E t \in Tabs : User(t) \/ List(t) \/ ListFails(t) \/ ProxyTimeout(t)
    \/ \E i \in Saves : Serve(i) \/ failSave(i) \/ Answer(i)

Spec == Init /\ [][Next]_vars

\* The server works on what it was asked, the proxy does not wait for ever and the
\* browser takes every answer.
FairSpec ==
    /\ Spec
    /\ \A t \in Tabs : WF_vars(List(t)) /\ WF_vars(ProxyTimeout(t))
    /\ \A i \in 1..MaxSaves : WF_vars(i \in Saves /\ Serve(i)) /\ WF_vars(i \in Saves /\ Answer(i))

-----------------------------------------------------------------------------
(* Properties *)

Register == INSTANCE TypeRegister
    WITH Ids <- Names, asked <- {save[i].draft : i \in {j \in Saves : save[j].kind = "type"}}

\* The store implements the register: although a save writes two tables in several
\* statements and two users may save one type at once, a type is always the row and
\* the tasks of one save, the one that committed last (UpsertRolloutType: the row is
\* written first, and so locked, before the tasks are deleted).
RegisterSpec == Register!Spec

\* A listing reads tasks after rows and in other snapshots: what it shows of a type
\* may mix two saves, but the tasks are never older than the row (RolloutTypes).
TasksNotOlderThanRow ==
    \A t \in Tabs, id \in Names : shown[t][id] # None => shown[t][id].rowVer <= shown[t][id].taskVer

\* The two drafts share one flag, so a tab has one save under way at a time and two
\* saves of one user are never applied in the wrong order (saveProduct, saveType).
OneSaveAtATime ==
    \A i, j \in Saves :
        save[i].tab = save[j].tab /\ save[i].phase # "done" /\ save[j].phase # "done" => i = j

Anchored(d) == d = None \/ d.plan = <<>> \/ d.plan[1].delayHours = 0

\* The first stage of a cascade starts at the anchor; a draft leaves that form only
\* by losing its first stage (removeStage), which leaves the next one with its delay
\* and its delay field disabled, or by showing a type stored in that state.
UnanchoredOnlyByRemoval ==
    [][\A t \in Tabs :
          Anchored(typeDraft[t]) /\ ~Anchored(typeDraft'[t]) =>
              \/ typeDraft[t] # None /\ typeDraft'[t].plan = Tail(typeDraft[t].plan)
              \/ \E id \in Names : shown[t][id] # None /\ shown[t][id].plan = typeDraft'[t].plan
              \/ \E id \in Names : shown'[t][id] # None /\ shown'[t][id].plan = typeDraft'[t].plan
              \/ \E i \in Saves : save[i].kind = "type" /\ save[i].draft = typeDraft'[t]]_vars

\* With more connections than tabs, no listing waits for a connection that only
\* waiting listings hold: one is free, or its holder goes on without another.  Each
\* listing holds one while it asks for a second, so this needs every transaction to
\* give its connection back, also when it fails (RolloutTypes, UpsertRolloutType).
NoPoolDeadlock ==
    (\E t \in Tabs : Needs(t)) =>
        \/ Free > 0
        \/ \E i \in Saves : save[i].phase \in {"tx", "row", "cleared"}
        \/ \E t \in Tabs : Reading(t) /\ ~Needs(t)

\* What the README says of the live channel: every open client refetches and stays in
\* sync.  A page that shows an older version of a type comes to show the stored one.
\* When as many pages list the types at once as the pool has connections, each holds
\* one and waits for another until the proxy gives up on one of them, and the page of
\* that one is left without types.
StaysInSync ==
    \A t \in Tabs, id \in Names :
        shown[t][id] # None /\ shown[t][id].rowVer < version[id]
            ~> shown[t][id] # None /\ shown[t][id].rowVer = version[id]

=============================================================================
