--------------------------- MODULE DialogsProofs ---------------------------
(***************************************************************************)
(* The dialogs and their requests, for any number of tabs, locks, products *)
(* and requests.                                                           *)
(***************************************************************************)
EXTENDS Dialogs, FiniteSetTheorems, TLAPS

-----------------------------------------------------------------------------
(* The inductive invariant *)

\* A dialog plans with a type no newer than the stored one.
GoodModal(m, v) == m \in Modals /\ (m.typeSeen # None => m.typeSeen <= v)

\* What a request carries when it is sent stays valid: the id of an update or a
\* delete, the products of a lock, the versions of stages and tasks.
GoodRequest(r, v) ==
    /\ r \in Requests
    /\ r.op \in {"updateLock", "deleteLock"} => r.id \in LockIds
    /\ r.op \in {"createLock", "updateLock"} => r.lock \in LockBodies /\ r.lock.products # {}
    /\ r.op = "createRollout" => r.stages \in Nat /\ r.stages <= v
    /\ r.phase = "read" => /\ r.op = "createRollout"
                           /\ r.tasks \in Nat /\ r.stages <= r.tasks /\ r.tasks <= v
    /\ r.op = "deleteLock" <=> r.inst = 0

TabInv ==
    /\ open \in [Tabs -> {"none", "rollout", "lock"}]
    /\ modal \in [Tabs -> Modals \union {None}]
    /\ \A t \in Tabs : open[t] = "none" <=> modal[t] = None
    /\ \A t \in Tabs : modal[t] # None => modal[t].kind = open[t] /\ GoodModal(modal[t], typeVer)

PageInv ==
    /\ shown \in [Tabs -> (SUBSET LockRows) \union {None}]
    /\ confirmingId \in [Tabs -> LockIds \union {None}]
    /\ orphans \subseteq Reqs

ReqInv ==
    /\ sent \in Nat
    /\ req \in [Reqs -> Requests \union {None}]
    /\ \A i \in Reqs : req[i] # None => i <= sent /\ GoodRequest(req[i], typeVer)

LockInv ==
    /\ locks \in [LockIds -> LockBodies \union {None}]
    /\ gone \subseteq LockIds
    /\ NoLockResurrection

\* Every stored lock ends after it starts and blocks some product.  The dialog does
\* not compare the times and the server does not look at the products
\* (create-lock-modal canSubmit, normalizeAndValidateLock): each check is made on
\* one side only, on a body taken when the button was pressed.
LocksValid ==
    \A l \in LockIds : locks[l] # None => locks[l].endsAfter /\ locks[l].products # {}

RolloutInv ==
    /\ typeVer \in Nat
    /\ \A r \in rollouts : r.stages \in Nat /\ r.tasks \in Nat
    /\ TasksNotOlder

\* Every dialog has a number of its own.
Numbered ==
    /\ opens \in Nat
    /\ abandoned \subseteq 1..opens
    /\ \A t \in Tabs : modal[t] # None => modal[t].inst \in 1..opens /\ modal[t].inst \notin abandoned
    /\ \A t, u \in Tabs : modal[t] # None /\ modal[u] # None /\ modal[t].inst = modal[u].inst => t = u
    /\ \A i \in Reqs : req[i] # None => req[i].inst \in 0..opens

\* A request belongs to a dialog that waits for it or that closed while it waited.
Awaited(r) ==
    \/ r.inst \in abandoned
    \/ modal[r.tab] # None /\ modal[r.tab].inst = r.inst /\ modal[r.tab].submitting

Tracked == \A i \in Reqs : req[i] # None /\ req[i].inst # 0 => Awaited(req[i])

\* No dialog has two requests under way.
OneEach ==
    \A i, j \in Reqs : req[i] # None /\ req[j] # None /\ req[i].inst # 0 /\ req[i].inst = req[j].inst => i = j

\* A dialog that submits has a request, unless its submit has thrown.
Waiting ==
    \A t \in Tabs :
        modal[t] # None /\ modal[t].submitting /\ modal[t].inst \notin threw =>
            \E i \in Reqs : req[i] # None /\ req[i].tab = t /\ req[i].inst = modal[t].inst

\* A dialog whose submit has thrown is one for a rollout, submits no more and has no
\* request.
ThrewInv ==
    /\ threw \subseteq 1..opens
    /\ \A t \in Tabs : modal[t] # None /\ modal[t].inst \in threw =>
          modal[t].kind = "rollout" /\ modal[t].submitting
    /\ \A i \in Reqs : req[i] # None => req[i].inst \notin threw

SubmitInv == Numbered /\ Tracked /\ OneEach /\ Waiting /\ ThrewInv

Inv == TabInv /\ PageInv /\ ReqInv /\ LockInv /\ LocksValid /\ RolloutInv /\ SubmitInv

-----------------------------------------------------------------------------
(* Forms and requests *)

LEMMA ModalFields ==
    ASSUME NEW m \in Modals
    PROVE  /\ m.inst \in Nat /\ m.kind \in {"rollout", "lock"} /\ m.editId \in LockIds \union {None}
           /\ m.title \in BOOLEAN /\ m.start \in BOOLEAN /\ m.lock \in LockBodies /\ m.typeSeen \in Nat \union {None}
           /\ m.submitting \in BOOLEAN /\ m # None
BY DialogsAssumption DEF DialogsAssumption, Modals

LEMMA RequestFields ==
    ASSUME NEW r \in Requests
    PROVE  /\ r.tab \in Tabs /\ r.inst \in Nat /\ r.phase \in {"sent", "read", "ok", "error"}
           /\ r.op \in {"createRollout", "createLock", "updateLock", "deleteLock"}
           /\ r.id \in LockIds \union {None} /\ r.lock \in LockBodies \union {None}
           /\ r.stages \in Nat \union {None} /\ r.tasks \in Nat \union {None} /\ r # None
BY DialogsAssumption DEF DialogsAssumption, Requests

LEMMA SubmittingFacts ==
    ASSUME NEW m \in Modals, NEW b \in BOOLEAN
    PROVE  /\ Submitting(m, b) \in Modals /\ Submitting(m, b).submitting = b
           /\ Submitting(m, b).inst = m.inst /\ Submitting(m, b).kind = m.kind
           /\ Submitting(m, b).typeSeen = m.typeSeen
BY DEF Submitting, Modals

LEMMA PhasedFacts ==
    ASSUME NEW r \in Requests, NEW phase \in {"sent", "read", "ok", "error"}
    PROVE  /\ Phased(r, phase) \in Requests /\ Phased(r, phase).phase = phase
           /\ Phased(r, phase).tab = r.tab /\ Phased(r, phase).inst = r.inst /\ Phased(r, phase).op = r.op
           /\ Phased(r, phase).id = r.id /\ Phased(r, phase).lock = r.lock
           /\ Phased(r, phase).stages = r.stages /\ Phased(r, phase).tasks = r.tasks
BY DEF Phased, Requests

LEMMA WithTasksFacts ==
    ASSUME NEW r \in Requests, NEW v \in Nat
    PROVE  /\ WithTasks(r, v) \in Requests /\ WithTasks(r, v).phase = "read" /\ WithTasks(r, v).tasks = v
           /\ WithTasks(r, v).tab = r.tab /\ WithTasks(r, v).inst = r.inst /\ WithTasks(r, v).op = r.op
           /\ WithTasks(r, v).id = r.id /\ WithTasks(r, v).lock = r.lock /\ WithTasks(r, v).stages = r.stages
BY DEF WithTasks, Requests

LEMMA RequestSent ==
    ASSUME NEW t \in Tabs, NEW m \in Modals, NEW v \in Nat, GoodModal(m, v), canSubmit(m), m.inst # 0
    PROVE  /\ GoodRequest(Request(t, m), v)
           /\ Request(t, m).tab = t /\ Request(t, m).inst = m.inst
<1> DEFINE r == Request(t, m)
<1>0. /\ m.inst \in Nat /\ m.kind \in {"rollout", "lock"} /\ m.editId \in LockIds \union {None}
      /\ m.lock \in LockBodies /\ m.typeSeen \in Nat \union {None}
    BY ModalFields
<1>1. /\ r.tab = t /\ r.inst = m.inst /\ r.phase = "sent" /\ r.id = m.editId /\ r.lock = m.lock
      /\ r.stages = m.typeSeen /\ r.tasks = None
      /\ r.op = IF m.kind = "rollout" THEN "createRollout" ELSE IF m.editId = None THEN "createLock" ELSE "updateLock"
    BY DEF Request
<1>2. r \in Requests
    BY <1>0 DEF Request, Requests
<1>3. m.kind = "rollout" => m.typeSeen \in Nat /\ m.typeSeen <= v
    BY <1>0 DEF canSubmit, GoodModal
<1>4. m.kind = "lock" => m.lock.products # {}
    BY DEF canSubmit
<1> QED BY <1>0, <1>1, <1>2, <1>3, <1>4 DEF GoodRequest

LEMMA RemoveSent ==
    ASSUME NEW t \in Tabs, NEW id \in LockIds, NEW v \in Nat
    PROVE  /\ GoodRequest(RemoveRequest(t, id), v)
           /\ RemoveRequest(t, id).tab = t /\ RemoveRequest(t, id).inst = 0
BY DEF RemoveRequest, Requests, GoodRequest

LEMMA PhasedGood ==
    ASSUME NEW r, NEW v \in Nat, GoodRequest(r, v), NEW phase \in {"ok", "error"}
    PROVE  GoodRequest(Phased(r, phase), v)
<1>1. r \in Requests
    BY DEF GoodRequest
<1>2. /\ Phased(r, phase) \in Requests /\ Phased(r, phase).phase = phase
      /\ Phased(r, phase).inst = r.inst /\ Phased(r, phase).op = r.op /\ Phased(r, phase).id = r.id
      /\ Phased(r, phase).lock = r.lock /\ Phased(r, phase).stages = r.stages
    BY <1>1, PhasedFacts
<1> QED BY <1>1, <1>2 DEF GoodRequest

LEMMA WithTasksGood ==
    ASSUME NEW r, NEW v \in Nat, GoodRequest(r, v), r.op = "createRollout"
    PROVE  GoodRequest(WithTasks(r, v), v)
<1>1. r \in Requests /\ r.stages \in Nat /\ r.stages <= v
    BY DEF GoodRequest
<1>2. /\ WithTasks(r, v) \in Requests /\ WithTasks(r, v).tasks = v
      /\ WithTasks(r, v).inst = r.inst /\ WithTasks(r, v).op = r.op /\ WithTasks(r, v).stages = r.stages
    BY <1>1, WithTasksFacts
<1> QED BY <1>1, <1>2 DEF GoodRequest

LEMMA LaterGood ==
    ASSUME NEW v \in Nat
    PROVE  /\ \A m : GoodModal(m, v) => GoodModal(m, v + 1)
           /\ \A r : GoodRequest(r, v) => GoodRequest(r, v + 1)
<1>1. \A m : GoodModal(m, v) => GoodModal(m, v + 1)
    BY ModalFields DEF GoodModal
<1>2. \A r : GoodRequest(r, v) => GoodRequest(r, v + 1)
    BY DEF GoodRequest
<1> QED BY <1>1, <1>2

-----------------------------------------------------------------------------
(* Parts that a step leaves alone *)

LEMMA TabKept ==
    ASSUME TabInv, open' = open, modal' = modal, typeVer' = typeVer
    PROVE  TabInv'
BY DEF TabInv

LEMMA PageKept ==
    ASSUME PageInv, shown' = shown, confirmingId' = confirmingId, orphans' = orphans
    PROVE  PageInv'
BY DEF PageInv

LEMMA ReqKept ==
    ASSUME ReqInv, req' = req, sent' = sent, typeVer' = typeVer
    PROVE  ReqInv'
BY DEF ReqInv

LEMMA DbKept ==
    ASSUME LockInv, LocksValid, RolloutInv,
           locks' = locks, gone' = gone, rollouts' = rollouts, typeVer' = typeVer
    PROVE  LockInv' /\ LocksValid' /\ RolloutInv'
BY DEF LockInv, LocksValid, RolloutInv, NoLockResurrection, TasksNotOlder

LEMMA SubmitKept ==
    ASSUME SubmitInv, modal' = modal, req' = req, opens' = opens, abandoned' = abandoned /\ threw' = threw
    PROVE  SubmitInv'
BY DEF SubmitInv, Numbered, Tracked, Awaited, OneEach, Waiting, ThrewInv

-----------------------------------------------------------------------------
(* One component changes *)

LEMMA TabStep ==
    ASSUME TabInv, NEW t \in Tabs, NEW m \in Modals \union {None}, NEW o \in {"none", "rollout", "lock"},
           o = "none" <=> m = None,
           m # None => m.kind = o /\ GoodModal(m, typeVer),
           open' = [open EXCEPT ![t] = o], modal' = [modal EXCEPT ![t] = m], typeVer' = typeVer
    PROVE  TabInv'
<1>1. \A u \in Tabs : open'[u] = (IF u = t THEN o ELSE open[u]) /\ modal'[u] = (IF u = t THEN m ELSE modal[u])
    BY DEF TabInv
<1>2. open' \in [Tabs -> {"none", "rollout", "lock"}] /\ modal' \in [Tabs -> Modals \union {None}]
    BY DEF TabInv
<1>3. \A u \in Tabs : open'[u] = "none" <=> modal'[u] = None
    BY <1>1 DEF TabInv
<1>4. \A u \in Tabs : modal'[u] # None => modal'[u].kind = open'[u] /\ GoodModal(modal'[u], typeVer')
    BY <1>1 DEF TabInv
<1> QED BY <1>2, <1>3, <1>4 DEF TabInv

LEMMA ReqStep ==
    ASSUME ReqInv, typeVer' = typeVer, NEW i \in Reqs, NEW r \in Requests \union {None},
           r # None => i <= sent' /\ GoodRequest(r, typeVer),
           sent' \in Nat, sent <= sent', req' = [req EXCEPT ![i] = r]
    PROVE  ReqInv'
<1>0. Reqs \subseteq Nat
    BY DialogsAssumption DEF DialogsAssumption, Reqs
<1>1. \A j \in Reqs : req'[j] = IF j = i THEN r ELSE req[j]
    BY DEF ReqInv
<1>2. req' \in [Reqs -> Requests \union {None}]
    BY DEF ReqInv
<1>3. \A j \in Reqs : req'[j] # None => j <= sent' /\ GoodRequest(req'[j], typeVer')
    <2> TAKE j \in Reqs
    <2> HAVE req'[j] # None
    <2>1. CASE j = i
        BY <2>1, <1>1
    <2>2. CASE j # i
        <3>1. req'[j] = req[j] /\ j <= sent /\ GoodRequest(req[j], typeVer)
            BY <2>2, <1>1 DEF ReqInv
        <3>2. j <= sent'
            BY <3>1, <1>0 DEF ReqInv
        <3> QED BY <3>1, <3>2
    <2> QED BY <2>1, <2>2
<1> QED BY <1>2, <1>3 DEF ReqInv

\* The tab of a dialog that opens, and of one that closes.
LEMMA SubmitOpen ==
    ASSUME TabInv, ReqInv, SubmitInv, NEW t \in Tabs, NEW m \in Modals,
           m.inst = opens + 1, m.submitting = FALSE, modal[t] = None,
           modal' = [modal EXCEPT ![t] = m], opens' = opens + 1, abandoned' = abandoned /\ threw' = threw, req' = req
    PROVE  SubmitInv'
<1>0. m # None /\ opens \in Nat /\ abandoned \subseteq 1..opens
    BY ModalFields DEF SubmitInv, Numbered
<1>1. \A u \in Tabs : modal'[u] = IF u = t THEN m ELSE modal[u]
    BY DEF TabInv
<1>2. \A u \in Tabs : modal[u] # None => modal[u].inst \in 1..opens /\ modal[u].inst \notin abandoned
    BY DEF SubmitInv, Numbered
<1>3. \A i \in Reqs : req[i] # None => req[i].tab \in Tabs /\ req[i].inst \in 0..opens
    BY RequestFields DEF ReqInv, SubmitInv, Numbered
<1>4. Numbered'
    <2>1. opens' \in Nat /\ abandoned' \subseteq 1..opens'
        BY <1>0
    <2>2. \A u \in Tabs : modal'[u] # None => modal'[u].inst \in 1..opens' /\ modal'[u].inst \notin abandoned'
        BY <1>0, <1>1, <1>2
    <2>3. \A u, w \in Tabs : modal'[u] # None /\ modal'[w] # None /\ modal'[u].inst = modal'[w].inst => u = w
        <3> TAKE u, w \in Tabs
        <3> HAVE modal'[u] # None /\ modal'[w] # None /\ modal'[u].inst = modal'[w].inst
        <3>1. CASE u # t /\ w # t
            BY <3>1, <1>1 DEF SubmitInv, Numbered
        <3>2. CASE u = t /\ w # t
            BY <3>2, <1>0, <1>1, <1>2
        <3>3. CASE u # t /\ w = t
            BY <3>3, <1>0, <1>1, <1>2
        <3> QED BY <3>1, <3>2, <3>3
    <2>4. \A i \in Reqs : req'[i] # None => req'[i].inst \in 0..opens'
        BY <1>0, <1>3
    <2> QED BY <2>1, <2>2, <2>3, <2>4 DEF Numbered
<1>5. Tracked'
    BY <1>1, <1>3 DEF SubmitInv, Tracked, Awaited
<1>6. OneEach'
    BY DEF SubmitInv, OneEach
<1>7. Waiting'
    BY <1>1 DEF SubmitInv, Waiting
<1>8. ThrewInv'
    BY <1>0, <1>1 DEF SubmitInv, ThrewInv
<1> QED BY <1>4, <1>5, <1>6, <1>7, <1>8 DEF SubmitInv

\* A dialog closes; a request of its tab may end with it.
LEMMA SubmitClose ==
    ASSUME TabInv, ReqInv, SubmitInv, NEW t \in Tabs,
           modal' = [modal EXCEPT ![t] = None], opens' = opens, Abandon(t), threw' = threw,
           \/ req' = req
           \/ \E i \in Reqs : req[i] # None /\ req[i].tab = t /\ req' = [req EXCEPT ![i] = None]
    PROVE  SubmitInv'
<1>1. \A u \in Tabs : modal'[u] = IF u = t THEN None ELSE modal[u]
    BY DEF TabInv
<1>2. \A j \in Reqs : req'[j] = req[j] \/ req'[j] = None
    BY DEF ReqInv
<1>3. \A j \in Reqs : req[j] # None /\ req[j].tab # t => req'[j] = req[j]
    BY DEF ReqInv
<1>4. \A j \in Reqs : req[j] # None => req[j].tab \in Tabs
    BY RequestFields DEF ReqInv
<1>5. Numbered'
    <2>1. abandoned \subseteq abandoned' /\ abandoned' \subseteq 1..opens'
        BY DEF Abandon, SubmitInv, Numbered
    <2>2. \A u \in Tabs : modal'[u] # None => modal'[u].inst \in 1..opens' /\ modal'[u].inst \notin abandoned'
        BY <1>1 DEF Abandon, SubmitInv, Numbered
    <2>3. \A u, w \in Tabs : modal'[u] # None /\ modal'[w] # None /\ modal'[u].inst = modal'[w].inst => u = w
        BY <1>1 DEF SubmitInv, Numbered
    <2>4. \A j \in Reqs : req'[j] # None => req'[j].inst \in 0..opens'
        BY <1>2 DEF SubmitInv, Numbered
    <2> QED BY <2>1, <2>2, <2>3, <2>4 DEF SubmitInv, Numbered
<1>6. Tracked'
    <2> SUFFICES ASSUME NEW j \in Reqs, req'[j] # None, req'[j].inst # 0 PROVE Awaited(req[j])'
        BY <1>2 DEF Tracked
    <2>1. req[j] # None /\ req'[j] = req[j] /\ Awaited(req[j])
        BY <1>2 DEF SubmitInv, Tracked
    <2>2. CASE req[j].inst \in abandoned
        BY <2>1, <2>2 DEF Awaited, Abandon
    <2>3. CASE req[j].tab = t /\ req[j].inst \notin abandoned
        BY <2>1, <2>3 DEF Awaited, Abandon
    <2>4. CASE req[j].tab # t /\ req[j].inst \notin abandoned
        BY <2>1, <2>4, <1>1, <1>4 DEF Awaited
    <2> QED BY <2>2, <2>3, <2>4
<1>7. OneEach'
    BY <1>2 DEF SubmitInv, OneEach
<1>8. Waiting'
    BY <1>1, <1>3 DEF SubmitInv, Waiting
<1>9. ThrewInv'
    BY <1>1, <1>2 DEF SubmitInv, ThrewInv
<1> QED BY <1>5, <1>6, <1>7, <1>8, <1>9 DEF SubmitInv

\* A form is edited, or its request is answered with an error.
LEMMA SubmitForm ==
    ASSUME TabInv, ReqInv, SubmitInv, NEW t \in Tabs, NEW m \in Modals, modal[t] # None,
           m.inst = modal[t].inst, m.kind = modal[t].kind, modal' = [modal EXCEPT ![t] = m],
           opens' = opens, abandoned' = abandoned /\ threw' = threw,
           \/ m.submitting = modal[t].submitting /\ req' = req
           \/ \E i \in Reqs : /\ req[i] # None /\ req[i].inst = m.inst /\ req[i].inst # 0
                              /\ req' = [req EXCEPT ![i] = None] /\ m.submitting = FALSE
    PROVE  SubmitInv'
<1>0. m # None
    BY ModalFields
<1>1. \A u \in Tabs : modal'[u] = IF u = t THEN m ELSE modal[u]
    BY DEF TabInv
<1>2. \A j \in Reqs : req'[j] = req[j] \/ req'[j] = None
    BY DEF ReqInv
<1>3. \A j \in Reqs : req[j] # None /\ req[j].inst # m.inst => req'[j] = req[j]
    BY DEF ReqInv
<1>4. \A j \in Reqs : req[j] # None => req[j].tab \in Tabs
    BY RequestFields DEF ReqInv
<1>5. Numbered'
    <2>1. \A u \in Tabs : modal'[u] # None => modal[u] # None /\ modal'[u].inst = modal[u].inst
        BY <1>1
    <2> QED BY <1>2, <2>1 DEF SubmitInv, Numbered
<1>6. Tracked'
    <2> SUFFICES ASSUME NEW j \in Reqs, req'[j] # None, req'[j].inst # 0 PROVE Awaited(req[j])'
        BY <1>2 DEF Tracked
    <2>1. req[j] # None /\ req'[j] = req[j] /\ req[j].tab \in Tabs /\ Awaited(req[j])
        BY <1>2, <1>4 DEF SubmitInv, Tracked
    <2>2. CASE m.submitting = modal[t].submitting
        BY <2>1, <2>2, <1>0, <1>1 DEF Awaited
    <2>3. CASE \E i \in Reqs : /\ req[i] # None /\ req[i].inst = m.inst /\ req[i].inst # 0
                               /\ req' = [req EXCEPT ![i] = None]
        <3>1. PICK i \in Reqs : /\ req[i] # None /\ req[i].inst = m.inst /\ req[i].inst # 0
                                /\ req' = [req EXCEPT ![i] = None]
            BY <2>3
        <3>2. i # j
            BY <3>1 DEF ReqInv
        <3>3. req[j].inst # m.inst
            BY <3>1, <3>2, <2>1 DEF SubmitInv, OneEach
        <3> QED BY <2>1, <3>3, <1>1 DEF Awaited
    <2> QED BY <2>2, <2>3
<1>7. OneEach'
    BY <1>2 DEF SubmitInv, OneEach
<1>8. Waiting'
    <2> SUFFICES ASSUME NEW u \in Tabs, modal'[u] # None, modal'[u].submitting, modal'[u].inst \notin threw
                 PROVE  \E j \in Reqs : req'[j] # None /\ req'[j].tab = u /\ req'[j].inst = modal'[u].inst
        BY DEF Waiting
    <2>1. CASE u = t
        BY <2>1, <1>1 DEF SubmitInv, Waiting
    <2>2. CASE u # t
        <3>1. PICK j \in Reqs : req[j] # None /\ req[j].tab = u /\ req[j].inst = modal[u].inst
            BY <2>2, <1>1 DEF SubmitInv, Waiting
        <3>2. modal[u].inst # modal[t].inst
            BY <2>2, <1>1 DEF SubmitInv, Numbered
        <3> QED BY <2>2, <3>1, <3>2, <1>1, <1>3
    <2> QED BY <2>1, <2>2
<1>9. ThrewInv'
    <2>1. m.inst \in threw => m.submitting /\ m.kind = "rollout"
        BY DEF SubmitInv, ThrewInv
    <2> QED BY <2>1, <1>1, <1>2 DEF SubmitInv, ThrewInv
<1> QED BY <1>5, <1>6, <1>7, <1>8, <1>9 DEF SubmitInv

\* A request ends that no dialog waits for.
LEMMA SubmitDone ==
    ASSUME TabInv, ReqInv, SubmitInv, NEW i \in Reqs, req[i] # None,
           \A t \in Tabs : modal[t] # None /\ modal[t].inst = req[i].inst => t # req[i].tab,
           modal' = modal, opens' = opens, abandoned' = abandoned /\ threw' = threw, req' = [req EXCEPT ![i] = None]
    PROVE  SubmitInv'
<1>1. \A j \in Reqs : req'[j] = IF j = i THEN None ELSE req[j]
    BY DEF ReqInv
<1>2. Numbered'
    BY <1>1 DEF SubmitInv, Numbered
<1>3. Tracked'
    BY <1>1 DEF SubmitInv, Tracked, Awaited
<1>4. OneEach'
    BY <1>1 DEF SubmitInv, OneEach
<1>5. Waiting'
    BY <1>1 DEF SubmitInv, Waiting
<1>6. ThrewInv'
    BY <1>1 DEF SubmitInv, ThrewInv
<1> QED BY <1>2, <1>3, <1>4, <1>5, <1>6 DEF SubmitInv

\* A dialog whose button is enabled has no request.
LEMMA NoneUnderWay ==
    ASSUME ReqInv, SubmitInv, NEW t \in Tabs, modal[t] # None, ~modal[t].submitting
    PROVE  \A j \in Reqs : req[j] # None => req[j].inst # modal[t].inst
<1>1. modal[t].inst \in 1..opens /\ modal[t].inst \notin abandoned /\ opens \in Nat
    BY DEF SubmitInv, Numbered
<1> SUFFICES ASSUME NEW j \in Reqs, req[j] # None, req[j].inst = modal[t].inst PROVE FALSE
    OBVIOUS
<1>2. Awaited(req[j]) /\ req[j].inst \notin abandoned
    BY <1>1 DEF SubmitInv, Tracked
<1>3. req[j].tab \in Tabs
    BY RequestFields DEF ReqInv
<1>4. req[j].tab = t
    BY <1>2, <1>3 DEF Awaited, SubmitInv, Numbered
<1> QED BY <1>2, <1>4 DEF Awaited

\* The button of a dialog is pressed.
LEMMA SubmitSend ==
    ASSUME TabInv, ReqInv, SubmitInv, NEW t \in Tabs, NEW i \in Reqs, NEW r \in Requests, NEW m \in Modals,
           modal[t] # None, ~modal[t].submitting, m.submitting = TRUE, m.inst = modal[t].inst, req[i] = None,
           r.tab = t, r.inst = modal[t].inst, req' = [req EXCEPT ![i] = r],
           modal' = [modal EXCEPT ![t] = m], opens' = opens, abandoned' = abandoned /\ threw' = threw
    PROVE  SubmitInv'
<1>0. r # None /\ m # None
    BY RequestFields, ModalFields
<1>1. \A u \in Tabs : modal'[u] = IF u = t THEN m ELSE modal[u]
    BY DEF TabInv
<1>2. \A j \in Reqs : req'[j] = IF j = i THEN r ELSE req[j]
    BY DEF ReqInv
<1>3. \A j \in Reqs : req[j] # None => req[j].tab \in Tabs
    BY RequestFields DEF ReqInv
<1>4. modal[t].inst \in 1..opens /\ modal[t].inst \notin abandoned /\ opens \in Nat
    BY DEF SubmitInv, Numbered
<1>5. \A j \in Reqs : req[j] # None => req[j].inst # r.inst
    BY NoneUnderWay
<1>6. Numbered'
    <2>1. \A u \in Tabs : modal'[u] # None => modal[u] # None /\ modal'[u].inst = modal[u].inst
        BY <1>0, <1>1
    <2>2. \A j \in Reqs : req'[j] # None => req'[j].inst \in 0..opens'
        BY <1>2, <1>4 DEF SubmitInv, Numbered
    <2>3. \A u \in Tabs : modal'[u] # None => modal'[u].inst \in 1..opens' /\ modal'[u].inst \notin abandoned'
        BY <2>1 DEF SubmitInv, Numbered
    <2>4. \A u, w \in Tabs : modal'[u] # None /\ modal'[w] # None /\ modal'[u].inst = modal'[w].inst => u = w
        BY <2>1 DEF SubmitInv, Numbered
    <2> QED BY <2>2, <2>3, <2>4 DEF SubmitInv, Numbered
<1>7. Tracked'
    <2> SUFFICES ASSUME NEW j \in Reqs, req'[j] # None, req'[j].inst # 0 PROVE Awaited(req[j])'
        BY DEF Tracked
    <2>1. CASE j = i
        BY <2>1, <1>0, <1>1, <1>2 DEF Awaited
    <2>2. CASE j # i
        <3>1. req'[j] = req[j] /\ req[j].tab \in Tabs /\ Awaited(req[j])
            BY <2>2, <1>2, <1>3 DEF SubmitInv, Tracked
        <3> QED BY <3>1, <1>0, <1>1 DEF Awaited
    <2> QED BY <2>1, <2>2
<1>8. OneEach'
    BY <1>2, <1>5 DEF SubmitInv, OneEach
<1>9. Waiting'
    <2> SUFFICES ASSUME NEW u \in Tabs, modal'[u] # None, modal'[u].submitting, modal'[u].inst \notin threw
                 PROVE  \E j \in Reqs : req'[j] # None /\ req'[j].tab = u /\ req'[j].inst = modal'[u].inst
        BY DEF Waiting
    <2>1. CASE u = t
        BY <2>1, <1>0, <1>1, <1>2
    <2>2. CASE u # t
        BY <2>2, <1>1, <1>2 DEF SubmitInv, Waiting
    <2> QED BY <2>1, <2>2
<1>10. ThrewInv'
    <2>1. m.inst \notin threw
        BY DEF SubmitInv, ThrewInv
    <2> QED BY <2>1, <1>1, <1>2 DEF SubmitInv, ThrewInv
<1> QED BY <1>6, <1>7, <1>8, <1>9, <1>10 DEF SubmitInv

\* The button of a new rollout is pressed with a start that cannot be read.
LEMMA SubmitThrown ==
    ASSUME TabInv, ReqInv, SubmitInv, NEW t \in Tabs, NEW m \in Modals,
           modal[t] # None, ~modal[t].submitting, m.submitting = TRUE, m.inst = modal[t].inst, m.kind = "rollout",
           modal' = [modal EXCEPT ![t] = m], threw' = threw \union {m.inst},
           req' = req, opens' = opens, abandoned' = abandoned
    PROVE  SubmitInv'
<1>0. m # None
    BY ModalFields
<1>1. \A u \in Tabs : modal'[u] = IF u = t THEN m ELSE modal[u]
    BY DEF TabInv
<1>2. \A u \in Tabs : modal'[u] # None => modal[u] # None /\ modal'[u].inst = modal[u].inst
    BY <1>0, <1>1
<1>3. \A j \in Reqs : req[j] # None => req[j].inst # m.inst /\ req[j].tab \in Tabs
    BY NoneUnderWay, RequestFields DEF ReqInv
<1>4. Numbered'
    <2>1. \A u \in Tabs : modal'[u] # None => modal'[u].inst \in 1..opens' /\ modal'[u].inst \notin abandoned'
        BY <1>2 DEF SubmitInv, Numbered
    <2>2. \A u, w \in Tabs : modal'[u] # None /\ modal'[w] # None /\ modal'[u].inst = modal'[w].inst => u = w
        BY <1>2 DEF SubmitInv, Numbered
    <2> QED BY <2>1, <2>2 DEF SubmitInv, Numbered
<1>5. Tracked'
    <2> SUFFICES ASSUME NEW j \in Reqs, req[j] # None, req[j].inst # 0 PROVE Awaited(req[j])'
        BY DEF Tracked
    <2> QED BY <1>0, <1>1, <1>3 DEF Awaited, SubmitInv, Tracked
<1>6. OneEach'
    BY DEF SubmitInv, OneEach
<1>7. Waiting'
    BY <1>1 DEF SubmitInv, Waiting
<1>8. ThrewInv'
    <2>1. threw' \subseteq 1..opens'
        BY DEF SubmitInv, ThrewInv, Numbered
    <2>2. \A u \in Tabs : modal'[u] # None /\ modal'[u].inst \in threw' =>
              modal'[u].kind = "rollout" /\ modal'[u].submitting
        <3> TAKE u \in Tabs
        <3> HAVE modal'[u] # None /\ modal'[u].inst \in threw'
        <3>1. CASE u = t
            BY <3>1, <1>1
        <3>2. CASE u # t
            <4>1. modal[u].inst # modal[t].inst
                BY <3>2, <1>1 DEF SubmitInv, Numbered
            <4> QED BY <3>2, <4>1, <1>1 DEF SubmitInv, ThrewInv
        <3> QED BY <3>1, <3>2
    <2>3. \A j \in Reqs : req'[j] # None => req'[j].inst \notin threw'
        BY <1>3 DEF SubmitInv, ThrewInv
    <2> QED BY <2>1, <2>2, <2>3 DEF ThrewInv
<1> QED BY <1>4, <1>5, <1>6, <1>7, <1>8 DEF SubmitInv

\* A lock's removal is sent, or a request gets a step further.
LEMMA SubmitReply ==
    ASSUME TabInv, ReqInv, SubmitInv, NEW i \in Reqs, NEW r \in Requests,
           \/ req[i] = None /\ r.inst = 0
           \/ req[i] # None /\ r.inst = req[i].inst /\ r.tab = req[i].tab,
           req' = [req EXCEPT ![i] = r], modal' = modal, opens' = opens, abandoned' = abandoned /\ threw' = threw
    PROVE  SubmitInv'
<1>0. r # None
    BY RequestFields
<1>1. \A j \in Reqs : req'[j] = IF j = i THEN r ELSE req[j]
    BY DEF ReqInv
<1>2. \A j \in Reqs : req[j] # None => req'[j] # None /\ req'[j].inst = req[j].inst /\ req'[j].tab = req[j].tab
    BY <1>0, <1>1
<1>3. \A j \in Reqs : req'[j] # None /\ req'[j].inst # 0 =>
            req[j] # None /\ req'[j].inst = req[j].inst /\ req'[j].tab = req[j].tab
    BY <1>0, <1>1
<1>4. Numbered'
    <2>1. \A j \in Reqs : req'[j] # None => req'[j].inst \in 0..opens'
        BY <1>3 DEF SubmitInv, Numbered
    <2> QED BY <2>1 DEF SubmitInv, Numbered
<1>5. Tracked'
    BY <1>3 DEF SubmitInv, Tracked, Awaited
<1>6. OneEach'
    BY <1>3 DEF SubmitInv, OneEach
<1>7. Waiting'
    BY <1>2 DEF SubmitInv, Waiting
<1>8. ThrewInv'
    <2>1. \A j \in Reqs : req'[j] # None => req'[j].inst \notin threw
        <3> TAKE j \in Reqs
        <3> HAVE req'[j] # None
        <3>1. CASE req'[j].inst = 0
            BY <3>1 DEF SubmitInv, ThrewInv, Numbered
        <3>2. CASE req'[j].inst # 0
            BY <3>2, <1>3 DEF SubmitInv, ThrewInv
        <3> QED BY <3>1, <3>2
    <2> QED BY <2>1 DEF SubmitInv, ThrewInv
<1> QED BY <1>4, <1>5, <1>6, <1>7, <1>8 DEF SubmitInv

-----------------------------------------------------------------------------
(* The start and the steps *)

LEMMA InvInit == Init => Inv
<1> SUFFICES ASSUME Init PROVE Inv
    OBVIOUS
<1>1. TabInv
    BY DEF Init, TabInv
<1>2. PageInv
    BY DEF Init, PageInv
<1>3. ReqInv
    BY DEF Init, ReqInv
<1>4. [endsAfter |-> TRUE, products |-> {"all"}] \in LockBodies
    BY DEF LockBodies
<1>5. LockInv
    BY <1>4 DEF Init, LockInv, NoLockResurrection
<1>6. LocksValid
    <2>1. \A l \in LockIds : locks[l] # None => locks[l] = [endsAfter |-> TRUE, products |-> {"all"}]
        BY DEF Init
    <2>2. \A b : b = [endsAfter |-> TRUE, products |-> {"all"}] => b.endsAfter = TRUE /\ b.products # {}
        OBVIOUS
    <2> QED BY <2>1, <2>2 DEF LocksValid
<1>7. RolloutInv
    BY DEF Init, RolloutInv, TasksNotOlder
<1>8. SubmitInv
    BY DEF Init, SubmitInv, Numbered, Tracked, OneEach, Waiting, ThrewInv
<1> QED BY <1>1, <1>2, <1>3, <1>5, <1>6, <1>7, <1>8 DEF Inv

LEMMA InvOpen ==
    ASSUME Inv, NEW t \in Tabs, NEW kind, kind = "rollout" \/ kind = "lock", NEW existing,
           existing = None \/ existing \in LockRows, OpenDialog(t, kind, existing)
    PROVE  Inv'
<1>0. opens \in Nat /\ modal[t] = None
    BY DEF Inv, SubmitInv, Numbered, TabInv, OpenDialog
<1>n. PICK n \in Nat : n = opens + 1
    BY <1>0
<1> DEFINE m == NewModal(n, kind, existing)
<1>1. m \in Modals /\ m.inst = opens + 1 /\ m.kind = kind /\ m.typeSeen = None /\ m.submitting = FALSE /\ m # None
    <2>1. [endsAfter |-> TRUE, products |-> {"all"}] \in LockBodies
        BY DEF LockBodies
    <2>2. existing # None => existing.id \in LockIds /\ existing.lock \in LockBodies
        BY DEF LockRows
    <2>3. m \in Modals
        BY <2>1, <2>2 DEF NewModal, Modals
    <2>4. m.inst = n /\ m.kind = kind /\ m.typeSeen = None /\ m.submitting = FALSE
        BY DEF NewModal
    <2> QED BY <1>n, <2>3, <2>4, ModalFields
<1>2. /\ open' = [open EXCEPT ![t] = kind] /\ modal' = [modal EXCEPT ![t] = m]
      /\ opens' = opens + 1 /\ abandoned' = abandoned /\ threw' = threw /\ req' = req /\ sent' = sent
      /\ shown' = shown /\ confirmingId' = confirmingId /\ orphans' = orphans
      /\ locks' = locks /\ gone' = gone /\ rollouts' = rollouts /\ typeVer' = typeVer
    BY <1>n DEF OpenDialog, pageVars, dbVars
<1> HIDE DEF m
<1>3. GoodModal(m, typeVer)
    BY <1>1 DEF GoodModal
<1>4. TabInv'
    BY <1>1, <1>2, <1>3, TabStep DEF Inv
<1>5. SubmitInv'
    BY <1>0, <1>1, <1>2, SubmitOpen DEF Inv
<1> QED BY <1>2, <1>4, <1>5, PageKept, ReqKept, DbKept DEF Inv

LEMMA InvClose ==
    ASSUME Inv, NEW t \in Tabs, close(t)
    PROVE  Inv'
<1>1. /\ open' = [open EXCEPT ![t] = "none"] /\ modal' = [modal EXCEPT ![t] = None]
      /\ Abandon(t) /\ threw' = threw /\ opens' = opens /\ req' = req /\ sent' = sent
      /\ shown' = shown /\ confirmingId' = confirmingId /\ orphans' = orphans
      /\ locks' = locks /\ gone' = gone /\ rollouts' = rollouts /\ typeVer' = typeVer
    BY DEF close, CloseStore, pageVars, dbVars
<1>2. TabInv'
    BY <1>1, TabStep DEF Inv
<1>3. SubmitInv'
    BY <1>1, SubmitClose DEF Inv
<1> QED BY <1>1, <1>2, <1>3, PageKept, ReqKept, DbKept DEF Inv

\* What an edit of a form may change.
LEMMA InvForm ==
    ASSUME Inv, NEW t \in Tabs, NEW m \in Modals, open[t] # "none", SetForm(t, m),
           m.inst = modal[t].inst, m.kind = modal[t].kind, m.submitting = modal[t].submitting,
           m.typeSeen = modal[t].typeSeen \/ m.typeSeen = typeVer
    PROVE  Inv'
<1>0. modal[t] \in Modals /\ modal[t] # None /\ modal[t].kind = open[t] /\ GoodModal(modal[t], typeVer) /\ m # None
    BY ModalFields DEF Inv, TabInv
<1>1. /\ modal' = [modal EXCEPT ![t] = m] /\ open' = open /\ opens' = opens /\ abandoned' = abandoned /\ threw' = threw
      /\ req' = req /\ sent' = sent
      /\ shown' = shown /\ confirmingId' = confirmingId /\ orphans' = orphans
      /\ locks' = locks /\ gone' = gone /\ rollouts' = rollouts /\ typeVer' = typeVer
    BY DEF SetForm, pageVars, dbVars, ghostVars
<1>2. GoodModal(m, typeVer)
    BY <1>0 DEF GoodModal, Inv, RolloutInv
<1>3. open' = [open EXCEPT ![t] = open[t]] /\ open[t] \in {"none", "rollout", "lock"}
    BY <1>1 DEF Inv, TabInv
<1>4. TabInv'
    BY <1>0, <1>1, <1>2, <1>3, TabStep DEF Inv
<1>5. SubmitInv'
    BY <1>0, <1>1, SubmitForm DEF Inv
<1> QED BY <1>1, <1>4, <1>5, PageKept, ReqKept, DbKept DEF Inv

LEMMA FormFacts ==
    ASSUME NEW m \in Modals, NEW v \in Nat, NEW after \in BOOLEAN, NEW ps \in SUBSET (Products \union {"all"})
    PROVE  /\ [m EXCEPT !.typeSeen = v] \in Modals
           /\ [m EXCEPT !.title = TRUE] \in Modals
           /\ [m EXCEPT !.start = after] \in Modals
           /\ [m EXCEPT !.lock.endsAfter = after] \in Modals
           /\ [m EXCEPT !.lock.products = ps] \in Modals
<1>1. m.lock \in LockBodies
    BY ModalFields
<1>2. [m.lock EXCEPT !.endsAfter = after] \in LockBodies /\ [m.lock EXCEPT !.products = ps] \in LockBodies
    BY <1>1 DEF LockBodies
<1> QED BY <1>2 DEF Modals

LEMMA InvEdits ==
    ASSUME Inv, NEW t \in Tabs,
           \/ ListsArrive(t) \/ typeTitle(t) \/ selectAll(t)
           \/ \E b \in BOOLEAN : setTimes(t, b) \/ setStart(t, b)
           \/ \E p \in Products : toggleProduct(t, p)
    PROVE  Inv'
<1>0. open[t] # "none"
    BY DEF ListsArrive, typeTitle, selectAll, setTimes, setStart, toggleProduct
<1>1. modal[t] \in Modals /\ typeVer \in Nat
    BY <1>0 DEF Inv, TabInv, RolloutInv
<1> DEFINE m == modal[t]
<1>2. CASE ListsArrive(t)
    <2> DEFINE f == [m EXCEPT !.typeSeen = typeVer]
    <2>1. f \in Modals
        BY <1>1, FormFacts
    <2>2. f.inst = m.inst /\ f.kind = m.kind /\ f.submitting = m.submitting /\ f.typeSeen = typeVer
        BY <1>1 DEF Modals
    <2>3. SetForm(t, f)
        BY <1>2 DEF ListsArrive
    <2> HIDE DEF f
    <2> QED BY <1>0, <2>1, <2>2, <2>3, InvForm
<1>3. CASE typeTitle(t)
    <2> DEFINE f == [m EXCEPT !.title = TRUE]
    <2>1. f \in Modals
        BY <1>1, FormFacts
    <2>2. f.inst = m.inst /\ f.kind = m.kind /\ f.submitting = m.submitting /\ f.typeSeen = m.typeSeen
        BY <1>1 DEF Modals
    <2>3. SetForm(t, f)
        BY <1>3 DEF typeTitle
    <2> HIDE DEF f
    <2> QED BY <1>0, <2>1, <2>2, <2>3, InvForm
<1>4. CASE \E b \in BOOLEAN : setTimes(t, b)
    <2>0. PICK after \in BOOLEAN : setTimes(t, after)
        BY <1>4
    <2> DEFINE f == [m EXCEPT !.lock.endsAfter = after]
    <2>1. f \in Modals
        BY <1>1, FormFacts
    <2>2. f.inst = m.inst /\ f.kind = m.kind /\ f.submitting = m.submitting /\ f.typeSeen = m.typeSeen
        BY <1>1 DEF Modals
    <2>3. SetForm(t, f)
        BY <2>0 DEF setTimes
    <2> HIDE DEF f
    <2> QED BY <1>0, <2>1, <2>2, <2>3, InvForm
<1>5. CASE selectAll(t) \/ \E p \in Products : toggleProduct(t, p)
    <2>1. m.lock.products \subseteq Products \union {"all"}
        BY <1>1, ModalFields DEF LockBodies
    <2>2. PICK ps \in SUBSET (Products \union {"all"}) : SetForm(t, [m EXCEPT !.lock.products = ps])
        <3>1. CASE selectAll(t)
            BY <3>1 DEF selectAll
        <3>2. ASSUME NEW p \in Products, toggleProduct(t, p)
              PROVE  \E ps \in SUBSET (Products \union {"all"}) : SetForm(t, [m EXCEPT !.lock.products = ps])
            <4> DEFINE old == m.lock.products
                       ps == IF "all" \in old THEN {p} ELSE IF p \in old THEN old \ {p} ELSE old \union {p}
            <4>1. ps \in SUBSET (Products \union {"all"})
                BY <2>1
            <4>2. SetForm(t, [m EXCEPT !.lock.products = ps])
                BY <3>2 DEF toggleProduct
            <4> QED BY <4>1, <4>2
        <3> QED BY <1>5, <3>1, <3>2
    <2> DEFINE f == [m EXCEPT !.lock.products = ps]
    <2>3. f \in Modals
        BY <1>1, FormFacts
    <2>4. f.inst = m.inst /\ f.kind = m.kind /\ f.submitting = m.submitting /\ f.typeSeen = m.typeSeen
        BY <1>1 DEF Modals
    <2>5. SetForm(t, f)
        BY <2>2
    <2> HIDE DEF f
    <2> QED BY <1>0, <2>3, <2>4, <2>5, InvForm
<1>6. CASE \E b \in BOOLEAN : setStart(t, b)
    <2>0. PICK b \in BOOLEAN : setStart(t, b)
        BY <1>6
    <2> DEFINE f == [m EXCEPT !.start = b]
    <2>1. f \in Modals
        BY <1>1, FormFacts
    <2>2. f.inst = m.inst /\ f.kind = m.kind /\ f.submitting = m.submitting /\ f.typeSeen = m.typeSeen
        BY <1>1 DEF Modals
    <2>3. SetForm(t, f)
        BY <2>0 DEF setStart
    <2> HIDE DEF f
    <2> QED BY <1>0, <2>1, <2>2, <2>3, InvForm
<1> QED BY <1>2, <1>3, <1>4, <1>5, <1>6

LEMMA NextRequestFree ==
    ASSUME Inv, NEW i \in Reqs, i = sent + 1
    PROVE  req[i] = None
BY DialogsAssumption DEF DialogsAssumption, Inv, ReqInv, Reqs

LEMMA InvSubmit ==
    ASSUME Inv, NEW t \in Tabs, NEW i \in Reqs, submit(t, i)
    PROVE  Inv'
<1> DEFINE m == Submitting(modal[t], TRUE)
           r == Request(t, modal[t])
<1>0. /\ modal[t] \in Modals /\ modal[t] # None /\ modal[t].kind = open[t] /\ GoodModal(modal[t], typeVer)
      /\ typeVer \in Nat /\ modal[t].inst # 0 /\ open[t] \in {"none", "rollout", "lock"} /\ open[t] # "none"
    BY DEF Inv, TabInv, RolloutInv, SubmitInv, Numbered, submit
<1>1. /\ canSubmit(modal[t]) /\ i = sent + 1 /\ sent' = i
      /\ req' = [req EXCEPT ![i] = r] /\ modal' = [modal EXCEPT ![t] = m]
      /\ open' = open /\ opens' = opens /\ abandoned' = abandoned /\ threw' = threw
      /\ shown' = shown /\ confirmingId' = confirmingId /\ orphans' = orphans
      /\ locks' = locks /\ gone' = gone /\ rollouts' = rollouts /\ typeVer' = typeVer
    BY DEF submit, pageVars, dbVars, ghostVars
<1>2. /\ m \in Modals /\ m # None /\ m.submitting = TRUE /\ m.inst = modal[t].inst
      /\ m.kind = modal[t].kind /\ m.typeSeen = modal[t].typeSeen
    BY <1>0, SubmittingFacts, ModalFields
<1>3. GoodRequest(r, typeVer) /\ r.tab = t /\ r.inst = modal[t].inst
    BY <1>0, <1>1, RequestSent
<1> HIDE DEF m, r
<1>4. r \in Requests /\ ~modal[t].submitting
    BY <1>1, <1>3 DEF GoodRequest, canSubmit
<1>5. TabInv'
    <2>1. GoodModal(m, typeVer)
        BY <1>0, <1>2 DEF GoodModal
    <2>2. open' = [open EXCEPT ![t] = open[t]]
        BY <1>1 DEF Inv, TabInv
    <2> QED BY <1>0, <1>1, <1>2, <2>1, <2>2, TabStep DEF Inv
<1>6. ReqInv'
    <2>1. sent' \in Nat /\ sent <= sent' /\ i <= sent'
        BY <1>1 DEF Inv, ReqInv
    <2> QED BY <1>1, <1>3, <1>4, <2>1, ReqStep DEF Inv
<1>7. SubmitInv'
    BY <1>0, <1>1, <1>2, <1>3, <1>4, NextRequestFree, SubmitSend DEF Inv
<1> QED BY <1>1, <1>5, <1>6, <1>7, PageKept, DbKept DEF Inv

LEMMA InvThrows ==
    ASSUME Inv, NEW t \in Tabs, submitThrows(t)
    PROVE  Inv'
<1> DEFINE m == Submitting(modal[t], TRUE)
<1>0. /\ modal[t] \in Modals /\ modal[t] # None /\ modal[t].kind = open[t] /\ GoodModal(modal[t], typeVer)
      /\ open[t] \in {"none", "rollout", "lock"} /\ open[t] # "none"
    BY DEF Inv, TabInv, submitThrows
<1>1. /\ modal' = [modal EXCEPT ![t] = m] /\ threw' = threw \union {modal[t].inst}
      /\ open' = open /\ opens' = opens /\ abandoned' = abandoned /\ req' = req /\ sent' = sent
      /\ shown' = shown /\ confirmingId' = confirmingId /\ orphans' = orphans
      /\ locks' = locks /\ gone' = gone /\ rollouts' = rollouts /\ typeVer' = typeVer
    BY DEF submitThrows, pageVars, dbVars
<1>2. /\ m \in Modals /\ m # None /\ m.submitting = TRUE /\ m.inst = modal[t].inst
      /\ m.kind = modal[t].kind /\ m.typeSeen = modal[t].typeSeen
    BY <1>0, SubmittingFacts, ModalFields
<1> HIDE DEF m
<1>3. ~modal[t].submitting /\ modal[t].kind = "rollout"
    BY <1>0, ModalFields DEF submitThrows, canSubmit
<1>4. TabInv'
    <2>1. GoodModal(m, typeVer)
        BY <1>0, <1>2 DEF GoodModal
    <2>2. open' = [open EXCEPT ![t] = open[t]]
        BY <1>1 DEF Inv, TabInv
    <2> QED BY <1>0, <1>1, <1>2, <2>1, <2>2, TabStep DEF Inv
<1>5. SubmitInv'
    BY <1>0, <1>1, <1>2, <1>3, SubmitThrown DEF Inv
<1> QED BY <1>1, <1>4, <1>5, PageKept, ReqKept, DbKept DEF Inv

LEMMA InvConfirm ==
    ASSUME Inv, NEW t \in Tabs, NEW i \in Reqs, confirmRemove(t, i)
    PROVE  Inv'
<1> DEFINE r == RemoveRequest(t, confirmingId[t])
<1>0. confirmingId[t] \in LockIds /\ typeVer \in Nat
    BY DEF Inv, PageInv, RolloutInv, confirmRemove
<1>1. /\ i = sent + 1 /\ sent' = i /\ req' = [req EXCEPT ![i] = r]
      /\ modal' = modal /\ open' = open /\ opens' = opens /\ abandoned' = abandoned /\ threw' = threw
      /\ shown' = shown /\ confirmingId' = confirmingId /\ orphans' = orphans
      /\ locks' = locks /\ gone' = gone /\ rollouts' = rollouts /\ typeVer' = typeVer
    BY DEF confirmRemove, tabVars, pageVars, dbVars, ghostVars
<1>2. GoodRequest(r, typeVer) /\ r.inst = 0
    BY <1>0, RemoveSent
<1> HIDE DEF r
<1>3. r \in Requests
    BY <1>2 DEF GoodRequest
<1>4. ReqInv'
    <2>1. sent' \in Nat /\ sent <= sent' /\ i <= sent'
        BY <1>1 DEF Inv, ReqInv
    <2> QED BY <1>1, <1>2, <1>3, <2>1, ReqStep DEF Inv
<1>5. SubmitInv'
    BY <1>1, <1>2, <1>3, NextRequestFree, SubmitReply DEF Inv
<1> QED BY <1>1, <1>4, <1>5, TabKept, PageKept, DbKept DEF Inv

LEMMA InvPage ==
    ASSUME Inv, NEW t \in Tabs,
           \/ Visit(t) \/ Leave(t) \/ CancelRemove(t) \/ RefetchAnswered(t) \/ RefetchFails(t)
           \/ \E l \in LockIds : AskRemove(t, l)
    PROVE  Inv'
<1>1. /\ modal' = modal /\ open' = open /\ opens' = opens /\ abandoned' = abandoned /\ threw' = threw
      /\ req' = req /\ sent' = sent
      /\ locks' = locks /\ gone' = gone /\ rollouts' = rollouts /\ typeVer' = typeVer
    BY DEF Visit, Leave, CancelRemove, RefetchAnswered, RefetchFails, Refetch, AskRemove,
           tabVars, dbVars, ghostVars
<1>2. PageInv'
    <2>1. Listing \subseteq LockRows
        BY DEF Listing, LockRows, Inv, LockInv
    <2>2. CASE Visit(t)
        BY <2>2 DEF Visit, Inv, PageInv
    <2>3. CASE Leave(t)
        BY <2>3 DEF Leave, LeavePage, Inv, PageInv
    <2>4. CASE CancelRemove(t)
        BY <2>4 DEF CancelRemove, Inv, PageInv
    <2>5. CASE RefetchAnswered(t)
        BY <2>1, <2>5 DEF RefetchAnswered, Refetch, Inv, PageInv
    <2>6. CASE RefetchFails(t)
        BY <2>6 DEF RefetchFails, Refetch, Inv, PageInv
    <2>7. CASE \E l \in LockIds : AskRemove(t, l)
        BY <2>7 DEF AskRemove, Inv, PageInv
    <2> QED BY <2>2, <2>3, <2>4, <2>5, <2>6, <2>7
<1> QED BY <1>1, <1>2, TabKept, ReqKept, DbKept, SubmitKept DEF Inv

\* A request gets a step further.
LEMMA ReplyStep ==
    ASSUME Inv, NEW i \in Reqs, NEW r \in Requests, req[i] # None,
           GoodRequest(r, typeVer), r.inst = req[i].inst, r.tab = req[i].tab,
           req' = [req EXCEPT ![i] = r], sent' = sent, typeVer' = typeVer,
           modal' = modal, open' = open, opens' = opens, abandoned' = abandoned /\ threw' = threw
    PROVE  TabInv' /\ ReqInv' /\ SubmitInv'
<1>1. ReqInv'
    <2>1. sent' \in Nat /\ sent <= sent' /\ i <= sent'
        BY DEF Inv, ReqInv
    <2> QED BY <2>1, ReqStep DEF Inv
<1>2. SubmitInv'
    BY SubmitReply DEF Inv
<1> QED BY <1>1, <1>2, TabKept DEF Inv

LEMMA PhasedStep ==
    ASSUME Inv, NEW i \in Reqs, NEW phase \in {"ok", "error"}, req[i] # None, Reply(i, phase),
           sent' = sent, typeVer' = typeVer,
           modal' = modal, open' = open, opens' = opens, abandoned' = abandoned /\ threw' = threw
    PROVE  TabInv' /\ ReqInv' /\ SubmitInv'
<1>1. req[i] \in Requests /\ GoodRequest(req[i], typeVer) /\ typeVer \in Nat
    BY DEF Inv, ReqInv, RolloutInv
<1>2. GoodRequest(Phased(req[i], phase), typeVer)
    BY <1>1, PhasedGood
<1>3. Phased(req[i], phase) \in Requests
    BY <1>2 DEF GoodRequest
<1>4. Phased(req[i], phase).inst = req[i].inst /\ Phased(req[i], phase).tab = req[i].tab
    BY <1>1, PhasedFacts
<1>5. req' = [req EXCEPT ![i] = Phased(req[i], phase)]
    BY DEF Reply
<1> QED BY <1>2, <1>3, <1>4, <1>5, ReplyStep

LEMMA InvServe ==
    ASSUME Inv, NEW i \in Reqs,
           refuseLock(i) \/ lockNotFound(i) \/ updateLock(i) \/ deleteLock(i) \/ \E l \in LockIds : createLock(i, l)
    PROVE  Inv'
<1>0. req[i] # None
    BY DEF refuseLock, lockNotFound, updateLock, deleteLock, createLock, Incoming
<1>1. req[i] \in Requests /\ GoodRequest(req[i], typeVer)
    BY <1>0 DEF Inv, ReqInv
<1>2. /\ modal' = modal /\ open' = open /\ opens' = opens /\ abandoned' = abandoned /\ threw' = threw /\ sent' = sent
      /\ shown' = shown /\ confirmingId' = confirmingId /\ orphans' = orphans
      /\ rollouts' = rollouts /\ typeVer' = typeVer
    BY DEF refuseLock, lockNotFound, updateLock, deleteLock, createLock, ServerKeeps,
           tabVars, pageVars, dbVars, ghostVars
<1>3. Reply(i, "ok") \/ Reply(i, "error")
    BY DEF refuseLock, lockNotFound, updateLock, deleteLock, createLock
<1>4. TabInv' /\ ReqInv' /\ SubmitInv'
    BY <1>0, <1>2, <1>3, PhasedStep
<1>5. PageInv'
    BY <1>2, PageKept DEF Inv
<1>6. RolloutInv'
    BY <1>2 DEF Inv, RolloutInv, TasksNotOlder
<1>7. LockInv' /\ LocksValid'
    <2>1. CASE refuseLock(i) \/ lockNotFound(i)
        <3>1. locks' = locks /\ gone' = gone
            BY <2>1 DEF refuseLock, lockNotFound, dbVars
        <3> QED BY <3>1 DEF Inv, LockInv, LocksValid, NoLockResurrection
    <2>2. CASE deleteLock(i)
        <3>1. req[i].id \in LockIds
            BY <2>2, <1>1 DEF GoodRequest, deleteLock, Incoming
        <3>2. \A l \in LockIds : locks'[l] = IF l = req[i].id THEN None ELSE locks[l]
            BY <2>2 DEF deleteLock, Inv, LockInv
        <3>3. locks' \in [LockIds -> LockBodies \union {None}] /\ gone' = gone \union {req[i].id}
            BY <2>2 DEF deleteLock, Inv, LockInv
        <3> QED BY <3>1, <3>2, <3>3 DEF Inv, LockInv, LocksValid, NoLockResurrection
    <2>3. ASSUME NEW k \in LockIds, k \notin gone, gone' = gone, locks' = [locks EXCEPT ![k] = req[i].lock],
                 req[i].lock.endsAfter, req[i].op \in {"createLock", "updateLock"}
          PROVE  LockInv' /\ LocksValid'
        <3>1. req[i].lock \in LockBodies /\ req[i].lock.products # {}
            BY <2>3, <1>1 DEF GoodRequest
        <3>2. \A l \in LockIds : locks'[l] = IF l = k THEN req[i].lock ELSE locks[l]
            BY <2>3 DEF Inv, LockInv
        <3>3. locks' \in [LockIds -> LockBodies \union {None}]
            BY <2>3, <3>1 DEF Inv, LockInv
        <3>4. LockInv'
            BY <2>3, <3>2, <3>3 DEF Inv, LockInv, NoLockResurrection
        <3>5. LocksValid'
            BY <2>3, <3>1, <3>2 DEF Inv, LocksValid
        <3> QED BY <3>4, <3>5
    <2>4. CASE updateLock(i)
        <3>1. req[i].id \in LockIds
            BY <2>4, <1>1 DEF GoodRequest, updateLock, Incoming
        <3>2. req[i].id \notin gone
            BY <2>4 DEF updateLock, Inv, LockInv, NoLockResurrection
        <3> QED BY <2>4, <3>1, <3>2, <2>3 DEF updateLock, Incoming, normalizeAndValidateLock
    <2>5. CASE \E l \in LockIds : createLock(i, l)
        BY <2>5, <2>3 DEF createLock, Incoming, normalizeAndValidateLock
    <2> QED BY <2>1, <2>2, <2>4, <2>5
<1> QED BY <1>4, <1>5, <1>6, <1>7 DEF Inv

LEMMA InvRollout ==
    ASSUME Inv, NEW i \in Reqs, readType(i) \/ commitRollout(i) \/ Fail(i)
    PROVE  Inv'
<1>0. req[i] # None
    BY DEF readType, commitRollout, Fail, Incoming
<1>1. req[i] \in Requests /\ GoodRequest(req[i], typeVer) /\ typeVer \in Nat
    BY <1>0 DEF Inv, ReqInv, RolloutInv
<1>2. /\ modal' = modal /\ open' = open /\ opens' = opens /\ abandoned' = abandoned /\ threw' = threw /\ sent' = sent
      /\ shown' = shown /\ confirmingId' = confirmingId /\ orphans' = orphans
      /\ locks' = locks /\ gone' = gone /\ typeVer' = typeVer
    BY DEF readType, commitRollout, Fail, ServerKeeps, tabVars, pageVars, dbVars, ghostVars
<1>3. TabInv' /\ ReqInv' /\ SubmitInv'
    <2>1. CASE readType(i)
        <3>1. GoodRequest(WithTasks(req[i], typeVer), typeVer)
            BY <2>1, <1>1, WithTasksGood DEF readType, Incoming
        <3>2. WithTasks(req[i], typeVer) \in Requests
            BY <3>1 DEF GoodRequest
        <3>3. WithTasks(req[i], typeVer).inst = req[i].inst /\ WithTasks(req[i], typeVer).tab = req[i].tab
            BY <1>1, WithTasksFacts
        <3>4. req' = [req EXCEPT ![i] = WithTasks(req[i], typeVer)]
            BY <2>1 DEF readType
        <3> QED BY <1>0, <1>2, <3>1, <3>2, <3>3, <3>4, ReplyStep
    <2>2. CASE commitRollout(i) \/ Fail(i)
        <3>1. Reply(i, "ok") \/ Reply(i, "error")
            BY <2>2 DEF commitRollout, Fail
        <3> QED BY <1>0, <1>2, <3>1, PhasedStep
    <2> QED BY <2>1, <2>2
<1>4. RolloutInv'
    <2>1. CASE readType(i) \/ Fail(i)
        BY <2>1, <1>2 DEF readType, Fail, dbVars, Inv, RolloutInv, TasksNotOlder
    <2>2. CASE commitRollout(i)
        <3> DEFINE n == [req |-> i, inst |-> req[i].inst, stages |-> req[i].stages, tasks |-> req[i].tasks]
        <3>1. rollouts' = rollouts \union {n} /\ n.stages = req[i].stages /\ n.tasks = req[i].tasks
            BY <2>2 DEF commitRollout
        <3>2. /\ req[i].stages \in Nat /\ req[i].tasks \in Nat
              /\ req[i].stages <= req[i].tasks /\ req[i].tasks <= typeVer
            BY <2>2, <1>1 DEF commitRollout, GoodRequest
        <3> HIDE DEF n
        <3> QED BY <1>2, <3>1, <3>2 DEF Inv, RolloutInv, TasksNotOlder
    <2> QED BY <2>1, <2>2
<1>5. LockInv' /\ LocksValid'
    BY <1>2 DEF Inv, LockInv, LocksValid, NoLockResurrection
<1> QED BY <1>2, <1>3, <1>4, <1>5, PageKept DEF Inv

LEMMA InvSaveType ==
    ASSUME Inv, saveType
    PROVE  Inv'
<1>0. typeVer \in Nat /\ typeVer' = typeVer + 1
    BY DEF Inv, RolloutInv, saveType
<1>1. /\ modal' = modal /\ open' = open /\ opens' = opens /\ abandoned' = abandoned /\ threw' = threw
      /\ req' = req /\ sent' = sent
      /\ shown' = shown /\ confirmingId' = confirmingId /\ orphans' = orphans
      /\ locks' = locks /\ gone' = gone /\ rollouts' = rollouts
    BY DEF saveType, tabVars, pageVars, ghostVars
<1>2. TabInv'
    BY <1>0, <1>1, LaterGood DEF Inv, TabInv
<1>3. ReqInv'
    BY <1>0, <1>1, LaterGood DEF Inv, ReqInv
<1>4. RolloutInv'
    BY <1>0, <1>1 DEF Inv, RolloutInv, TasksNotOlder
<1>5. LockInv' /\ LocksValid'
    BY <1>1 DEF Inv, LockInv, LocksValid, NoLockResurrection
<1> QED BY <1>1, <1>2, <1>3, <1>4, <1>5, PageKept, SubmitKept DEF Inv

\* The request is done.
LEMMA DoneStep ==
    ASSUME Inv, NEW i \in Reqs, Done(i), sent' = sent, typeVer' = typeVer
    PROVE  ReqInv'
<1>1. sent' \in Nat /\ sent <= sent'
    BY DEF Inv, ReqInv
<1> QED BY <1>1, ReqStep DEF Inv, Done

LEMMA InvAnswer ==
    ASSUME Inv, NEW i \in Reqs, Answer(i)
    PROVE  Inv'
<1>0. req[i] # None
    BY DEF Answer, Succeeded, Failed, Removed
<1>1. req[i] \in Requests /\ GoodRequest(req[i], typeVer) /\ req[i].tab \in Tabs
    BY <1>0, RequestFields DEF Inv, ReqInv
<1>2. Done(i) /\ opens' = opens /\ sent' = sent /\ locks' = locks /\ gone' = gone /\ rollouts' = rollouts /\ typeVer' = typeVer
    BY DEF Answer, Succeeded, Failed, Removed, dbVars, ghostVars
<1>3. ReqInv'
    BY <1>2, DoneStep
<1>4. LockInv' /\ LocksValid' /\ RolloutInv'
    BY <1>2, DbKept DEF Inv
<1>5. PageInv'
    <2>1. CASE Succeeded(i)
        BY <2>1, <1>1 DEF Succeeded, LeavePage, pageVars, Inv, PageInv
    <2>2. CASE Failed(i)
        BY <2>2, PageKept DEF Failed, pageVars, Inv
    <2>3. CASE Removed(i)
        BY <2>3, <1>1 DEF Removed, Inv, PageInv
    <2> QED BY <2>1, <2>2, <2>3 DEF Answer
<1>6. TabInv' /\ SubmitInv'
    <2>1. CASE Succeeded(i)
        <3>1. /\ open' = [open EXCEPT ![req[i].tab] = "none"] /\ modal' = [modal EXCEPT ![req[i].tab] = None]
              /\ Abandon(req[i].tab) /\ threw' = threw
            BY <2>1 DEF Succeeded, CloseStore
        <3>2. TabInv'
            BY <1>1, <1>2, <3>1, TabStep DEF Inv
        <3>3. SubmitInv'
            BY <1>0, <1>1, <1>2, <3>1, SubmitClose DEF Inv, Done
        <3> QED BY <3>2, <3>3
    <2>2. CASE Failed(i) /\ OnScreen(i)
        <3> DEFINE t == req[i].tab
                   m == Submitting(modal[t], FALSE)
        <3>0. /\ modal[t] \in Modals /\ modal[t] # None /\ modal[t].kind = open[t] /\ GoodModal(modal[t], typeVer)
              /\ open[t] \in {"none", "rollout", "lock"} /\ modal[t].inst = req[i].inst
            BY <2>2, <1>1 DEF OnScreen, Inv, TabInv
        <3>1. open' = open /\ modal' = [modal EXCEPT ![t] = m] /\ abandoned' = abandoned /\ threw' = threw
            BY <2>2 DEF Failed
        <3>2. /\ m \in Modals /\ m # None /\ m.submitting = FALSE /\ m.inst = req[i].inst
              /\ m.kind = open[t] /\ m.typeSeen = modal[t].typeSeen
            BY <3>0, SubmittingFacts, ModalFields
        <3> HIDE DEF m
        <3>3. GoodModal(m, typeVer) /\ open' = [open EXCEPT ![t] = open[t]]
            BY <3>0, <3>1, <3>2 DEF GoodModal, Inv, TabInv
        <3>4. open[t] # "none"
            BY <3>0, <1>1 DEF Inv, TabInv
        <3>5. TabInv'
            BY <1>1, <1>2, <3>0, <3>1, <3>2, <3>3, <3>4, TabStep DEF Inv
        <3>6. req[i].inst # 0
            BY <2>2, <1>1 DEF Failed, GoodRequest
        <3>7. SubmitInv'
            BY <1>0, <1>1, <1>2, <3>0, <3>1, <3>2, <3>6, SubmitForm DEF Inv, Done
        <3> QED BY <3>5, <3>7
    <2>3. CASE Failed(i) /\ ~OnScreen(i)
        <3>1. open' = open /\ modal' = modal /\ abandoned' = abandoned /\ threw' = threw
            BY <2>3 DEF Failed
        <3>2. \A t \in Tabs : modal[t] # None /\ modal[t].inst = req[i].inst => t # req[i].tab
            BY <2>3 DEF OnScreen
        <3> QED BY <1>0, <1>2, <3>1, <3>2, TabKept, SubmitDone DEF Inv, Done
    <2>4. CASE Removed(i)
        <3>1. open' = open /\ modal' = modal /\ abandoned' = abandoned /\ threw' = threw
            BY <2>4 DEF Removed, tabVars, ghostVars
        <3>2. req[i].inst = 0
            BY <2>4, <1>1 DEF Removed, GoodRequest
        <3>3. \A t \in Tabs : modal[t] # None => modal[t].inst # 0
            BY DEF Inv, SubmitInv, Numbered
        <3> QED BY <1>0, <1>2, <3>1, <3>2, <3>3, TabKept, SubmitDone DEF Inv, Done
    <2> QED BY <2>1, <2>2, <2>3, <2>4 DEF Answer
<1> QED BY <1>3, <1>4, <1>5, <1>6 DEF Inv

LEMMA InvNext == Inv /\ [Next]_vars => Inv'
<1> SUFFICES ASSUME Inv, [Next]_vars PROVE Inv'
    OBVIOUS
<1>1. ASSUME NEW t \in Tabs, User(t) \/ ListsArrive(t) \/ RefetchAnswered(t) \/ RefetchFails(t)
      PROVE  Inv'
    <2>1. CASE onCreateRollout(t)
        BY <2>1, InvOpen DEF onCreateRollout, openRollout
    <2>2. CASE onCreateLock(t)
        BY <2>2, InvOpen DEF onCreateLock, openLock
    <2>3. CASE edit(t)
        <3>1. PICK l \in shown[t] : OpenDialog(t, "lock", l)
            BY <2>3 DEF edit, openLock
        <3>2. l \in LockRows
            BY <2>3 DEF Inv, PageInv, edit
        <3> QED BY <3>1, <3>2, InvOpen
    <2>4. CASE close(t)
        BY <2>4, InvClose
    <2>5. CASE \/ ListsArrive(t) \/ typeTitle(t) \/ selectAll(t)
               \/ \E b \in BOOLEAN : setTimes(t, b) \/ setStart(t, b)
               \/ \E p \in Products : toggleProduct(t, p)
        BY <2>5, InvEdits
    <2>6. CASE \E i \in Reqs : submit(t, i) \/ confirmRemove(t, i)
        BY <2>6, InvSubmit, InvConfirm
    <2>8. CASE submitThrows(t)
        BY <2>8, InvThrows
    <2>7. CASE \/ Visit(t) \/ Leave(t) \/ CancelRemove(t) \/ RefetchAnswered(t) \/ RefetchFails(t)
               \/ \E l \in LockIds : AskRemove(t, l)
        BY <2>7, InvPage
    <2> QED BY <1>1, <2>1, <2>2, <2>3, <2>4, <2>5, <2>6, <2>7, <2>8 DEF User
<1>2. ASSUME NEW i \in Reqs, Serve(i) \/ Fail(i)
      PROVE  Inv'
    BY <1>2, InvServe, InvRollout DEF Serve
<1>3. CASE UNCHANGED vars
    <2>1. /\ modal' = modal /\ open' = open /\ opens' = opens /\ abandoned' = abandoned /\ threw' = threw
          /\ req' = req /\ sent' = sent
          /\ shown' = shown /\ confirmingId' = confirmingId /\ orphans' = orphans
          /\ locks' = locks /\ gone' = gone /\ rollouts' = rollouts /\ typeVer' = typeVer
        BY <1>3 DEF vars
    <2> QED BY <2>1, TabKept, PageKept, ReqKept, DbKept, SubmitKept DEF Inv
<1> QED BY <1>1, <1>2, <1>3, InvAnswer, InvSaveType DEF Next

LEMMA Invariance == Spec => []Inv
BY InvInit, InvNext, PTL DEF Spec

-----------------------------------------------------------------------------
(* The theorems *)

\* Every variable has its type and the component on screen is the one the
\* DialogStore says (dialog.store.ts, shell.component.html).
THEOREM TypeCorrect == Spec => []TypeOK
<1>1. Inv => TypeOK
    <2> SUFFICES ASSUME Inv PROVE TypeOK
        OBVIOUS
    <2>1. \A t \in Tabs : IF open[t] = "none" THEN modal[t] = None ELSE modal[t] # None /\ modal[t].kind = open[t]
        BY DEF Inv, TabInv
    <2> QED BY <2>1 DEF Inv, TabInv, PageInv, ReqInv, LockInv, RolloutInv, SubmitInv, Numbered, ThrewInv, TypeOK
<1> QED BY <1>1, Invariance, PTL

\* No save brings a deleted lock back (UpdateLock, DeleteLock).
THEOREM LockStaysDeleted == Spec => []NoLockResurrection
<1>1. Inv => NoLockResurrection
    BY DEF Inv, LockInv
<1> QED BY <1>1, Invariance, PTL

\* Every stored lock is valid although no one side checks all of it
\* (create-lock-modal canSubmit, normalizeAndValidateLock).
THEOREM StoredLocksValid == Spec => []LocksValid
<1>1. Inv => LocksValid
    BY DEF Inv
<1> QED BY <1>1, Invariance, PTL

\* The tasks of a rollout are as new as the plan of its stages (CreateRollout).
THEOREM TasksFollowPlan == Spec => []TasksNotOlder
<1>1. Inv => TasksNotOlder
    BY DEF Inv, RolloutInv
<1> QED BY <1>1, Invariance, PTL

\* A dialog whose button is disabled has a request under way, unless it is one for a new
\* rollout whose submit threw on a start that is no date: that one has none and stays
\* disabled (submit, cascadeStages).
THEOREM DialogsRecover == Spec => []StuckOnlyUnreadable
<1>1. Inv => StuckOnlyUnreadable
    BY DEF Inv, SubmitInv, Waiting, ThrewInv, StuckOnlyUnreadable
<1> QED BY <1>1, Invariance, PTL

LEMMA ClosedStep ==
    ASSUME Inv, [Next]_vars, NEW t \in Tabs, open[t] # "none", open'[t] = "none", req' # req
    PROVE  \E i \in Reqs :
               /\ req[i] # None /\ req'[i] = None /\ req[i].tab = t /\ req[i].phase = "ok"
               /\ req[i].inst = modal[t].inst \/ req[i].inst \in abandoned
<1>0. open' # open
    OBVIOUS
<1>1. PICK i \in Reqs : Succeeded(i)
    <2>1. ASSUME NEW u \in Tabs, User(u) \/ ListsArrive(u) \/ RefetchAnswered(u) \/ RefetchFails(u)
          PROVE  open' = open \/ req' = req
        BY <2>1 DEF User, ListsArrive, RefetchAnswered, RefetchFails, Refetch, SetForm, tabVars,
                    onCreateRollout, onCreateLock, edit, openRollout, openLock, OpenDialog, close,
                    typeTitle, selectAll, setTimes, setStart, toggleProduct, submit, submitThrows, confirmRemove,
                    Visit, Leave, CancelRemove, AskRemove
    <2>2. ASSUME NEW i \in Reqs, Serve(i) \/ Fail(i) \/ Failed(i) \/ Removed(i)
          PROVE  open' = open
        BY <2>2 DEF Serve, Fail, Failed, Removed, refuseLock, updateLock, deleteLock, lockNotFound,
                    createLock, readType, commitRollout, ServerKeeps, tabVars
    <2>3. CASE saveType \/ UNCHANGED vars
        BY <2>3, <1>0 DEF saveType, tabVars, vars
    <2> QED BY <1>0, <2>1, <2>2, <2>3 DEF Next, Answer
<1>2. req[i] # None /\ req[i].phase = "ok" /\ req[i].op # "deleteLock" /\ req'[i] = None
    BY <1>1 DEF Succeeded, Done, Inv, ReqInv
<1>3. req[i].tab = t
    <2>1. open' = [open EXCEPT ![req[i].tab] = "none"]
        BY <1>1 DEF Succeeded, CloseStore
    <2> QED BY <2>1 DEF Inv, TabInv
<1>4. req[i].inst # 0
    BY <1>2 DEF Inv, ReqInv, GoodRequest
<1>5. Awaited(req[i])
    BY <1>2, <1>4 DEF Inv, SubmitInv, Tracked
<1>6. req[i].inst = modal[t].inst \/ req[i].inst \in abandoned
    BY <1>3, <1>5 DEF Awaited
<1> QED BY <1>2, <1>3, <1>6

\* An answer closes a dialog only after a success, of its own request or of a
\* dialog that was abandoned while submitting (dialog.store.ts close).
THEOREM ClosedBySuccess == Spec => ClosedOnlyBySuccess
<1>1. Inv /\ [Next]_vars =>
        [\A t \in Tabs :
            open[t] # "none" /\ open'[t] = "none" /\ req' # req =>
                \E i \in Reqs :
                    /\ req[i] # None /\ req'[i] = None /\ req[i].tab = t /\ req[i].phase = "ok"
                    /\ req[i].inst = modal[t].inst \/ req[i].inst \in abandoned]_vars
    BY ClosedStep
<1> QED BY <1>1, Invariance, PTL DEF Spec, ClosedOnlyBySuccess

-----------------------------------------------------------------------------
(* How many rollouts a dialog creates *)

CreatedBy(n) == {r \in rollouts : r.inst = n}

\* Dialog n may store one more: all it has stored was answered by an error.
MayCreate(n) == Cardinality(CreatedBy(n)) <= errors[n]

\* A request that is not answered or committed yet, and a dialog whose button is enabled,
\* may each create one more.
CreateInv ==
    /\ opens <= MaxOpens /\ errors \in [1..MaxOpens -> Nat]
    /\ IsFiniteSet(rollouts) /\ \A r \in rollouts : r.inst \in 0..opens
    /\ DuplicatesOnlyAfterError
    /\ \A i \in Reqs :
          req[i] # None /\ req[i].inst # 0 /\ req[i].phase \in {"sent", "read"} => MayCreate(req[i].inst)
    /\ \A t \in Tabs : modal[t] # None /\ ~modal[t].submitting => MayCreate(modal[t].inst)

LEMMA CreatedFinite ==
    ASSUME CreateInv, NEW n
    PROVE  IsFiniteSet(CreatedBy(n)) /\ Cardinality(CreatedBy(n)) \in Nat
<1>1. CreatedBy(n) \subseteq rollouts /\ IsFiniteSet(rollouts)
    BY DEF CreatedBy, CreateInv
<1> QED BY <1>1, FS_Subset, FS_CardinalityType

\* A step that stores no rollout and shows no error: what may create one could before.
LEMMA CreateKept ==
    ASSUME CreateInv, rollouts' = rollouts, errors' = errors, opens' = opens,
           \A i \in Reqs : req'[i] # None /\ req'[i].inst # 0 /\ req'[i].phase \in {"sent", "read"} =>
              \/ req[i] # None /\ req[i].inst = req'[i].inst /\ req[i].phase \in {"sent", "read"}
              \/ \E t \in Tabs : modal[t] # None /\ ~modal[t].submitting /\ modal[t].inst = req'[i].inst,
           \A t \in Tabs : modal'[t] # None /\ ~modal'[t].submitting =>
              modal[t] # None /\ ~modal[t].submitting /\ modal[t].inst = modal'[t].inst
    PROVE  CreateInv'
<1>1. \A n : MayCreate(n) => MayCreate(n)'
    BY DEF MayCreate, CreatedBy
<1>2. DuplicatesOnlyAfterError'
    BY DEF CreateInv, DuplicatesOnlyAfterError
<1>3. \A i \in Reqs :
         req'[i] # None /\ req'[i].inst # 0 /\ req'[i].phase \in {"sent", "read"} => MayCreate(req'[i].inst)
    BY DEF CreateInv
<1>4. \A t \in Tabs : modal'[t] # None /\ ~modal'[t].submitting => MayCreate(modal'[t].inst)
    BY DEF CreateInv
<1> QED BY <1>1, <1>2, <1>3, <1>4 DEF CreateInv, MayCreate, CreatedBy

\* A new dialog has created nothing.
LEMMA CreateOpen ==
    ASSUME Inv, CreateInv, NEW t \in Tabs, NEW kind, NEW existing, OpenDialog(t, kind, existing)
    PROVE  CreateInv'
<1>0. opens \in Nat /\ MaxOpens \in Nat /\ modal \in [Tabs -> Modals \union {None}]
    BY DialogsAssumption DEF DialogsAssumption, Inv, SubmitInv, Numbered, TabInv
<1> DEFINE m == NewModal(opens + 1, kind, existing)
<1>1. /\ opens < MaxOpens /\ opens' = opens + 1 /\ modal' = [modal EXCEPT ![t] = m]
      /\ req' = req /\ rollouts' = rollouts /\ errors' = errors
    BY DEF OpenDialog, dbVars
<1>2. m.inst = opens + 1
    BY DEF NewModal
<1> HIDE DEF m
<1>3. \A u \in Tabs : modal'[u] = IF u = t THEN m ELSE modal[u]
    BY <1>0, <1>1
<1>4. CreatedBy(opens + 1) = {}
    BY <1>0 DEF CreatedBy, CreateInv
<1>5. Cardinality(CreatedBy(opens + 1)) = 0
    BY <1>4, FS_EmptySet
<1>6. errors \in [1..MaxOpens -> Nat] /\ opens + 1 \in 1..MaxOpens
    BY <1>0, <1>1 DEF CreateInv
<1>7. MayCreate(opens + 1)
    BY <1>5, <1>6 DEF MayCreate
<1>9. DuplicatesOnlyAfterError'
    <2> SUFFICES ASSUME NEW n \in 1..(opens + 1) PROVE Cardinality(CreatedBy(n)) <= 1 + errors[n]
        BY <1>1 DEF DuplicatesOnlyAfterError, CreatedBy
    <2>1. CASE n = opens + 1
        BY <1>5, <1>6, <2>1
    <2>2. CASE n \in 1..opens
        BY <2>2 DEF CreateInv, DuplicatesOnlyAfterError, CreatedBy
    <2> QED BY <1>0, <2>1, <2>2
<1>10. \A r \in rollouts' : r.inst \in 0..opens'
    BY <1>0, <1>1 DEF CreateInv
<1>11. \A i \in Reqs :
         req[i] # None /\ req[i].inst # 0 /\ req[i].phase \in {"sent", "read"} => MayCreate(req[i].inst)
    BY DEF CreateInv
<1>12. \A u \in Tabs : modal'[u] # None /\ ~modal'[u].submitting => MayCreate(modal'[u].inst)
    BY <1>2, <1>3, <1>7 DEF CreateInv
<1>13. opens' <= MaxOpens
    BY <1>0, <1>1
<1> QED BY <1>1, <1>6, <1>9, <1>10, <1>11, <1>12, <1>13 DEF CreateInv, MayCreate, CreatedBy

\* A request becomes a rollout: it was the only one of its dialog.
LEMMA CreateCommit ==
    ASSUME Inv, CreateInv, NEW i \in Reqs, commitRollout(i)
    PROVE  CreateInv'
<1> DEFINE n == req[i].inst
           x == [req |-> i, inst |-> req[i].inst, stages |-> req[i].stages, tasks |-> req[i].tasks]
<1>0. /\ req[i] # None /\ req[i].phase = "read" /\ req[i] \in Requests /\ GoodRequest(req[i], typeVer)
      /\ opens \in Nat /\ MaxOpens \in Nat /\ req \in [Reqs -> Requests \union {None}]
    BY DialogsAssumption DEF DialogsAssumption, commitRollout, Inv, ReqInv, SubmitInv, Numbered
<1>1. /\ rollouts' = rollouts \union {x} /\ errors' = errors /\ opens' = opens /\ modal' = modal
      /\ req' = [req EXCEPT ![i] = Phased(req[i], "ok")]
    BY DEF commitRollout, ServerKeeps, tabVars, ghostVars, Reply
<1>2. x.inst = n
    OBVIOUS
<1> HIDE DEF x
<1>3. n # 0 /\ n \in 1..opens /\ n \in 1..MaxOpens
    <2>1. n # 0
        BY <1>0 DEF GoodRequest
    <2>2. n \in 0..opens
        BY <1>0 DEF Inv, SubmitInv, Numbered
    <2>3. opens <= MaxOpens
        BY DEF CreateInv
    <2> QED BY <1>0, <2>1, <2>2, <2>3
<1>4. MayCreate(n) /\ errors[n] \in Nat
    BY <1>0, <1>3 DEF CreateInv
<1>5. /\ \A k : k # n => CreatedBy(k)' = CreatedBy(k)
      /\ {r \in rollouts' : r.inst = n} = CreatedBy(n) \union {x}
    BY <1>1, <1>2 DEF CreatedBy
<1>6. Cardinality({r \in rollouts' : r.inst = n}) <= 1 + errors[n]
    <2>1. IsFiniteSet(CreatedBy(n)) /\ Cardinality(CreatedBy(n)) \in Nat
        BY CreatedFinite
    <2>2. /\ x \in CreatedBy(n) => Cardinality(CreatedBy(n) \union {x}) = Cardinality(CreatedBy(n))
          /\ x \notin CreatedBy(n) => Cardinality(CreatedBy(n) \union {x}) = Cardinality(CreatedBy(n)) + 1
        BY <2>1, FS_AddElement
    <2>3. Cardinality(CreatedBy(n)) <= errors[n]
        BY <1>4 DEF MayCreate
    <2>4. Cardinality(CreatedBy(n) \union {x}) \in Nat
        BY <2>1, FS_AddElement, FS_CardinalityType
    <2> DEFINE c == Cardinality(CreatedBy(n))
               d == Cardinality(CreatedBy(n) \union {x})
               e == errors[n]
    <2>5. c \in Nat /\ d \in Nat /\ e \in Nat /\ c <= e /\ (d = c \/ d = c + 1)
        BY <1>4, <2>1, <2>2, <2>3, <2>4
    <2> HIDE DEF c, d, e
    <2>6. d <= 1 + e
        BY <2>5
    <2> QED BY <1>5, <2>6 DEF d, e
<1>7. DuplicatesOnlyAfterError'
    <2> SUFFICES ASSUME NEW k \in 1..opens PROVE Cardinality({r \in rollouts' : r.inst = k}) <= 1 + errors[k]
        BY <1>1 DEF DuplicatesOnlyAfterError
    <2>1. CASE k = n
        BY <1>6, <2>1
    <2>2. CASE k # n
        BY <1>5, <2>2 DEF CreateInv, DuplicatesOnlyAfterError, CreatedBy
    <2> QED BY <2>1, <2>2
<1>9. Phased(req[i], "ok").phase = "ok"
    BY <1>0, PhasedFacts
<1>10. ASSUME NEW j \in Reqs, req'[j] # None, req'[j].inst # 0, req'[j].phase \in {"sent", "read"}
       PROVE  Cardinality({r \in rollouts' : r.inst = req'[j].inst}) <= errors[req'[j].inst]
    <2>1. j # i
        BY <1>0, <1>1, <1>9, <1>10
    <2>2. req'[j] = req[j]
        BY <1>0, <1>1, <2>1
    <2>3. req[j].inst # n
        BY <1>0, <1>3, <1>10, <2>1, <2>2 DEF Inv, SubmitInv, OneEach
    <2>4. MayCreate(req[j].inst)
        BY <1>10, <2>2 DEF CreateInv
    <2>5. {r \in rollouts' : r.inst = req[j].inst} = {r \in rollouts : r.inst = req[j].inst}
        BY <1>1, <1>2, <2>3
    <2> QED BY <2>2, <2>4, <2>5 DEF MayCreate, CreatedBy
<1>11. ASSUME NEW t \in Tabs, modal[t] # None, ~modal[t].submitting
       PROVE  modal[t].inst # n
    <2>1. Awaited(req[i])
        BY <1>0, <1>3 DEF Inv, SubmitInv, Tracked
    <2>2. CASE n \in abandoned
        BY <1>11, <2>2 DEF Inv, SubmitInv, Numbered
    <2>3. CASE modal[req[i].tab] # None /\ modal[req[i].tab].inst = n /\ modal[req[i].tab].submitting
        <3>1. req[i].tab \in Tabs
            BY <1>0, RequestFields
        <3> QED BY <1>11, <2>3, <3>1 DEF Inv, SubmitInv, Numbered
    <2> QED BY <2>1, <2>2, <2>3 DEF Awaited
<1>12. \A t \in Tabs : modal[t] # None /\ ~modal[t].submitting =>
          Cardinality({r \in rollouts' : r.inst = modal[t].inst}) <= errors[modal[t].inst]
    <2> TAKE t \in Tabs
    <2> HAVE modal[t] # None /\ ~modal[t].submitting
    <2>1. MayCreate(modal[t].inst)
        BY DEF CreateInv
    <2>2. {r \in rollouts' : r.inst = modal[t].inst} = {r \in rollouts : r.inst = modal[t].inst}
        BY <1>1, <1>2, <1>11
    <2> QED BY <2>1, <2>2 DEF MayCreate, CreatedBy
<1>13. IsFiniteSet(rollouts') /\ \A r \in rollouts' : r.inst \in 0..opens
    BY <1>0, <1>1, <1>2, <1>3, FS_AddElement DEF CreateInv
<1> QED BY <1>1, <1>7, <1>10, <1>12, <1>13 DEF CreateInv, MayCreate, CreatedBy

\* An error is shown: the dialog may try again.
LEMMA CreateFailed ==
    ASSUME Inv, CreateInv, NEW i \in Reqs, Failed(i), OnScreen(i)
    PROVE  CreateInv'
<1> DEFINE n == req[i].inst
           t == req[i].tab
           m == Submitting(modal[t], FALSE)
<1>0. /\ req[i] # None /\ req[i] \in Requests /\ GoodRequest(req[i], typeVer) /\ t \in Tabs
      /\ req \in [Reqs -> Requests \union {None}] /\ modal \in [Tabs -> Modals \union {None}]
      /\ modal[t] \in Modals /\ modal[t].inst = n
    BY RequestFields DEF Failed, OnScreen, Inv, ReqInv, TabInv
<1>1. /\ rollouts' = rollouts /\ errors' = [errors EXCEPT ![n] = @ + 1] /\ opens' = opens
      /\ modal' = [modal EXCEPT ![t] = m] /\ req' = [req EXCEPT ![i] = None]
    BY DEF Failed, Done, dbVars
<1>2. n \in 1..opens /\ n \in 1..MaxOpens /\ errors \in [1..MaxOpens -> Nat]
    BY <1>0, DialogsAssumption DEF DialogsAssumption, Inv, SubmitInv, Numbered, OnScreen, CreateInv
<1>3. m.inst = n
    BY <1>0, SubmittingFacts
<1> HIDE DEF m
<1>4. errors' \in [1..MaxOpens -> Nat] /\ \A k \in 1..MaxOpens : errors'[k] = IF k = n THEN errors[n] + 1 ELSE errors[k]
    BY <1>1, <1>2
<1>5. 1..opens \subseteq 1..MaxOpens
    BY DialogsAssumption DEF DialogsAssumption, CreateInv, Inv, SubmitInv, Numbered
<1>6. \A k : Cardinality(CreatedBy(k)) \in Nat
    BY CreatedFinite
<1>7. \A k \in 1..opens : Cardinality(CreatedBy(k)) <= 1 + errors[k]
    BY DEF CreateInv, DuplicatesOnlyAfterError, CreatedBy
<1>8. \A k \in 1..opens : Cardinality(CreatedBy(k)) <= 1 + errors'[k]
    BY <1>2, <1>4, <1>5, <1>6, <1>7
<1>9. ASSUME NEW k \in 1..opens, k = n \/ MayCreate(k) PROVE Cardinality(CreatedBy(k)) <= errors'[k]
    BY <1>2, <1>4, <1>5, <1>6, <1>7, <1>9 DEF MayCreate
<1>10. ASSUME NEW j \in Reqs, req'[j] # None, req'[j].inst # 0, req'[j].phase \in {"sent", "read"}
       PROVE  Cardinality(CreatedBy(req'[j].inst)) <= errors'[req'[j].inst]
    <2>1. req'[j] = req[j]
        BY <1>0, <1>1, <1>10
    <2>2. MayCreate(req[j].inst)
        BY <1>10, <2>1 DEF CreateInv
    <2>3. req[j].inst \in 1..opens
        <3>1. req[j].inst \in 0..opens /\ opens \in Nat
            BY <1>10, <2>1 DEF Inv, SubmitInv, Numbered
        <3> QED BY <1>10, <2>1, <3>1
    <2> QED BY <1>9, <2>1, <2>2, <2>3
<1>11. ASSUME NEW u \in Tabs, modal'[u] # None, ~modal'[u].submitting
       PROVE  Cardinality(CreatedBy(modal'[u].inst)) <= errors'[modal'[u].inst]
    <2>1. CASE u = t
        BY <1>0, <1>1, <1>2, <1>3, <1>9, <2>1
    <2>2. CASE u # t
        <3>1. modal'[u] = modal[u]
            BY <1>0, <1>1, <2>2
        <3>2. MayCreate(modal[u].inst) /\ modal[u].inst \in 1..opens
            BY <1>11, <3>1 DEF CreateInv, Inv, SubmitInv, Numbered
        <3> QED BY <1>9, <3>1, <3>2
    <2> QED BY <2>1, <2>2
<1> QED BY <1>1, <1>4, <1>8, <1>10, <1>11 DEF CreateInv, DuplicatesOnlyAfterError, MayCreate, CreatedBy


\* The dialog t is changed, or closed, and keeps its number and its button.
LEMMA CreateForm ==
    ASSUME Inv, CreateInv, NEW t \in Tabs, NEW f, modal' = [modal EXCEPT ![t] = f],
           f # None => modal[t] # None /\ f.inst = modal[t].inst /\ f.submitting = modal[t].submitting,
           rollouts' = rollouts, errors' = errors, opens' = opens,
           \A i \in Reqs : req'[i] = req[i] \/ req'[i] = None
    PROVE  CreateInv'
<1>1. \A u \in Tabs : modal'[u] = IF u = t THEN f ELSE modal[u]
    BY DEF Inv, TabInv
<1> QED BY <1>1, CreateKept

LEMMA CreateEdits ==
    ASSUME Inv, CreateInv, NEW t \in Tabs,
           \/ ListsArrive(t) \/ typeTitle(t) \/ selectAll(t)
           \/ \E b \in BOOLEAN : setTimes(t, b) \/ setStart(t, b)
           \/ \E p \in Products : toggleProduct(t, p)
    PROVE  CreateInv'
<1>0. open[t] # "none"
    BY DEF ListsArrive, typeTitle, selectAll, setTimes, setStart, toggleProduct
<1>1. modal[t] \in Modals /\ modal[t] # None
    BY <1>0 DEF Inv, TabInv
<1> DEFINE m == modal[t]
<1>2. ASSUME NEW f, SetForm(t, f), f.inst = m.inst, f.submitting = m.submitting
      PROVE  CreateInv'
    <2>1. /\ modal' = [modal EXCEPT ![t] = f] /\ rollouts' = rollouts /\ errors' = errors
          /\ opens' = opens /\ req' = req
        BY <1>2 DEF SetForm, dbVars, ghostVars
    <2> QED BY <1>1, <1>2, <2>1, CreateForm
<1>3. \A v : LET f == [m EXCEPT !.typeSeen = v] IN f.inst = m.inst /\ f.submitting = m.submitting
    BY <1>1 DEF Modals
<1>4. \A v : LET f == [m EXCEPT !.title = v] IN f.inst = m.inst /\ f.submitting = m.submitting
    BY <1>1 DEF Modals
<1>5. \A v : LET f == [m EXCEPT !.lock.endsAfter = v] IN f.inst = m.inst /\ f.submitting = m.submitting
    BY <1>1 DEF Modals
<1>6. \A v : LET f == [m EXCEPT !.lock.products = v] IN f.inst = m.inst /\ f.submitting = m.submitting
    BY <1>1 DEF Modals
<1>7. CASE ListsArrive(t)
    BY <1>2, <1>3, <1>7 DEF ListsArrive
<1>8. CASE typeTitle(t)
    BY <1>2, <1>4, <1>8 DEF typeTitle
<1>9. CASE \E b \in BOOLEAN : setTimes(t, b)
    BY <1>2, <1>5, <1>9 DEF setTimes
<1>12. \A v : LET f == [m EXCEPT !.start = v] IN f.inst = m.inst /\ f.submitting = m.submitting
    BY <1>1 DEF Modals
<1>13. CASE \E b \in BOOLEAN : setStart(t, b)
    BY <1>2, <1>12, <1>13 DEF setStart
<1>10. CASE selectAll(t)
    BY <1>2, <1>6, <1>10 DEF selectAll
<1>11. CASE \E p \in Products : toggleProduct(t, p)
    <2>1. PICK ps : SetForm(t, [m EXCEPT !.lock.products = ps])
        BY <1>11 DEF toggleProduct
    <2> QED BY <1>2, <1>6, <2>1
<1> QED BY <1>7, <1>8, <1>9, <1>10, <1>11, <1>13

\* A request is sent by a dialog that may create, or by the locks page.
LEMMA CreateSend ==
    ASSUME Inv, CreateInv, NEW t \in Tabs, NEW i \in Reqs, submit(t, i) \/ confirmRemove(t, i)
    PROVE  CreateInv'
<1>1. CASE submit(t, i)
    <2> DEFINE m == Submitting(modal[t], TRUE)
               r == Request(t, modal[t])
    <2>1. modal[t] \in Modals /\ modal[t] # None /\ ~modal[t].submitting
        BY <1>1 DEF Inv, TabInv, submit, canSubmit
    <2>2. /\ req' = [req EXCEPT ![i] = r] /\ modal' = [modal EXCEPT ![t] = m]
          /\ rollouts' = rollouts /\ errors' = errors /\ opens' = opens
        BY <1>1 DEF submit, dbVars, ghostVars
    <2>3. m.submitting = TRUE /\ r.inst = modal[t].inst
        BY <2>1, SubmittingFacts DEF Request
    <2> HIDE DEF m, r
    <2>4. /\ \A u \in Tabs : modal'[u] = IF u = t THEN m ELSE modal[u]
          /\ \A j \in Reqs : req'[j] = IF j = i THEN r ELSE req[j]
        BY <2>2 DEF Inv, TabInv, ReqInv
    <2>5. \A u \in Tabs : modal'[u] # None /\ ~modal'[u].submitting =>
              modal[u] # None /\ ~modal[u].submitting /\ modal[u].inst = modal'[u].inst
        BY <2>3, <2>4
    <2>6. \A j \in Reqs : req'[j] # None /\ req'[j].inst # 0 /\ req'[j].phase \in {"sent", "read"} =>
              \/ req[j] # None /\ req[j].inst = req'[j].inst /\ req[j].phase \in {"sent", "read"}
              \/ \E u \in Tabs : modal[u] # None /\ ~modal[u].submitting /\ modal[u].inst = req'[j].inst
        BY <2>1, <2>3, <2>4
    <2> QED BY <2>2, <2>5, <2>6, CreateKept
<1>2. CASE confirmRemove(t, i)
    <2> DEFINE r == RemoveRequest(t, confirmingId[t])
    <2>1. /\ req' = [req EXCEPT ![i] = r] /\ modal' = modal
          /\ rollouts' = rollouts /\ errors' = errors /\ opens' = opens
        BY <1>2 DEF confirmRemove, tabVars, dbVars, ghostVars
    <2>2. r.inst = 0
        BY DEF RemoveRequest
    <2> HIDE DEF r
    <2>3. \A j \in Reqs : req'[j] = IF j = i THEN r ELSE req[j]
        BY <2>1 DEF Inv, ReqInv
    <2> QED BY <2>1, <2>2, <2>3, CreateKept
<1> QED BY <1>1, <1>2

\* The server answers, or reads the type, or the request fails.
LEMMA CreateServe ==
    ASSUME Inv, CreateInv, NEW i \in Reqs, Serve(i) \/ Fail(i), ~commitRollout(i)
    PROVE  CreateInv'
<1>0. req[i] # None
    BY DEF Serve, Fail, refuseLock, updateLock, deleteLock, lockNotFound, createLock, readType,
           commitRollout, Incoming
<1>1. req[i] \in Requests /\ typeVer \in Nat /\ req \in [Reqs -> Requests \union {None}]
    BY <1>0 DEF Inv, ReqInv, RolloutInv
<1>2. modal' = modal /\ rollouts' = rollouts /\ errors' = errors /\ opens' = opens
    BY DEF Serve, Fail, refuseLock, updateLock, deleteLock, lockNotFound, createLock, readType,
           ServerKeeps, tabVars, ghostVars, dbVars
<1>3. CASE Reply(i, "ok") \/ Reply(i, "error")
    <2>1. PICK phase \in {"ok", "error"} : req' = [req EXCEPT ![i] = Phased(req[i], phase)]
        BY <1>3 DEF Reply
    <2> DEFINE r == Phased(req[i], phase)
    <2>2. r.phase = phase
        BY <1>1, PhasedFacts
    <2> HIDE DEF r
    <2>3. \A j \in Reqs : req'[j] = IF j = i THEN r ELSE req[j]
        BY <1>1, <2>1 DEF r
    <2> QED BY <1>2, <2>2, <2>3, CreateKept
<1>4. CASE readType(i)
    <2> DEFINE r == WithTasks(req[i], typeVer)
    <2>1. req' = [req EXCEPT ![i] = r] /\ req[i].phase = "sent"
        BY <1>4 DEF readType, Incoming
    <2>2. r.inst = req[i].inst
        BY <1>1, WithTasksFacts
    <2> HIDE DEF r
    <2>3. \A j \in Reqs : req'[j] = IF j = i THEN r ELSE req[j]
        BY <1>1, <2>1
    <2> QED BY <1>0, <1>2, <2>1, <2>2, <2>3, CreateKept
<1>5. Reply(i, "ok") \/ Reply(i, "error") \/ readType(i)
    BY DEF Serve, Fail, refuseLock, updateLock, deleteLock, lockNotFound, createLock
<1> QED BY <1>3, <1>4, <1>5

LEMMA CreateAnswer ==
    ASSUME Inv, CreateInv, NEW i \in Reqs, Answer(i)
    PROVE  CreateInv'
<1>0. req[i] # None /\ req \in [Reqs -> Requests \union {None}]
    BY DEF Answer, Succeeded, Failed, Removed, Inv, ReqInv
<1>1. req[i].tab \in Tabs
    BY <1>0, RequestFields
<1>2. req' = [req EXCEPT ![i] = None] /\ rollouts' = rollouts /\ opens' = opens
    BY DEF Answer, Succeeded, Failed, Removed, Done, dbVars, ghostVars
<1>3. \A j \in Reqs : req'[j] = req[j] \/ req'[j] = None
    BY <1>0, <1>2
<1>4. CASE Succeeded(i)
    <2>1. modal' = [modal EXCEPT ![req[i].tab] = None] /\ errors' = errors
        BY <1>4 DEF Succeeded, CloseStore
    <2> QED BY <1>1, <1>2, <1>3, <2>1, CreateForm
<1>5. CASE Removed(i) \/ (Failed(i) /\ ~OnScreen(i))
    <2>1. modal' = modal /\ errors' = errors
        BY <1>5 DEF Removed, Failed, tabVars, ghostVars
    <2> QED BY <1>2, <1>3, <2>1, CreateKept
<1> QED BY <1>4, <1>5, CreateFailed DEF Answer

LEMMA CreateStep == Inv /\ CreateInv /\ [Next]_vars => CreateInv'
<1> SUFFICES ASSUME Inv, CreateInv, [Next]_vars PROVE CreateInv'
    OBVIOUS
<1>1. ASSUME NEW t \in Tabs, User(t) \/ ListsArrive(t) \/ RefetchAnswered(t) \/ RefetchFails(t)
      PROVE  CreateInv'
    <2>1. CASE onCreateRollout(t) \/ onCreateLock(t) \/ edit(t)
        BY <2>1, CreateOpen DEF onCreateRollout, onCreateLock, edit, openRollout, openLock
    <2>2. CASE close(t)
        <3>1. /\ modal' = [modal EXCEPT ![t] = None] /\ rollouts' = rollouts /\ errors' = errors
              /\ opens' = opens /\ req' = req
            BY <2>2 DEF close, CloseStore, dbVars
        <3> QED BY <3>1, CreateForm
    <2>3. CASE \/ ListsArrive(t) \/ typeTitle(t) \/ selectAll(t)
               \/ \E b \in BOOLEAN : setTimes(t, b) \/ setStart(t, b)
               \/ \E p \in Products : toggleProduct(t, p)
        BY <2>3, CreateEdits
    <2>4. CASE \E i \in Reqs : submit(t, i) \/ confirmRemove(t, i)
        BY <2>4, CreateSend
    <2>5. CASE \/ Visit(t) \/ Leave(t) \/ CancelRemove(t) \/ RefetchAnswered(t) \/ RefetchFails(t)
               \/ \E l \in LockIds : AskRemove(t, l)
        <3>1. modal' = modal /\ rollouts' = rollouts /\ errors' = errors /\ opens' = opens /\ req' = req
            BY <2>5 DEF Visit, Leave, CancelRemove, RefetchAnswered, RefetchFails, Refetch, AskRemove,
                        tabVars, dbVars, ghostVars
        <3> QED BY <3>1, CreateKept
    <2>6. CASE submitThrows(t)
        <3> DEFINE m == Submitting(modal[t], TRUE)
        <3>1. modal[t] \in Modals /\ modal[t] # None
            BY <2>6 DEF Inv, TabInv, submitThrows
        <3>2. /\ modal' = [modal EXCEPT ![t] = m] /\ rollouts' = rollouts /\ errors' = errors
              /\ opens' = opens /\ req' = req
            BY <2>6 DEF submitThrows, dbVars
        <3>3. m.submitting = TRUE
            BY <3>1, SubmittingFacts
        <3> HIDE DEF m
        <3>4. \A u \in Tabs : modal'[u] = IF u = t THEN m ELSE modal[u]
            BY <3>2 DEF Inv, TabInv
        <3> QED BY <3>2, <3>3, <3>4, CreateKept
    <2> QED BY <1>1, <2>1, <2>2, <2>3, <2>4, <2>5, <2>6 DEF User
<1>2. ASSUME NEW i \in Reqs, Serve(i) \/ Fail(i)
      PROVE  CreateInv'
    BY <1>2, CreateServe, CreateCommit
<1>3. CASE saveType \/ UNCHANGED vars
    <2>1. modal' = modal /\ rollouts' = rollouts /\ errors' = errors /\ opens' = opens /\ req' = req
        BY <1>3 DEF saveType, vars, tabVars, ghostVars
    <2> QED BY <2>1, CreateKept
<1> QED BY <1>1, <1>2, <1>3, CreateAnswer DEF Next

LEMMA CreateInit == Init => CreateInv
<1> SUFFICES ASSUME Init PROVE CreateInv
    OBVIOUS
<1>1. /\ opens = 0 /\ rollouts = {} /\ errors = [n \in 1..MaxOpens |-> 0]
      /\ \A t \in Tabs : modal[t] = None
      /\ \A i \in Reqs : req[i] = None
    BY DEF Init
<1>2. MaxOpens \in Nat
    BY DialogsAssumption DEF DialogsAssumption
<1>3. opens <= MaxOpens /\ errors \in [1..MaxOpens -> Nat]
    BY <1>1, <1>2
<1>4. DuplicatesOnlyAfterError
    BY <1>1 DEF DuplicatesOnlyAfterError
<1>5. IsFiniteSet(rollouts)
    BY <1>1, FS_EmptySet
<1> QED BY <1>1, <1>3, <1>4, <1>5 DEF CreateInv

\* A dialog stores at most one rollout more than the errors it has shown, for any number
\* of tabs and dialogs, however requests and answers interleave and whichever of them
\* fail: the disabled button of a submitting dialog is all that prevents a second
\* request, and only the error of its own request enables it again (submit, canSubmit,
\* CreateRollout).
THEOREM DuplicatesNeedErrors == Spec => []DuplicatesOnlyAfterError
<1>1. Spec => []CreateInv
    BY Invariance, CreateInit, CreateStep, PTL DEF Spec
<1>2. CreateInv => DuplicatesOnlyAfterError
    BY DEF CreateInv
<1> QED BY <1>1, <1>2, PTL
=============================================================================
