------------------------ MODULE RolloutEditingProofs ------------------------
(***************************************************************************)
(* The rollout editor is type correct; saves, deletes and task updates of  *)
(* one rollout never wait for ever for each other's rows; a deleted        *)
(* rollout stays deleted; a quiet tab shows what is stored; and a          *)
(* completion is credited to who made it: for any number of tabs, tasks    *)
(* and requests.                                                           *)
(***************************************************************************)
EXTENDS RolloutEditing, SequenceTheorems, TLAPS

-----------------------------------------------------------------------------
(* The operators the model is built from *)

LEMMA ReplacedType ==
    ASSUME NEW S, NEW s \in Seq(S), NEW i \in DOMAIN s, NEW e \in S
    PROVE  [s EXCEPT ![i] = e] \in Seq(S)
<1>1. i \in 1..Len(s)
    BY LenProperties
<1> QED BY <1>1, ExceptSeq

LEMMA SwappedType ==
    ASSUME NEW S, NEW s \in Seq(S), NEW i \in DOMAIN s, i + 1 \in DOMAIN s
    PROVE  Swapped(s, i) \in Seq(S)
<1>1. DOMAIN s = 1..Len(s) /\ Len(s) \in Nat
    BY LenProperties
<1>2. s[i] \in S /\ s[i + 1] \in S
    BY <1>1, ElementOfSeq
<1>3. [s EXCEPT ![i] = s[i + 1]] \in Seq(S) /\ Len([s EXCEPT ![i] = s[i + 1]]) = Len(s)
    BY <1>1, <1>2, ExceptSeq
<1>4. [[s EXCEPT ![i] = s[i + 1]] EXCEPT ![i + 1] = s[i]] \in Seq(S)
    BY <1>1, <1>2, <1>3, ExceptSeq
<1> QED BY <1>4 DEF Swapped

LEMMA RemoveAtType ==
    ASSUME NEW S, NEW s \in Seq(S), NEW i \in DOMAIN s
    PROVE  RemoveAt(s, i) \in Seq(S)
<1>1. DOMAIN s = 1..Len(s) /\ Len(s) \in Nat
    BY LenProperties
<1>2. \A j \in 1..Len(s) : s[j] \in S
    BY ElementOfSeq
<1>3. SubSeq(s, 1, i - 1) \in Seq(S)
    <2>1. \A j \in 1..(i - 1) : s[j] \in S
        BY <1>1, <1>2
    <2> QED BY <1>1, <2>1, SubSeqProperties
<1>4. SubSeq(s, i + 1, Len(s)) \in Seq(S)
    <2>1. \A j \in (i + 1)..Len(s) : s[j] \in S
        BY <1>1, <1>2
    <2> QED BY <1>1, <2>1, SubSeqProperties
<1> QED BY <1>3, <1>4, ConcatProperties DEF RemoveAt

LEMMA PrefixType ==
    ASSUME NEW S, NEW s \in Seq(S), NEW n \in 0..Len(s)
    PROVE  SubSeq(s, 1, n) \in Seq(S)
<1>1. Len(s) \in Nat
    BY LenProperties
<1>2. \A j \in 1..n : s[j] \in S
    BY <1>1, ElementOfSeq
<1> QED BY <1>1, <1>2, SubSeqProperties

LEMMA WithTasksType ==
    ASSUME NEW r \in Rollout, NEW s \in Seq(Task)
    PROVE  WithTasks(r, s) \in Rollout
BY DEF WithTasks, Rollout

LEMMA NewTaskType ==
    ASSUME NEW n \in 1..(InitTasks + MaxEdits)
    PROVE  NewTask(n) \in Task
BY DEF NewTask, Task, Statuses

LEMMA MarkedByType ==
    ASSUME NEW r \in Rollout, NEW i \in DOMAIN r.tasks, NEW status \in Statuses,
           NEW t \in Tabs
    PROVE  MarkedBy(r, i, status, t) \in Rollout
<1>1. r.tasks \in Seq(Task)
    BY DEF Rollout
<1>2. DOMAIN r.tasks = 1..Len(r.tasks)
    BY <1>1, LenProperties
<1>3. r.tasks[i] \in Task
    BY <1>1, <1>2, ElementOfSeq
<1> DEFINE e == [id |-> r.tasks[i].id, status |-> status,
                 by |-> IF status = "" THEN None ELSE t]
<1>4. e \in Task
    BY <1>3 DEF Task
<1> HIDE DEF e
<1>5. [r.tasks EXCEPT ![i] = e] \in Seq(Task)
    BY <1>1, <1>4, ReplacedType
<1>6. WithTasks(r, [r.tasks EXCEPT ![i] = e]) \in Rollout
    BY <1>5, WithTasksType
<1> QED BY <1>6 DEF MarkedBy, e

LEMMA HeadPairType ==
    ASSUME NEW r \in Rollout, NEW n \in 0..(MaxEdits + 1)
    PROVE  [r EXCEPT !.head = n] \in Rollout /\ [r EXCEPT !.pair = n] \in Rollout
BY DEF Rollout

LEMMA TaskAt ==
    ASSUME NEW r \in Rollout, NEW i \in DOMAIN r.tasks
    PROVE  /\ i \in Nat \ {0}
           /\ r.tasks[i] \in Task
           /\ r.tasks[i].id \in Nat \ {0}
           /\ r.tasks[i].status \in Statuses
<1>1. r.tasks \in Seq(Task)
    BY DEF Rollout
<1>2. DOMAIN r.tasks = 1..Len(r.tasks) /\ Len(r.tasks) \in Nat
    BY <1>1, LenProperties
<1>3. r.tasks[i] \in Task
    BY <1>1, <1>2, ElementOfSeq
<1> QED BY <1>2, <1>3, EditingAssumption DEF Task, EditingAssumption

-----------------------------------------------------------------------------
(* Type correctness, one group of variables at a time *)

USE DEF Fault, Goto

LEMMA InitType == Init => TypeOK
<1> SUFFICES ASSUME Init PROVE TypeOK
    OBVIOUS
<1>1. [i \in 1..InitTasks |-> NewTask(i)] \in Seq(Task)
    <2>1. \A i \in 1..InitTasks : NewTask(i) \in Task
        BY EditingAssumption, NewTaskType DEF EditingAssumption
    <2>2. InitTasks \in Nat
        BY EditingAssumption DEF EditingAssumption
    <2>3. [i \in 1..InitTasks |-> NewTask(i)] \in [1..InitTasks -> Task]
        BY <2>1
    <2> QED BY <2>2, <2>3, SeqDef
<1>2. db \in Rollout
    BY <1>1, EditingAssumption DEF Init, Rollout, EditingAssumption
<1>3. Idle \in FetchState
    BY DEF Idle, FetchState
<1>4. DbTypeOK /\ ReqTypeOK
    BY <1>2, EditingAssumption DEF Init, DbTypeOK, ReqTypeOK, Labels, EditingAssumption
<1>5. ViewTypeOK
    BY <1>2, <1>3 DEF Init, ViewTypeOK
<1>6. FormTypeOK /\ faults \in 0..MaxFaults
    BY EditingAssumption DEF Init, FormTypeOK, EditingAssumption
<1>7. missed \in [Tabs -> BOOLEAN] /\ marks = {} /\ reordered \in BOOLEAN
    BY DEF Init
<1> QED BY <1>4, <1>5, <1>6, <1>7 DEF TypeOK, HistoryTypeOK

\* What a view step does to the view: only rows read from the tables.
LEMMA ViewStepViewType ==
    ASSUME TypeOK, NEW t \in Tabs, ViewStep(t)
    PROVE  ViewTypeOK'
<1> USE DEF TypeOK, ViewTypeOK
<1>0. Idle \in FetchState /\ [at |-> "head", got |-> None] \in FetchState
    BY DEF Idle, FetchState
<1>1. CASE Refetch(t)
    BY <1>0, <1>1 DEF Refetch
<1>2. CASE ReadHead(t)
    <2>1. CASE db = None
        BY <1>0, <1>2, <2>1 DEF ReadHead
    <2>2. CASE db # None
        <3> DEFINE g == [head |-> db.head, stages |-> 0, pair |-> 0, tasks |-> <<>>]
        <3>1. db \in Rollout
            BY <2>2 DEF DbTypeOK
        <3>2. <<>> \in Seq(Task)
            BY EmptySeq
        <3>3. g \in Rollout
            BY <3>1, <3>2, EditingAssumption DEF Rollout, EditingAssumption
        <3>4. [at |-> "lists", got |-> g] \in FetchState
            BY <3>3 DEF FetchState
        <3> QED BY <1>2, <2>2, <3>4 DEF ReadHead
    <2> QED BY <2>1, <2>2
<1>3. CASE ReadLists(t)
    <2>1. fetch[t].got \in Rollout /\ fetch[t].at = "lists"
        BY <1>3 DEF ReadLists, FetchState
    <2> DEFINE g == IF db = None THEN fetch[t].got
                    ELSE [head |-> fetch[t].got.head, stages |-> db.stages,
                          pair |-> db.pair, tasks |-> <<>>]
    <2>2. g \in Rollout
        BY <2>1, EmptySeq DEF DbTypeOK, Rollout
    <2>3. [at |-> "tasks", got |-> g] \in FetchState
        BY <2>2 DEF FetchState
    <2> QED BY <1>3, <2>3 DEF ReadLists
<1>4. CASE ReadTasks(t)
    <2>1. fetch[t].got \in Rollout
        BY <1>4 DEF ReadTasks, FetchState
    <2>2. db # None => db.tasks \in Seq(Task)
        BY DEF DbTypeOK, Rollout
    <2>3. db # None => WithTasks(fetch[t].got, db.tasks) \in Rollout
        BY <2>1, <2>2, WithTasksType
    <2> DEFINE g == IF db = None THEN fetch[t].got ELSE WithTasks(fetch[t].got, db.tasks)
    <2>4. g \in Rollout
        BY <2>1, <2>3
    <2>5. [at |-> "answer", got |-> g] \in FetchState
        BY <2>4 DEF FetchState
    <2> QED BY <1>4, <2>5 DEF ReadTasks
<1>5. CASE FetchFails(t)
    BY <1>0, <1>5 DEF FetchFails
<1>6. CASE ReadCut(t)
    <2>1. fetch[t].got \in Rollout /\ db.tasks \in Seq(Task)
        BY <1>6 DEF ReadCut, FetchState, DbTypeOK, Rollout
    <2>2. \A n \in 0..Len(db.tasks) : SubSeq(db.tasks, 1, n) \in Seq(Task)
        BY <2>1, PrefixType
    <2>3. \A n \in 0..Len(db.tasks) :
              WithTasks(fetch[t].got, SubSeq(db.tasks, 1, n)) \in Rollout
        BY <2>1, <2>2, WithTasksType
    <2>4. [at |-> "tasks", got |-> fetch[t].got] \in FetchState
        BY <2>1 DEF FetchState
    <2>5. \A n \in 0..(Len(db.tasks) - 1) :
              [at |-> "answer", got |-> WithTasks(fetch[t].got, SubSeq(db.tasks, 1, n))] \in FetchState
        <3>1. \A n \in 0..(Len(db.tasks) - 1) : n \in 0..Len(db.tasks)
            BY <2>1, LenProperties
        <3> QED BY <2>3, <3>1 DEF FetchState
    <2> QED BY <1>6, <2>4, <2>5 DEF ReadCut
<1>7. CASE Render(t)
    <2>1. fetch[t].got \in Rollout
        BY <1>7 DEF Render, FetchState
    <2> QED BY <1>0, <1>7, <2>1 DEF Render
<1> QED BY <1>1, <1>2, <1>3, <1>4, <1>5, <1>6, <1>7 DEF ViewStep

LEMMA ViewStepType ==
    ASSUME TypeOK, NEW t \in Tabs, ViewStep(t)
    PROVE  TypeOK'
<1>1. DbTypeOK' /\ ReqTypeOK' /\ FormTypeOK'
    <2>1. UNCHANGED <<dbVars, reqVars, formVars>>
        BY DEF ViewStep, Refetch, ReadHead, ReadLists, ReadTasks, Render, ReadCut, FetchFails
    <2> QED BY <2>1 DEF TypeOK, DbTypeOK, ReqTypeOK, FormTypeOK, dbVars, reqVars, formVars
<1>2. HistoryTypeOK'
    <2>1. UNCHANGED <<marks, reordered>>
        BY DEF ViewStep, Refetch, ReadHead, ReadLists, ReadTasks, Render, ReadCut, FetchFails, historyVars
    <2>2. missed' \in [Tabs -> BOOLEAN]
        BY DEF TypeOK, HistoryTypeOK, ViewStep, Refetch, ReadHead, ReadLists, ReadTasks, Render,
               ReadCut, FetchFails, historyVars
    <2>3. faults' = faults \/ (faults < MaxFaults /\ faults' = faults + 1)
        BY DEF ViewStep, Refetch, ReadHead, ReadLists, ReadTasks, Render, ReadCut, FetchFails
    <2>4. faults' \in 0..MaxFaults
        BY <2>3, EditingAssumption DEF TypeOK, HistoryTypeOK, EditingAssumption
    <2> QED BY <2>1, <2>2, <2>4 DEF TypeOK, HistoryTypeOK
<1> QED BY <1>1, <1>2, ViewStepViewType DEF TypeOK

\* A request sent by an idle tab.
LEMMA SendType ==
    ASSUME TypeOK, NEW t \in Tabs, pc[t] = "idle", sent < MaxRequests,
           NEW l \in {"update", "patch", "delete"}, NEW r \in Request, Send(t, l, r),
           l = "update" => r \in SaveRequest, l = "patch" => r \in TaskRequest
    PROVE  ReqTypeOK'
<1> USE DEF TypeOK, ReqTypeOK, Send
<1>1. pc' \in [Tabs -> Labels] /\ req' \in [Tabs -> Request \union {None}]
    BY DEF Labels
<1>2. sent' \in 0..MaxRequests
    BY EditingAssumption DEF EditingAssumption
<1>3. r # None
    BY EditingAssumption DEF EditingAssumption
<1>4. \A q \in Tabs : /\ pc'[q] = (IF q = t THEN l ELSE pc[q])
                      /\ req'[q] = (IF q = t THEN r ELSE req[q])
    OBVIOUS
<1> QED BY <1>1, <1>2, <1>3, <1>4

\* A task request names a position and a status, and its mark a task.
LEMMA PatchTaskType ==
    ASSUME TypeOK, NEW t \in Tabs, pc[t] = "idle", sent < MaxRequests,
           NEW i \in Nat \ {0}, NEW id \in Nat \ {0}, NEW status \in Statuses,
           PatchTask(t, i, id, status), UNCHANGED <<missed, reordered, faults>>
    PROVE  ReqTypeOK' /\ HistoryTypeOK'
<1> DEFINE r == [op |-> "task", seq |-> i, status |-> status]
<1>1. r \in TaskRequest /\ r \in Request
    BY DEF TaskRequest, Request
<1>2. Send(t, "patch", r)
    BY DEF PatchTask
<1>3. ReqTypeOK'
    <2> HIDE DEF r
    <2> QED BY <1>1, <1>2, SendType
<1>4. [id |-> id, status |-> status, by |-> t] \in [id : Nat \ {0}, status : Statuses, by : Tabs]
    OBVIOUS
<1>5. marks' \subseteq [id : Nat \ {0}, status : Statuses, by : Tabs]
    BY <1>4 DEF TypeOK, HistoryTypeOK, PatchTask
<1> QED BY <1>3, <1>5 DEF TypeOK, HistoryTypeOK

LEMMA ShownType ==
    ASSUME TypeOK, NEW t \in Tabs, Shown(t)
    PROVE  view[t] \in Rollout
BY DEF TypeOK, ViewTypeOK, Shown

\* An edit stays within its bound, which it shares with the faults.
LEMMA EditCounted ==
    ASSUME TypeOK, CountEdit
    PROVE  edits < MaxEdits /\ edits' \in 0..MaxEdits
<1>1. edits \in 0..MaxEdits /\ faults \in 0..MaxFaults
    BY DEF TypeOK, FormTypeOK, HistoryTypeOK
<1>2. edits + faults < MaxEdits /\ edits' = edits + 1
    BY DEF CountEdit
<1> QED BY <1>1, <1>2, EditingAssumption DEF EditingAssumption

\* A changed draft is a rollout again.
LEMMA ChangeDraftType ==
    ASSUME TypeOK, NEW t \in Tabs, NEW d \in Rollout, ChangeDraft(t, d)
    PROVE  TypeOK'
<1>1. edits' \in 0..MaxEdits
    BY EditCounted DEF ChangeDraft
<1>2. FormTypeOK'
    BY <1>1 DEF TypeOK, FormTypeOK, ChangeDraft
<1>3. UNCHANGED <<dbVars, reqVars, viewVars, historyVars, faults>>
    BY DEF ChangeDraft
<1> QED BY <1>2, <1>3 DEF TypeOK, DbTypeOK, ReqTypeOK, ViewTypeOK, HistoryTypeOK,
                       dbVars, reqVars, viewVars, historyVars

LEMMA DraftStepType ==
    ASSUME TypeOK, NEW t \in Tabs,
           PatchDraft(t) \/ AddDraftTask(t) \/ RemoveDraftTask(t) \/ MoveDraftTask(t)
    PROVE  TypeOK'
<1>1. draft[t] \in Rollout
    BY DEF PatchDraft, AddDraftTask, RemoveDraftTask, MoveDraftTask, TypeOK, FormTypeOK
<1>2. draft[t].tasks \in Seq(Task)
    BY <1>1 DEF Rollout
<1>3. CASE PatchDraft(t)
    <2>1. edits \in 0..MaxEdits /\ edits < MaxEdits
        BY <1>3, EditCounted DEF PatchDraft, ChangeDraft, TypeOK, FormTypeOK
    <2>2. edits + 2 \in 0..(MaxEdits + 1)
        BY <2>1, EditingAssumption DEF EditingAssumption
    <2>3. /\ [draft[t] EXCEPT !.head = edits + 2] \in Rollout
          /\ [draft[t] EXCEPT !.pair = edits + 2] \in Rollout
        BY <1>1, <2>2, HeadPairType
    <2>4. \E d \in Rollout : ChangeDraft(t, d)
        BY <1>3, <2>3 DEF PatchDraft
    <2> QED BY <2>4, ChangeDraftType
<1>4. CASE AddDraftTask(t)
    <2> DEFINE n == NewTask(InitTasks + edits + 1)
    <2>1. edits \in 0..MaxEdits /\ edits < MaxEdits
        BY <1>4, EditCounted DEF AddDraftTask, ChangeDraft, TypeOK, FormTypeOK
    <2>2. InitTasks + edits + 1 \in 1..(InitTasks + MaxEdits)
        BY <2>1, EditingAssumption DEF EditingAssumption
    <2>3. n \in Task
        BY <2>2, NewTaskType
    <2> HIDE DEF n
    <2>4. Append(draft[t].tasks, n) \in Seq(Task)
        BY <1>2, <2>3
    <2>5. WithTasks(draft[t], Append(draft[t].tasks, n)) \in Rollout
        BY <1>1, <2>4, WithTasksType
    <2>6. ChangeDraft(t, WithTasks(draft[t], Append(draft[t].tasks, n)))
        BY <1>4 DEF AddDraftTask, n
    <2> QED BY <2>5, <2>6, ChangeDraftType
<1>5. CASE RemoveDraftTask(t)
    <2>1. PICK i \in DOMAIN draft[t].tasks :
              ChangeDraft(t, WithTasks(draft[t], RemoveAt(draft[t].tasks, i)))
        BY <1>5 DEF RemoveDraftTask
    <2>2. WithTasks(draft[t], RemoveAt(draft[t].tasks, i)) \in Rollout
        BY <1>1, <1>2, RemoveAtType, WithTasksType
    <2> QED BY <2>1, <2>2, ChangeDraftType
<1>6. CASE MoveDraftTask(t)
    <2>1. PICK i \in DOMAIN draft[t].tasks :
              /\ i + 1 \in DOMAIN draft[t].tasks
              /\ ChangeDraft(t, WithTasks(draft[t], Swapped(draft[t].tasks, i)))
        BY <1>6 DEF MoveDraftTask
    <2>2. WithTasks(draft[t], Swapped(draft[t].tasks, i)) \in Rollout
        BY <1>1, <1>2, <2>1, SwappedType, WithTasksType
    <2> QED BY <2>1, <2>2, ChangeDraftType
<1> QED BY <1>3, <1>4, <1>5, <1>6

LEMMA FormStepType ==
    ASSUME TypeOK, NEW t \in Tabs,
           OpenFailForm(t) \/ CancelFail(t) \/ EnterEdit(t) \/ CancelEdit(t)
    PROVE  TypeOK'
<1>1. FormTypeOK'
    <2>1. CASE OpenFailForm(t)
        <3>1. PICK i \in DOMAIN view[t].tasks :
                  failing' = [failing EXCEPT ![t] =
                                [index |-> i, id |-> view[t].tasks[i].id]]
            BY <2>1 DEF OpenFailForm
        <3>2. view[t] \in Rollout
            BY <2>1, ShownType DEF OpenFailForm
        <3>3. i \in Nat \ {0} /\ view[t].tasks[i].id \in Nat \ {0}
            BY <3>2, TaskAt
        <3>4. [index |-> i, id |-> view[t].tasks[i].id] \in FailForm
            BY <3>3 DEF FailForm
        <3>5. edits' \in 0..MaxEdits /\ draft' = draft
            BY <2>1, EditCounted DEF OpenFailForm
        <3> QED BY <3>1, <3>4, <3>5 DEF TypeOK, FormTypeOK
    <2>2. CASE CancelFail(t)
        BY <2>2 DEF CancelFail, TypeOK, FormTypeOK
    <2>3. CASE EnterEdit(t)
        <3>1. view[t] \in Rollout
            BY <2>3, ShownType DEF EnterEdit
        <3>2. edits' \in 0..MaxEdits
            BY <2>3, EditCounted DEF EnterEdit
        <3> QED BY <2>3, <3>1, <3>2 DEF EnterEdit, TypeOK, FormTypeOK
    <2>4. CASE CancelEdit(t)
        BY <2>4 DEF CancelEdit, TypeOK, FormTypeOK
    <2> QED BY <2>1, <2>2, <2>3, <2>4
<1>2. UNCHANGED <<dbVars, reqVars, viewVars, historyVars, faults>>
    BY DEF OpenFailForm, CancelFail, EnterEdit, CancelEdit
<1> QED BY <1>1, <1>2 DEF TypeOK, DbTypeOK, ReqTypeOK, ViewTypeOK, HistoryTypeOK,
                       dbVars, reqVars, viewVars, historyVars

LEMMA SendStepType ==
    ASSUME TypeOK, NEW t \in Tabs,
           Toggle(t) \/ SaveFailure(t) \/ SaveDraft(t) \/ ConfirmDelete(t)
    PROVE  TypeOK'
<1>1. /\ pc[t] = "idle" /\ sent < MaxRequests /\ Shown(t)
      /\ UNCHANGED <<dbVars, viewVars, formVars, missed, reordered, faults>>
    BY DEF Toggle, SaveFailure, SaveDraft, ConfirmDelete, CanSend, historyVars
<1>2. view[t] \in Rollout
    BY <1>1, ShownType
<1>3. ReqTypeOK' /\ HistoryTypeOK'
    <2>1. CASE Toggle(t)
        <3>1. PICK i \in DOMAIN view[t].tasks :
                  \E new \in {"", "done"} : PatchTask(t, i, view[t].tasks[i].id, new)
            BY <2>1 DEF Toggle
        <3>2. PICK new \in {"", "done"} : PatchTask(t, i, view[t].tasks[i].id, new)
            BY <3>1
        <3>3. i \in Nat \ {0} /\ view[t].tasks[i].id \in Nat \ {0} /\ new \in Statuses
            BY <1>2, TaskAt DEF Statuses
        <3> QED BY <1>1, <3>2, <3>3, PatchTaskType
    <2>2. CASE SaveFailure(t)
        <3>1. failing[t] \in FailForm
            BY <2>2 DEF SaveFailure, TypeOK, FormTypeOK
        <3>2. failing[t].index \in Nat \ {0} /\ failing[t].id \in Nat \ {0}
            BY <3>1 DEF FailForm
        <3>3. PatchTask(t, failing[t].index, failing[t].id, "failed") /\ "failed" \in Statuses
            BY <2>2 DEF SaveFailure, Statuses
        <3> QED BY <1>1, <3>2, <3>3, PatchTaskType
    <2>3. CASE SaveDraft(t)
        <3> DEFINE r == [op |-> "save", body |-> draft[t]]
        <3>1. draft[t] \in Rollout
            BY <2>3 DEF SaveDraft, TypeOK, FormTypeOK
        <3>2. r \in SaveRequest /\ r \in Request
            BY <3>1 DEF SaveRequest, Request
        <3>3. Send(t, "update", r)
            BY <2>3 DEF SaveDraft
        <3>4. ReqTypeOK'
            <4> HIDE DEF r
            <4> QED BY <1>1, <3>2, <3>3, SendType
        <3> QED BY <2>3, <3>4 DEF SaveDraft, TypeOK, HistoryTypeOK, historyVars
    <2>4. CASE ConfirmDelete(t)
        <3> DEFINE r == [op |-> "delete"]
        <3>1. r \in Request
            BY DEF DeleteRequest, Request
        <3>2. Send(t, "delete", r)
            BY <2>4 DEF ConfirmDelete
        <3>3. ReqTypeOK'
            <4> HIDE DEF r
            <4> QED BY <1>1, <3>1, <3>2, SendType
        <3> QED BY <2>4, <3>3 DEF ConfirmDelete, TypeOK, HistoryTypeOK, historyVars
    <2> QED BY <2>1, <2>2, <2>3, <2>4
<1> QED BY <1>1, <1>3 DEF TypeOK, DbTypeOK, ViewTypeOK, FormTypeOK,
                       dbVars, viewVars, formVars

\* The handler of t goes on to a label that needs no other body.
LEMMA GotoType ==
    ASSUME TypeOK, NEW t \in Tabs, pc[t] # "idle",
           NEW l \in Labels \ {"idle"}, pc' = [pc EXCEPT ![t] = l],
           UNCHANGED <<req, sent>>,
           l \in {"update", "tables", "commit"} => pc[t] \in {"update", "tables", "commit"},
           l \in {"patch", "blocked"} => pc[t] \in {"patch", "blocked"}
    PROVE  ReqTypeOK'
<1> USE DEF TypeOK, ReqTypeOK
<1>1. pc' \in [Tabs -> Labels]
    OBVIOUS
<1>2. \A q \in Tabs : pc'[q] = (IF q = t THEN l ELSE pc[q])
    OBVIOUS
<1> QED BY <1>1, <1>2

LEMMA TxEndType ==
    ASSUME TypeOK, NEW t \in Tabs, pc[t] # "idle", NEW l \in {"reread", "error"},
           NEW m \in {"broadcast", "patch"}, UNCHANGED <<req, sent>>,
           pc' = [q \in Tabs |-> IF q = t THEN l
                                ELSE IF q \in Blocked THEN m ELSE pc[q]]
    PROVE  ReqTypeOK'
<1> USE DEF TypeOK, ReqTypeOK
<1>1. pc' \in [Tabs -> Labels]
    BY DEF Labels
<1>2. \A q \in Tabs : pc'[q] = (IF q = t THEN l
                                ELSE IF pc[q] = "blocked" THEN m ELSE pc[q])
    BY DEF Blocked
<1> QED BY <1>1, <1>2

LEMMA FaultType ==
    ASSUME TypeOK, UNCHANGED faults \/ Fault
    PROVE  faults' \in 0..MaxFaults
BY EditingAssumption DEF TypeOK, HistoryTypeOK, EditingAssumption

LEMMA ServerReqType ==
    ASSUME TypeOK, NEW t \in Tabs, ServerStep(t)
    PROVE  ReqTypeOK'
<1>1. CASE Update(t) \/ ReplaceTables(t)
    <2>1. PICK l \in {"error", "tables", "commit"} : pc' = [pc EXCEPT ![t] = l]
        BY <1>1 DEF Update, ReplaceTables
    <2>2. pc[t] \in {"update", "tables"} /\ UNCHANGED <<req, sent>>
        BY <1>1 DEF Update, ReplaceTables
    <2>3. l \in Labels \ {"idle"} /\ pc[t] # "idle"
        BY <2>2 DEF Labels
    <2> QED BY <2>1, <2>2, <2>3, GotoType
<1>2. CASE Commit(t)
    BY <1>2, TxEndType DEF Commit
<1>3. CASE Abort(t)
    BY <1>3, TxEndType DEF Abort
<1>4. CASE Reread(t) \/ Delete(t) \/ Broadcast(t)
    <2>1. PICK l \in {"error", "broadcast", "answer"} : pc' = [pc EXCEPT ![t] = l]
        BY <1>4 DEF Reread, Delete, Broadcast
    <2>2. pc[t] \in {"reread", "delete", "broadcast"} /\ UNCHANGED <<req, sent>>
        BY <1>4 DEF Reread, Delete, Broadcast
    <2>3. l \in Labels \ {"idle"} /\ pc[t] # "idle"
        BY <2>2 DEF Labels
    <2> QED BY <2>1, <2>2, <2>3, GotoType
<1>5. CASE Patch(t)
    <2>1. PICK l \in {"error", "broadcast", "blocked"} : pc' = [pc EXCEPT ![t] = l]
        BY <1>5 DEF Patch
    <2>2. pc[t] = "patch" /\ UNCHANGED <<req, sent>>
        BY <1>5 DEF Patch
    <2>3. l \in Labels \ {"idle"} /\ pc[t] # "idle"
        BY <2>2 DEF Labels
    <2> QED BY <2>1, <2>2, <2>3, GotoType
<1>6. CASE Answer(t) \/ AnswerError(t)
    <2>1. /\ pc' = [pc EXCEPT ![t] = "idle"] /\ req' = [req EXCEPT ![t] = None]
          /\ sent' = sent
        BY <1>6 DEF Answer, AnswerError
    <2>2. pc' \in [Tabs -> Labels] /\ req' \in [Tabs -> Request \union {None}]
        BY <2>1 DEF TypeOK, ReqTypeOK, Labels
    <2>3. \A q \in Tabs : /\ pc'[q] = (IF q = t THEN "idle" ELSE pc[q])
                          /\ req'[q] = (IF q = t THEN None ELSE req[q])
        BY <2>1 DEF TypeOK, ReqTypeOK
    <2> QED BY <2>1, <2>2, <2>3 DEF TypeOK, ReqTypeOK
<1> QED BY <1>1, <1>2, <1>3, <1>4, <1>5, <1>6 DEF ServerStep

\* A task update keeps the rollout a rollout.
LEMMA PatchDb ==
    ASSUME TypeOK, NEW t \in Tabs, Patch(t)
    PROVE  db' = db \/ (db \in Rollout /\ db' \in Rollout)
<1> SUFFICES ASSUME RowExists(req[t].seq), db' = MarkedBy(db, req[t].seq, req[t].status, t)
             PROVE  db \in Rollout /\ db' \in Rollout
    BY DEF Patch
<1>1. db \in Rollout /\ req[t].seq \in DOMAIN db.tasks
    BY DEF RowExists, TypeOK, DbTypeOK
<1>2. req[t].status \in Statuses
    BY DEF Patch, TypeOK, ReqTypeOK, TaskRequest
<1> QED BY <1>1, <1>2, MarkedByType

LEMMA ServerStepType ==
    ASSUME TypeOK, NEW t \in Tabs, ServerStep(t)
    PROVE  TypeOK'
<1>1. DbTypeOK'
    <2>1. CASE Update(t)
        BY <2>1 DEF Update, TypeOK, DbTypeOK
    <2>2. CASE Commit(t)
        <3>1. req[t].body \in Rollout
            BY <2>2 DEF Commit, TypeOK, ReqTypeOK, SaveRequest
        <3> QED BY <2>2, <3>1 DEF Commit, Stored, DbTypeOK
    <2>3. CASE Abort(t)
        BY <2>3 DEF Abort, TypeOK, DbTypeOK
    <2>4. CASE Patch(t)
        BY <2>4, PatchDb DEF Patch, TypeOK, DbTypeOK
    <2>5. CASE Delete(t)
        BY <2>5 DEF Delete, TypeOK, DbTypeOK
    <2>6. CASE ReplaceTables(t) \/ Reread(t) \/ Broadcast(t) \/ Answer(t) \/ AnswerError(t)
        BY <2>6 DEF ReplaceTables, Reread, Broadcast, Answer, AnswerError, dbVars,
                    TypeOK, DbTypeOK
    <2> QED BY <2>1, <2>2, <2>3, <2>4, <2>5, <2>6 DEF ServerStep
<1>2. ViewTypeOK' /\ FormTypeOK'
    <2>1. CASE Answer(t)
        <3>1. Idle \in FetchState
            BY DEF Idle, FetchState
        <3>2. /\ view' \in [Tabs -> Rollout \union {None, Away}]
              /\ fetch' \in [Tabs -> FetchState]
            BY <2>1, <3>1 DEF Answer, TypeOK, ViewTypeOK
        <3>3. tick' \in [Tabs -> BOOLEAN]
            BY <2>1 DEF Answer, TypeOK, ViewTypeOK
        <3>4. FormTypeOK'
            BY <2>1 DEF Answer, TypeOK, FormTypeOK
        <3> QED BY <3>2, <3>3, <3>4 DEF ViewTypeOK
    <2>2. CASE Broadcast(t)
        BY <2>2 DEF Broadcast, TypeOK, ViewTypeOK, FormTypeOK, formVars
    <2>3. CASE ~Answer(t) /\ ~Broadcast(t)
        <3>1. UNCHANGED <<viewVars, formVars>>
            BY <2>3 DEF ServerStep, Update, ReplaceTables, Commit, Abort, Reread, Patch,
                        Delete, AnswerError
        <3> QED BY <3>1 DEF TypeOK, ViewTypeOK, FormTypeOK, viewVars, formVars
    <2> QED BY <2>1, <2>2, <2>3
<1>3. HistoryTypeOK'
    <2>1. faults' = faults \/ Fault
        BY DEF ServerStep, Update, ReplaceTables, Commit, Abort, Reread, Patch, Delete,
               Broadcast, Answer, AnswerError
    <2>2. faults' \in 0..MaxFaults
        BY <2>1, FaultType
    <2>3. /\ missed' \in [Tabs -> BOOLEAN]
          /\ UNCHANGED marks
          /\ reordered' \in BOOLEAN
        <3>1. CASE Commit(t)
            BY <3>1 DEF Commit, TypeOK, HistoryTypeOK
        <3>2. CASE Reread(t)
            BY <3>2 DEF Reread, TypeOK, HistoryTypeOK
        <3>3. CASE ~Commit(t) /\ ~Reread(t)
            <4>1. UNCHANGED historyVars
                BY <3>3 DEF ServerStep, Update, ReplaceTables, Abort, Patch, Delete,
                            Broadcast, Answer, AnswerError
            <4> QED BY <4>1 DEF historyVars, TypeOK, HistoryTypeOK
        <3> QED BY <3>1, <3>2, <3>3
    <2> QED BY <2>2, <2>3 DEF TypeOK, HistoryTypeOK
<1> QED BY <1>1, <1>2, <1>3, ServerReqType DEF TypeOK

LEMMA TypeStep == TypeOK /\ [Next]_vars => TypeOK'
<1> SUFFICES ASSUME TypeOK, [Next]_vars PROVE TypeOK'
    OBVIOUS
<1>1. CASE Next
    <2>1. PICK t \in Tabs : ViewStep(t) \/ UserStep(t) \/ ServerStep(t)
        BY <1>1 DEF Next
    <2>2. CASE UserStep(t)
        BY <2>2, FormStepType, SendStepType, DraftStepType DEF UserStep
    <2> QED BY <2>1, <2>2, ViewStepType, ServerStepType
<1>2. CASE UNCHANGED vars
    BY <1>2 DEF vars, TypeOK, DbTypeOK, ReqTypeOK, ViewTypeOK, FormTypeOK, HistoryTypeOK,
                dbVars, reqVars, viewVars, formVars, historyVars
<1> QED BY <1>1, <1>2

\* The editor is type correct: every handler finds the body it expects, a busy tab has
\* exactly one mutation, and what GETs assemble, users edit and saves store are rollouts
\* (rollout-detail, UpdateRollout, UpdateRolloutTask, hydrate).
THEOREM EditingTypeCorrect == Spec => []TypeOK
BY InitType, TypeStep, PTL DEF Spec

-----------------------------------------------------------------------------
(* Row locks and deletion *)

Holding == {"tables", "commit"}

\* The inductive invariant: the row is held by exactly the save that is writing,
\* task updates wait for it only once it has replaced the task rows, and the
\* rollout is there as long as its row is held.
LockInv ==
    /\ pc \in [Tabs -> Labels]
    /\ lock \in Tabs \union {None}
    /\ \A t \in Tabs : lock = t <=> pc[t] \in Holding
    /\ \A t \in Tabs : pc[t] = "blocked" => lock # None /\ pc[lock] = "commit"
    /\ lock # None => db # None

LEMMA LockInit == Init => LockInv
BY EditingAssumption DEF Init, LockInv, Labels, Holding, EditingAssumption

\* A step that moves a request between labels that hold nothing.
LEMMA FreeMove ==
    ASSUME LockInv, NEW t \in Tabs, pc[t] \notin Holding,
           NEW l \in Labels \ (Holding \union {"blocked"}),
           pc' = [pc EXCEPT ![t] = l], lock' = lock,
           db' = db \/ (db # None /\ db' # None)
    PROVE  LockInv'
<1>1. \A q \in Tabs : pc'[q] = (IF q = t THEN l ELSE pc[q])
    BY DEF LockInv
<1>2. pc' \in [Tabs -> Labels]
    BY DEF LockInv
<1>3. \A q \in Tabs : lock' = q <=> pc'[q] \in Holding
    BY <1>1 DEF LockInv
<1>4. \A q \in Tabs : pc'[q] = "blocked" => lock' # None /\ pc'[lock'] = "commit"
    <2> SUFFICES ASSUME NEW q \in Tabs, pc'[q] = "blocked"
                 PROVE  lock' # None /\ pc'[lock'] = "commit"
        OBVIOUS
    <2>1. pc[q] = "blocked" /\ q # t
        BY <1>1
    <2>2. lock \in Tabs /\ pc[lock] = "commit" /\ lock # None
        BY <2>1 DEF LockInv
    <2>3. lock # t
        BY <2>2 DEF Holding
    <2> QED BY <2>2, <2>3, <1>1
<1> QED BY <1>2, <1>3, <1>4 DEF LockInv

\* A step of the view or of a form.
LEMMA NoMove ==
    ASSUME LockInv, UNCHANGED <<db, lock, pc>>
    PROVE  LockInv'
BY DEF LockInv

LEMMA ViewPreserves ==
    ASSUME LockInv, NEW t \in Tabs, ViewStep(t)
    PROVE  LockInv'
<1>1. UNCHANGED <<db, lock, pc>>
    BY DEF ViewStep, Refetch, ReadHead, ReadLists, ReadTasks, Render, ReadCut, FetchFails,
           dbVars, reqVars
<1> QED BY <1>1, NoMove

\* A user who sends a request is idle before.
LEMMA UserPreserves ==
    ASSUME LockInv, NEW t \in Tabs, UserStep(t)
    PROVE  LockInv'
<1>1. CASE OpenFailForm(t) \/ CancelFail(t) \/ EnterEdit(t) \/ CancelEdit(t)
    <2>1. UNCHANGED <<db, lock, pc>>
        BY <1>1 DEF OpenFailForm, CancelFail, EnterEdit, CancelEdit, dbVars, reqVars
    <2> QED BY <2>1, NoMove
<1>2. CASE PatchDraft(t) \/ AddDraftTask(t) \/ RemoveDraftTask(t) \/ MoveDraftTask(t)
    <2>1. \E d : ChangeDraft(t, d)
        BY <1>2 DEF PatchDraft, AddDraftTask, RemoveDraftTask, MoveDraftTask
    <2>2. UNCHANGED <<db, lock, pc>>
        BY <2>1 DEF ChangeDraft, dbVars, reqVars
    <2> QED BY <2>2, NoMove
<1>3. CASE Toggle(t) \/ SaveFailure(t) \/ SaveDraft(t) \/ ConfirmDelete(t)
    <2>1. /\ pc[t] = "idle"
          /\ UNCHANGED <<db, lock>>
          /\ \E l \in {"patch", "update", "delete"} : pc' = [pc EXCEPT ![t] = l]
        BY <1>3 DEF Toggle, SaveFailure, SaveDraft, ConfirmDelete, PatchTask, Send,
                    Goto, CanSend, dbVars
    <2>2. PICK l \in {"patch", "update", "delete"} : pc' = [pc EXCEPT ![t] = l]
        BY <2>1
    <2>3. l \in Labels \ (Holding \union {"blocked"}) /\ pc[t] \notin Holding
        BY <2>1 DEF Labels, Holding
    <2> QED BY <2>1, <2>2, <2>3, FreeMove
<1> QED BY <1>1, <1>2, <1>3 DEF UserStep

\* The end of a transaction: the row is free, whoever waited goes on.
LEMMA TxEnds ==
    ASSUME LockInv, NEW t \in Tabs, pc[t] \in Holding,
           NEW l \in Labels \ (Holding \union {"blocked"}),
           NEW m \in Labels \ (Holding \union {"blocked"}),
           pc' = [q \in Tabs |-> IF q = t THEN l
                                ELSE IF q \in Blocked THEN m ELSE pc[q]],
           lock' = None
    PROVE  LockInv'
<1>1. lock = t
    BY DEF LockInv
<1>2. \A q \in Tabs : pc'[q] \in Labels \ (Holding \union {"blocked"})
    BY <1>1 DEF LockInv, Blocked
<1>3. pc' \in [Tabs -> Labels]
    BY <1>2
<1>4. \A q \in Tabs : lock' # q
    BY EditingAssumption DEF EditingAssumption
<1> QED BY <1>2, <1>3, <1>4 DEF LockInv

LEMMA UpdatePreserves ==
    ASSUME LockInv, NEW t \in Tabs, Update(t)
    PROVE  LockInv'
<1>1. CASE pc' = [pc EXCEPT ![t] = "error"] /\ UNCHANGED lock
    <2>1. pc[t] \notin Holding /\ "error" \in Labels \ (Holding \union {"blocked"})
        BY DEF Update, Holding, Labels
    <2> QED BY <1>1, <2>1, FreeMove DEF Update, Goto
<1>2. CASE pc' = [pc EXCEPT ![t] = "tables"] /\ lock = None /\ db # None /\ lock' = t
    <2>1. /\ lock = None /\ lock' = t /\ db' = db /\ pc[t] = "update"
          /\ pc' = [pc EXCEPT ![t] = "tables"]
        BY <1>2 DEF Update, Goto
    <2>2. \A q \in Tabs : pc'[q] = (IF q = t THEN "tables" ELSE pc[q])
        BY <2>1 DEF LockInv
    <2>3. \A q \in Tabs : pc[q] \notin Holding /\ pc[q] # "blocked"
        BY <2>1, EditingAssumption DEF LockInv, EditingAssumption
    <2>4. pc' \in [Tabs -> Labels]
        BY <2>1 DEF LockInv, Labels
    <2>5. \A q \in Tabs : lock' = q <=> pc'[q] \in Holding
        BY <2>1, <2>2, <2>3 DEF Holding
    <2>6. \A q \in Tabs : pc'[q] # "blocked"
        BY <2>2, <2>3
    <2> QED BY <1>2, <2>1, <2>4, <2>5, <2>6 DEF LockInv
<1> QED BY <1>1, <1>2 DEF Update, Goto

\* The holder goes from one label to the other: nobody waits for it before.
LEMMA ReplacePreserves ==
    ASSUME LockInv, NEW t \in Tabs, ReplaceTables(t)
    PROVE  LockInv'
<1>1. pc[t] = "tables" /\ pc' = [pc EXCEPT ![t] = "commit"] /\ UNCHANGED <<db, lock>>
    BY DEF ReplaceTables, Goto, dbVars
<1>2. lock = t
    BY <1>1 DEF LockInv, Holding
<1>3. \A q \in Tabs : pc'[q] = (IF q = t THEN "commit" ELSE pc[q])
    BY <1>1 DEF LockInv
<1>4. pc' \in [Tabs -> Labels]
    BY <1>1 DEF LockInv, Labels
<1>5. \A q \in Tabs : lock' = q <=> pc'[q] \in Holding
    BY <1>1, <1>2, <1>3 DEF LockInv, Holding
<1>6. \A q \in Tabs : pc'[q] = "blocked" => lock' # None /\ pc'[lock'] = "commit"
    BY <1>1, <1>2, <1>3, EditingAssumption DEF EditingAssumption
<1> QED BY <1>1, <1>4, <1>5, <1>6 DEF LockInv

LEMMA PatchPreserves ==
    ASSUME TypeOK, LockInv, NEW t \in Tabs, Patch(t)
    PROVE  LockInv'
<1>1. pc[t] = "patch" /\ lock' = lock
    BY DEF Patch
<1>2. CASE /\ \E q \in Tabs : pc[q] = "commit"
           /\ pc' = [pc EXCEPT ![t] = "blocked"] /\ db' = db
    <2>1. PICK q \in Tabs : pc[q] = "commit"
        BY <1>2
    <2>2. lock = q /\ q # t /\ lock # None
        BY <1>1, <2>1, EditingAssumption DEF LockInv, Holding, EditingAssumption
    <2>3. \A p \in Tabs : pc'[p] = (IF p = t THEN "blocked" ELSE pc[p])
        BY <1>2 DEF LockInv
    <2>4. pc' \in [Tabs -> Labels]
        BY <1>2 DEF LockInv, Labels
    <2>5. \A p \in Tabs : lock' = p <=> pc'[p] \in Holding
        BY <1>1, <2>2, <2>3 DEF LockInv, Holding
    <2>6. lock' # None /\ pc'[lock'] = "commit"
        BY <1>1, <2>1, <2>2, <2>3
    <2> QED BY <1>1, <1>2, <2>4, <2>5, <2>6 DEF LockInv
<1>3. CASE /\ \E l \in {"broadcast", "error"} : pc' = [pc EXCEPT ![t] = l]
           /\ db' = db \/ (db # None /\ db' # None)
    <2>1. PICK l \in {"broadcast", "error"} : pc' = [pc EXCEPT ![t] = l]
        BY <1>3
    <2>2. l \in Labels \ (Holding \union {"blocked"}) /\ pc[t] \notin Holding
        BY <1>1 DEF Labels, Holding
    <2> QED BY <1>1, <1>3, <2>1, <2>2, FreeMove
<1>4. db' = db \/ (db # None /\ db' # None)
    BY PatchDb, EditingAssumption DEF EditingAssumption
<1> QED BY <1>2, <1>3, <1>4 DEF Patch

\* A delete waits until the row is free.
LEMMA DeletePreserves ==
    ASSUME LockInv, NEW t \in Tabs, Delete(t)
    PROVE  LockInv'
<1>1. PICK l \in {"error", "broadcast"} : pc' = [pc EXCEPT ![t] = l]
    BY DEF Delete
<1>2. pc[t] = "delete" /\ lock' = lock /\ (lock = None \/ db' = db)
    BY DEF Delete
<1>3. l \in Labels \ (Holding \union {"blocked"}) /\ pc[t] \notin Holding
    BY <1>2 DEF Labels, Holding
<1>4. CASE db' = db
    BY <1>1, <1>2, <1>3, <1>4, FreeMove
<1>5. CASE lock = None
    <2>1. \A q \in Tabs : pc'[q] = (IF q = t THEN l ELSE pc[q])
        BY <1>1 DEF LockInv
    <2>2. pc' \in [Tabs -> Labels]
        BY <1>1, <1>3 DEF LockInv
    <2> QED BY <1>2, <1>3, <1>5, <2>1, <2>2 DEF LockInv
<1> QED BY <1>2, <1>4, <1>5

LEMMA ServerPreserves ==
    ASSUME TypeOK, LockInv, NEW t \in Tabs, ServerStep(t)
    PROVE  LockInv'
<1>1. CASE Commit(t)
    <2>1. /\ pc[t] \in Holding
          /\ "reread" \in Labels \ (Holding \union {"blocked"})
          /\ "broadcast" \in Labels \ (Holding \union {"blocked"})
        BY <1>1 DEF Commit, Labels, Holding
    <2> QED BY <1>1, <2>1, TxEnds DEF Commit
<1>2. CASE Abort(t)
    <2>1. /\ pc[t] \in Holding
          /\ "error" \in Labels \ (Holding \union {"blocked"})
          /\ "patch" \in Labels \ (Holding \union {"blocked"})
        BY <1>2 DEF Abort, Labels, Holding
    <2> QED BY <1>2, <2>1, TxEnds DEF Abort
<1>3. CASE Reread(t) \/ Broadcast(t) \/ Answer(t) \/ AnswerError(t)
    <2>1. PICK l \in {"error", "broadcast", "answer", "idle"} : pc' = [pc EXCEPT ![t] = l]
        BY <1>3 DEF Reread, Broadcast, Answer, AnswerError
    <2>2. pc[t] \in {"reread", "broadcast", "answer", "error"} /\ UNCHANGED <<db, lock>>
        BY <1>3 DEF Reread, Broadcast, Answer, AnswerError, dbVars
    <2>3. l \in Labels \ (Holding \union {"blocked"}) /\ pc[t] \notin Holding
        BY <2>2 DEF Labels, Holding
    <2> QED BY <2>1, <2>2, <2>3, FreeMove
<1> QED BY <1>1, <1>2, <1>3, UpdatePreserves, ReplacePreserves, PatchPreserves,
           DeletePreserves DEF ServerStep

LEMMA LockStep == TypeOK /\ LockInv /\ [Next]_vars => LockInv'
<1> SUFFICES ASSUME TypeOK, LockInv, [Next]_vars PROVE LockInv'
    OBVIOUS
<1>1. CASE UNCHANGED vars
    BY <1>1, NoMove DEF vars, dbVars, reqVars
<1> QED BY <1>1, ViewPreserves, UserPreserves, ServerPreserves DEF Next

LEMMA LockInvariant == Spec => []LockInv
BY LockInit, LockStep, EditingTypeCorrect, PTL DEF Spec

\* Nobody waits for rows that nobody will release: UpdateRollout's transaction ends on
\* every path, and its holder never waits for another one.
THEOREM EditingWaitsEnd == Spec => []WaitsEnd
<1>1. LockInv => WaitsEnd
    BY DEF LockInv, WaitsEnd, Blocked, Holding
<1> QED BY <1>1, LockInvariant, PTL

\* A step that stores a rollout needs one that is there.
LEMMA NoStore ==
    ASSUME TypeOK, LockInv, db = None, [Next]_vars
    PROVE  db' = None
<1>1. CASE UNCHANGED vars
    BY <1>1 DEF vars, dbVars
<1>2. CASE Next
    <2>1. PICK t \in Tabs : ViewStep(t) \/ UserStep(t) \/ ServerStep(t)
        BY <1>2 DEF Next
    <2>2. CASE ViewStep(t)
        BY <2>2 DEF ViewStep, Refetch, ReadHead, ReadLists, ReadTasks, Render, ReadCut, FetchFails, dbVars
    <2>3. CASE UserStep(t)
        BY <2>3 DEF UserStep, Toggle, OpenFailForm, CancelFail, SaveFailure, EnterEdit,
                    CancelEdit, PatchDraft, AddDraftTask, RemoveDraftTask, MoveDraftTask,
                    ChangeDraft, SaveDraft, ConfirmDelete, dbVars
    <2>4. CASE ServerStep(t)
        <3>1. ~Commit(t)
            BY EditingAssumption DEF Commit, LockInv, Holding, EditingAssumption
        <3>2. Patch(t) => db' = None
            BY DEF Patch, RowExists
        <3> QED BY <2>4, <3>1, <3>2 DEF ServerStep, Update, ReplaceTables, Abort, Reread,
                    Delete, Broadcast, Answer, AnswerError, dbVars
    <2> QED BY <2>1, <2>2, <2>3, <2>4
<1> QED BY <1>1, <1>2

\* A deleted rollout never comes back: a save that finds no row stops (RowsAffected in
\* UpdateRollout), and while a save holds the row the delete waits.
THEOREM EditingNoResurrection == Spec => NoResurrection
<1>1. TypeOK /\ LockInv /\ [Next]_vars => [db = None => db' = None]_vars
    BY NoStore
<1> QED BY <1>1, EditingTypeCorrect, LockInvariant, PTL DEF Spec, NoResurrection

-----------------------------------------------------------------------------
(* What a view shows *)

\* Some change of the stored rollout has not been broadcast yet.
Unannounced == \E q \in Tabs : pc[q] = "broadcast" \/ (pc[q] = "reread" /\ db # None)

\* What tab t shows, or has read so far, is what is stored.
Exact(t) ==
    /\ fetch[t] = Idle => view[t] = db
    /\ fetch[t].at = "lists" => db # None /\ fetch[t].got.head = db.head
    /\ fetch[t].at = "tasks" => db # None /\ WithTasks(fetch[t].got, db.tasks) = db
    /\ fetch[t].at = "answer" => fetch[t].got = db

\* The inductive invariant: a tab that no bump awaits and no fault has cut off has read
\* nothing older than the last change, unless that change is still to be broadcast.
SettledInv ==
    /\ \A t \in Tabs : view[t] = Away => fetch[t] = Idle
    /\ ~Unannounced => \A t \in Tabs :
          view[t] # Away /\ ~tick[t] /\ ~missed[t] => Exact(t)

-----------------------------------------------------------------------------
(* Who completed a task *)

\* Task rows whose status was given by a user.
Genuine == {x \in Task : x.status # "" => x \in marks}

\* The tasks of s are where they are in d.
Aligned(s, d) == \A i \in DOMAIN s : i \in DOMAIN d /\ s[i].id = d[i].id

\* A task update of t, at a position, means the task that is there.
Meant(t) ==
    /\ req[t].seq \in DOMAIN db.tasks
    /\ [id |-> db.tasks[req[t].seq].id, status |-> req[t].status, by |-> t] \in marks

FormMeant(t) ==
    /\ failing[t].index \in DOMAIN db.tasks
    /\ db.tasks[failing[t].index].id = failing[t].id

\* The inductive invariant: wherever tasks are on their way (view, draft, body), their
\* statuses are genuine; positions that a view, a form or a request uses are those of
\* the stored list, as long as saves have only appended to it.
DbAuth == db # None => db.tasks \in Seq(Genuine)
ViewAuth(t) ==
    Shown(t) => /\ view[t].tasks \in Seq(Genuine)
                /\ db # None => Aligned(view[t].tasks, db.tasks)
FetchAuth(t) ==
    /\ fetch[t].at \in {"lists", "tasks"} => fetch[t].got.tasks = <<>>
    /\ fetch[t].at = "answer" =>
          /\ fetch[t].got.tasks \in Seq(Genuine)
          /\ db # None => Aligned(fetch[t].got.tasks, db.tasks)
DraftAuth(t) == draft[t] # None => draft[t].tasks \in Seq(Genuine)
BodyAuth(t) == pc[t] \in {"update", "tables", "commit"} => req[t].body.tasks \in Seq(Genuine)
FormAuth(t) == db # None /\ failing[t] # None => FormMeant(t)
PatchAuth(t) == db # None /\ pc[t] \in {"patch", "blocked"} => Meant(t)

AuthInv ==
    ~reordered =>
        /\ DbAuth
        /\ \A t \in Tabs : /\ ViewAuth(t) /\ FetchAuth(t) /\ DraftAuth(t) /\ BodyAuth(t)
                           /\ FormAuth(t) /\ PatchAuth(t)

-----------------------------------------------------------------------------
(* Proof: what a view shows *)

LEMMA SettledInit == Init => SettledInv
BY DEF Init, SettledInv, Exact, Idle

\* A step that leaves the stored rollout and the views alone, and announces nothing.
LEMMA SettledKept ==
    ASSUME SettledInv, UNCHANGED <<db, view, fetch, tick, missed>>, Unannounced => Unannounced'
    PROVE  SettledInv'
<1>1. ASSUME NEW t \in Tabs, Exact(t) PROVE Exact(t)'
    BY <1>1 DEF Exact
<1> QED BY <1>1 DEF SettledInv

\* A change that is still to be broadcast.
LEMMA SettledPending ==
    ASSUME SettledInv, UNCHANGED <<view, fetch>>, Unannounced'
    PROVE  SettledInv'
BY DEF SettledInv

\* Requests that move between labels that announce nothing.
LEMMA QuietMove ==
    ASSUME TypeOK, SettledInv, UNCHANGED <<db, view, fetch, tick, missed>>, NEW t \in Tabs,
           pc[t] \notin {"broadcast", "reread"},
           \A q \in Tabs : q # t /\ pc[q] \in {"broadcast", "reread"} => pc'[q] = pc[q]
    PROVE  SettledInv'
<1>1. Unannounced => Unannounced'
    BY DEF Unannounced
<1> QED BY <1>1, SettledKept

LEMMA SettledUser ==
    ASSUME TypeOK, SettledInv, NEW t \in Tabs, UserStep(t)
    PROVE  SettledInv'
<1>0. pc \in [Tabs -> Labels]
    BY DEF TypeOK, ReqTypeOK
<1>1. CASE OpenFailForm(t) \/ CancelFail(t) \/ EnterEdit(t) \/ CancelEdit(t)
    <2>1. UNCHANGED <<db, pc, view, fetch, tick, missed>>
        BY <1>1 DEF OpenFailForm, CancelFail, EnterEdit, CancelEdit, dbVars, reqVars, viewVars,
                    historyVars
    <2> QED BY <2>1, SettledKept DEF Unannounced
<1>2. CASE PatchDraft(t) \/ AddDraftTask(t) \/ RemoveDraftTask(t) \/ MoveDraftTask(t)
    <2>1. \E d : ChangeDraft(t, d)
        BY <1>2 DEF PatchDraft, AddDraftTask, RemoveDraftTask, MoveDraftTask
    <2>2. UNCHANGED <<db, pc, view, fetch, tick, missed>>
        BY <2>1 DEF ChangeDraft, dbVars, reqVars, viewVars, historyVars
    <2> QED BY <2>2, SettledKept DEF Unannounced
<1>3. CASE Toggle(t) \/ SaveFailure(t) \/ SaveDraft(t) \/ ConfirmDelete(t)
    <2>1. pc[t] = "idle" /\ UNCHANGED <<db, view, fetch, tick, missed>>
        BY <1>3 DEF Toggle, SaveFailure, SaveDraft, ConfirmDelete, CanSend, dbVars, viewVars,
                    historyVars
    <2>2. \E l \in {"patch", "update", "delete"} : pc' = [pc EXCEPT ![t] = l]
        BY <1>3 DEF Toggle, SaveFailure, SaveDraft, ConfirmDelete, PatchTask, Send
    <2>3. \A q \in Tabs : q # t => pc'[q] = pc[q]
        BY <1>0, <2>2
    <2> QED BY <2>1, <2>3, QuietMove
<1> QED BY <1>1, <1>2, <1>3 DEF UserStep

LEMMA SettledView ==
    ASSUME TypeOK, SettledInv, NEW t \in Tabs, ViewStep(t)
    PROVE  SettledInv'
<1>0. /\ view \in [Tabs -> Rollout \union {None, Away}] /\ fetch \in [Tabs -> FetchState]
      /\ tick \in [Tabs -> BOOLEAN] /\ missed \in [Tabs -> BOOLEAN]
      /\ db \in Rollout \union {None}
    BY DEF TypeOK, ViewTypeOK, HistoryTypeOK, DbTypeOK
<1>1. UNCHANGED <<db, pc>>
    BY DEF ViewStep, Refetch, ReadHead, ReadLists, ReadTasks, Render, ReadCut, FetchFails, dbVars, reqVars
<1>2. Unannounced' <=> Unannounced
    BY <1>1 DEF Unannounced
<1>3. Idle.at = "idle"
    BY DEF Idle
\* The step is about one tab: what has to be shown of it.
<1>4. ASSUME \A q \in Tabs \ {t} :
                view'[q] = view[q] /\ fetch'[q] = fetch[q] /\ tick'[q] = tick[q] /\ missed'[q] = missed[q],
             view'[t] = Away => fetch'[t] = Idle,
             ~Unannounced /\ view'[t] # Away /\ ~tick'[t] /\ ~missed'[t] => Exact(t)'
      PROVE  SettledInv'
    <2>1. ASSUME NEW q \in Tabs \ {t}, Exact(q) PROVE Exact(q)'
        BY <1>1, <1>4, <2>1 DEF Exact
    <2>2. \A q \in Tabs : view'[q] = Away => fetch'[q] = Idle
        BY <1>4 DEF SettledInv
    <2>3. ASSUME ~Unannounced, NEW q \in Tabs, view'[q] # Away, ~tick'[q], ~missed'[q] PROVE Exact(q)'
        <3>1. CASE q = t
            BY <1>4, <2>3, <3>1
        <3>2. CASE q # t
            BY <1>4, <2>1, <2>3, <3>2 DEF SettledInv
        <3> QED BY <3>1, <3>2
    <2> QED BY <1>2, <2>2, <2>3 DEF SettledInv
<1>5. CASE Refetch(t)
    <2>1. /\ fetch'[t] = [at |-> "head", got |-> None] /\ view[t] # Away /\ UNCHANGED view
          /\ \A q \in Tabs \ {t} : fetch'[q] = fetch[q] /\ tick'[q] = tick[q] /\ missed'[q] = missed[q]
        BY <1>0, <1>5 DEF Refetch
    <2>2. Exact(t)'
        BY <2>1, <1>3 DEF Exact
    <2> QED BY <1>4, <2>1, <2>2
<1>6. CASE ReadHead(t)
    <2>1. fetch[t].at = "head" /\ UNCHANGED <<tick, missed>>
        BY <1>6 DEF ReadHead, historyVars
    <2>2. view[t] # Away
        BY <1>3, <2>1 DEF SettledInv
    <2>3. CASE db = None
        <3>1. /\ fetch'[t] = Idle /\ view'[t] = None
              /\ \A q \in Tabs \ {t} : fetch'[q] = fetch[q] /\ view'[q] = view[q]
            BY <1>0, <1>6, <2>3 DEF ReadHead
        <3>2. Exact(t)'
            BY <1>1, <1>3, <2>3, <3>1 DEF Exact
        <3> QED BY <1>4, <2>1, <3>1, <3>2
    <2>4. CASE db # None
        <3> DEFINE g == [head |-> db.head, stages |-> 0, pair |-> 0, tasks |-> <<>>]
        <3>1. /\ fetch'[t] = [at |-> "lists", got |-> g] /\ UNCHANGED view
              /\ \A q \in Tabs \ {t} : fetch'[q] = fetch[q]
            BY <1>0, <1>6, <2>4 DEF ReadHead
        <3>2. g.head = db.head
            OBVIOUS
        <3> HIDE DEF g
        <3>3. Exact(t)'
            BY <1>1, <1>3, <2>4, <3>1, <3>2 DEF Exact
        <3> QED BY <1>4, <2>1, <2>2, <3>1, <3>3
    <2> QED BY <2>3, <2>4
<1>7. CASE ReadLists(t)
    <2>1. fetch[t].at = "lists" /\ UNCHANGED <<tick, missed, view>>
        BY <1>7 DEF ReadLists, historyVars
    <2>2. view[t] # Away
        BY <1>3, <2>1 DEF SettledInv
    <2> DEFINE g == [head |-> fetch[t].got.head, stages |-> db.stages, pair |-> db.pair, tasks |-> <<>>]
    <2>3. /\ fetch'[t].at = "tasks" /\ (db # None => fetch'[t].got = g)
          /\ \A q \in Tabs \ {t} : fetch'[q] = fetch[q]
        BY <1>0, <1>7 DEF ReadLists
    <2>4. ASSUME db # None, fetch[t].got.head = db.head PROVE WithTasks(g, db.tasks) = db
        <3>1. db = [head |-> db.head, stages |-> db.stages, pair |-> db.pair, tasks |-> db.tasks]
            BY <1>0, <2>4 DEF Rollout
        <3>2. WithTasks(g, db.tasks) = [head |-> db.head, stages |-> db.stages, pair |-> db.pair,
                                        tasks |-> db.tasks]
            BY <2>4 DEF WithTasks
        <3> QED BY <3>1, <3>2
    <2> HIDE DEF g
    <2>5. Exact(t) => Exact(t)'
        BY <1>1, <1>3, <2>1, <2>3, <2>4 DEF Exact
    <2>6. ~Unannounced /\ ~tick[t] /\ ~missed[t] => Exact(t)
        BY <2>2 DEF SettledInv
    <2> QED BY <1>4, <2>1, <2>2, <2>3, <2>5, <2>6
<1>8. CASE ReadTasks(t)
    <2>1. fetch[t].at = "tasks" /\ UNCHANGED <<tick, missed, view>>
        BY <1>8 DEF ReadTasks, historyVars
    <2>2. view[t] # Away
        BY <1>3, <2>1 DEF SettledInv
    <2>3. /\ fetch'[t].at = "answer" /\ (db # None => fetch'[t].got = WithTasks(fetch[t].got, db.tasks))
          /\ \A q \in Tabs \ {t} : fetch'[q] = fetch[q]
        BY <1>0, <1>8 DEF ReadTasks
    <2>4. Exact(t) => Exact(t)'
        BY <1>1, <1>3, <2>1, <2>3 DEF Exact
    <2>5. ~Unannounced /\ ~tick[t] /\ ~missed[t] => Exact(t)
        BY <2>2 DEF SettledInv
    <2> QED BY <1>4, <2>1, <2>2, <2>3, <2>4, <2>5
<1>10. CASE Render(t)
    <2>1. fetch[t].at = "answer" /\ UNCHANGED <<tick, missed>>
        BY <1>10 DEF Render, historyVars
    <2>2. view[t] # Away
        BY <1>3, <2>1 DEF SettledInv
    <2>3. /\ fetch'[t] = Idle /\ view'[t] = fetch[t].got
          /\ \A q \in Tabs \ {t} : fetch'[q] = fetch[q] /\ view'[q] = view[q]
        BY <1>0, <1>10 DEF Render
    <2>4. Exact(t) => Exact(t)'
        BY <1>1, <1>3, <2>1, <2>3 DEF Exact
    <2>5. ~Unannounced /\ ~tick[t] /\ ~missed[t] => Exact(t)
        BY <2>2 DEF SettledInv
    <2> QED BY <1>4, <2>1, <2>3, <2>4, <2>5
<1>9. CASE ReadCut(t) \/ FetchFails(t)
    <2>1. /\ missed'[t] /\ fetch[t] # Idle /\ UNCHANGED tick
          /\ \A q \in Tabs \ {t} : fetch'[q] = fetch[q] /\ view'[q] = view[q] /\ missed'[q] = missed[q]
          /\ view'[t] = view[t] \/ fetch'[t] = Idle
        BY <1>0, <1>3, <1>9 DEF ReadCut, FetchFails
    <2>2. view[t] # Away
        BY <2>1 DEF SettledInv
    <2> QED BY <1>4, <2>1, <2>2
<1> QED BY <1>5, <1>6, <1>7, <1>8, <1>9, <1>10 DEF ViewStep

LEMMA SettledServer ==
    ASSUME TypeOK, LockInv, SettledInv, NEW t \in Tabs, ServerStep(t)
    PROVE  SettledInv'
<1>0. /\ pc \in [Tabs -> Labels] /\ view \in [Tabs -> Rollout \union {None, Away}]
      /\ fetch \in [Tabs -> FetchState] /\ tick \in [Tabs -> BOOLEAN]
    BY DEF TypeOK, ReqTypeOK, ViewTypeOK
<1>1. CASE Update(t) \/ ReplaceTables(t) \/ AnswerError(t)
    <2>1. UNCHANGED <<db, view, fetch, tick, missed>> /\ pc[t] \in {"update", "tables", "error"}
        BY <1>1 DEF Update, ReplaceTables, AnswerError, dbVars, viewVars, historyVars
    <2>2. \E l \in Labels : pc' = [pc EXCEPT ![t] = l]
        BY <1>1 DEF Update, ReplaceTables, AnswerError, Labels
    <2>3. \A q \in Tabs : q # t => pc'[q] = pc[q]
        BY <1>0, <2>2
    <2> QED BY <2>1, <2>3, QuietMove
<1>2. CASE Abort(t)
    <2>1. UNCHANGED <<db, view, fetch, tick, missed>> /\ pc[t] \in {"tables", "commit"}
        BY <1>2 DEF Abort, viewVars, historyVars
    <2>2. \A q \in Tabs : q # t /\ pc[q] \in {"broadcast", "reread"} => pc'[q] = pc[q]
        BY <1>0, <1>2 DEF Abort, Blocked
    <2> QED BY <2>1, <2>2, QuietMove
<1>3. CASE Commit(t)
    <2>1. pc'[t] = "reread" /\ db' = req[t].body /\ pc[t] = "commit" /\ UNCHANGED <<view, fetch>>
        BY <1>3 DEF Commit, Stored, viewVars
    <2>2. db' # None
        <3>1. req[t] \in SaveRequest
            BY <2>1 DEF TypeOK, ReqTypeOK
        <3> QED BY <2>1, <3>1, EditingAssumption DEF SaveRequest, EditingAssumption
    <2>3. Unannounced'
        BY <2>1, <2>2 DEF Unannounced
    <2> QED BY <2>1, <2>3, SettledPending
<1>4. CASE Patch(t)
    <2>1. UNCHANGED <<view, fetch, tick, missed>> /\ pc[t] = "patch"
        BY <1>4 DEF Patch, viewVars, historyVars
    <2>2. \E l \in Labels : pc' = [pc EXCEPT ![t] = l]
        BY <1>4 DEF Patch, Labels
    <2>3. db' = db \/ pc' = [pc EXCEPT ![t] = "broadcast"]
        BY <1>4 DEF Patch
    <2>4. CASE db' = db
        <3>1. \A q \in Tabs : q # t => pc'[q] = pc[q]
            BY <1>0, <2>2
        <3> QED BY <2>1, <2>4, <3>1, QuietMove
    <2>5. CASE pc' = [pc EXCEPT ![t] = "broadcast"]
        <3>1. Unannounced'
            BY <1>0, <2>5 DEF Unannounced
        <3> QED BY <2>1, <3>1, SettledPending
    <2> QED BY <2>3, <2>4, <2>5
<1>5. CASE Delete(t)
    <2>1. UNCHANGED <<view, fetch, tick, missed>> /\ pc[t] = "delete"
        BY <1>5 DEF Delete, viewVars, historyVars
    <2>2. \E l \in Labels : pc' = [pc EXCEPT ![t] = l]
        BY <1>5 DEF Delete, Labels
    <2>3. db' = db \/ pc' = [pc EXCEPT ![t] = "broadcast"]
        BY <1>5 DEF Delete
    <2>4. CASE db' = db
        <3>1. \A q \in Tabs : q # t => pc'[q] = pc[q]
            BY <1>0, <2>2
        <3> QED BY <2>1, <2>4, <3>1, QuietMove
    <2>5. CASE pc' = [pc EXCEPT ![t] = "broadcast"]
        <3>1. Unannounced'
            BY <1>0, <2>5 DEF Unannounced
        <3> QED BY <2>1, <3>1, SettledPending
    <2> QED BY <2>3, <2>4, <2>5
<1>6. CASE Reread(t)
    <2>1. UNCHANGED <<db, view, fetch, tick>> /\ pc[t] = "reread"
        BY <1>6 DEF Reread, dbVars, viewVars
    <2>2. CASE pc' = [pc EXCEPT ![t] = "broadcast"]
        <3>1. Unannounced'
            BY <1>0, <2>2 DEF Unannounced
        <3> QED BY <2>1, <3>1, SettledPending
    <2>3. CASE db = None /\ pc' = [pc EXCEPT ![t] = "error"] /\ UNCHANGED missed
        <3>1. Unannounced => Unannounced'
            BY <1>0, <2>1, <2>3 DEF Unannounced
        <3> QED BY <2>1, <2>3, <3>1, SettledKept
    <2>4. CASE missed' = [q \in Tabs |-> TRUE]
        BY <2>1, <2>4 DEF SettledInv
    <2> QED BY <1>6, <2>2, <2>3, <2>4 DEF Reread
<1>7. CASE Broadcast(t)
    <2>1. UNCHANGED <<view, fetch>> /\ \A q \in Tabs : tick'[q]
        BY <1>7 DEF Broadcast
    <2> QED BY <2>1 DEF SettledInv
<1>8. CASE Answer(t)
    <2>1. UNCHANGED <<db, missed>> /\ pc[t] = "answer"
        BY <1>8 DEF Answer, dbVars, historyVars
    <2>2. \A q \in Tabs \ {t} :
             view'[q] = view[q] /\ fetch'[q] = fetch[q] /\ tick'[q] = tick[q] /\ pc'[q] = pc[q]
        BY <1>0, <1>8 DEF Answer
    <2>3. Unannounced => Unannounced'
        BY <2>1, <2>2 DEF Unannounced
    <2>4. \/ view'[t] = view[t] /\ fetch'[t] = fetch[t] /\ tick'[t]
          \/ view'[t] = Away /\ fetch'[t] = Idle
        BY <1>0, <1>8 DEF Answer
    <2>5. ASSUME NEW q \in Tabs \ {t}, Exact(q) PROVE Exact(q)'
        BY <2>1, <2>2, <2>5 DEF Exact
    <2>6. \A q \in Tabs : view'[q] = Away => fetch'[q] = Idle
        BY <2>2, <2>4 DEF SettledInv
    <2>7. ASSUME ~Unannounced', NEW q \in Tabs, view'[q] # Away, ~tick'[q], ~missed'[q] PROVE Exact(q)'
        <3>1. q # t
            BY <2>4, <2>7
        <3> QED BY <2>1, <2>2, <2>3, <2>5, <2>7, <3>1 DEF SettledInv
    <2> QED BY <2>6, <2>7 DEF SettledInv
<1> QED BY <1>1, <1>2, <1>3, <1>4, <1>5, <1>6, <1>7, <1>8 DEF ServerStep

LEMMA SettledStep == TypeOK /\ LockInv /\ SettledInv /\ [Next]_vars => SettledInv'
<1> SUFFICES ASSUME TypeOK, LockInv, SettledInv, [Next]_vars PROVE SettledInv'
    OBVIOUS
<1>1. CASE UNCHANGED vars
    <2>1. UNCHANGED <<db, pc, view, fetch, tick, missed>>
        BY <1>1 DEF vars, dbVars, reqVars, viewVars, historyVars
    <2> QED BY <2>1, SettledKept DEF Unannounced
<1> QED BY <1>1, SettledView, SettledUser, SettledServer DEF Next

\* A tab with nothing outstanding shows the rollout as it is stored: hydrate may mix two
\* versions, but then the save that interfered is still to bump the tab.
THEOREM EditingSettledViewExact == Spec => []SettledViewExact
<1>1. SettledInv => SettledViewExact
    BY DEF SettledInv, SettledViewExact, Unannounced, Exact
<1> QED BY <1>1, SettledInit, SettledStep, EditingTypeCorrect, LockInvariant, PTL DEF Spec

-----------------------------------------------------------------------------
(* Proof: who completed a task *)

LEMMA SeqGrows ==
    ASSUME NEW S, NEW T, S \subseteq T, NEW s \in Seq(S)
    PROVE  s \in Seq(T)
<1>1. Len(s) \in Nat /\ s \in [1..Len(s) -> S]
    BY LenProperties
<1>2. s \in [1..Len(s) -> T]
    BY <1>1
<1> QED BY <1>1, <1>2, SeqDef

LEMMA GenuineGrows ==
    ASSUME marks \subseteq marks', NEW s \in Seq(Genuine)
    PROVE  s \in Seq(Genuine')
<1>1. Genuine \subseteq Genuine'
    BY DEF Genuine
<1> QED BY <1>1, SeqGrows

LEMMA AlignedTrans ==
    ASSUME NEW r, NEW s, NEW d, Aligned(r, s), Aligned(s, d)
    PROVE  Aligned(r, d)
BY DEF Aligned

LEMMA FunctionSeq ==
    ASSUME NEW S, NEW n \in Nat, NEW f \in [1..n -> S]
    PROVE  f \in Seq(S)
BY SeqDef

\* A list that the new one extends has its tasks where the new one has them.
LEMMA PrefixAligned ==
    ASSUME NEW s \in Seq(Task), NEW d \in Seq(Task), IsPrefix(IdsOf(s), IdsOf(d))
    PROVE  Aligned(s, d)
<1>1. /\ DOMAIN s = 1..Len(s) /\ Len(s) \in Nat /\ \A i \in 1..Len(s) : s[i] \in Task
      /\ DOMAIN d = 1..Len(d) /\ Len(d) \in Nat /\ \A i \in 1..Len(d) : d[i] \in Task
    BY LenProperties, ElementOfSeq
<1>2. /\ IdsOf(s) \in [1..Len(s) -> Int] /\ IdsOf(d) \in [1..Len(d) -> Int]
      /\ \A i \in 1..Len(s) : IdsOf(s)[i] = s[i].id
      /\ \A i \in 1..Len(d) : IdsOf(d)[i] = d[i].id
    BY <1>1, EditingAssumption DEF IdsOf, Task, EditingAssumption
<1> DEFINE a == IdsOf(s)
           b == IdsOf(d)
<1>3. a \in Seq(Int) /\ b \in Seq(Int)
    <2>1. Len(s) \in Nat /\ a \in [1..Len(s) -> Int] /\ Len(d) \in Nat /\ b \in [1..Len(d) -> Int]
        BY <1>1, <1>2
    <2> HIDE DEF a, b
    <2> QED BY <2>1, FunctionSeq
<1>4. Len(a) = Len(s) /\ Len(b) = Len(d)
    <2>1. DOMAIN a = 1..Len(s) /\ DOMAIN b = 1..Len(d)
        BY <1>2
    <2> HIDE DEF a, b
    <2>2. DOMAIN a = 1..Len(a) /\ DOMAIN b = 1..Len(b) /\ Len(a) \in Nat /\ Len(b) \in Nat
        BY <1>3, LenProperties
    <2> QED BY <1>1, <2>1, <2>2
<1>5. Len(a) <= Len(b) /\ SubSeq(a, 1, Len(a)) = SubSeq(b, 1, Len(a))
    BY DEF IsPrefix
<1> HIDE DEF a, b
<1>6. \A i \in 1..Len(a) : a[i] = b[i]
    BY <1>1, <1>3, <1>4, <1>5
<1>7. \A i \in 1..Len(s) : i \in 1..Len(d) /\ s[i].id = d[i].id
    BY <1>1, <1>2, <1>4, <1>5, <1>6 DEF a, b
<1> QED BY <1>1, <1>7 DEF Aligned

\* Setting a status keeps every task where it is.
LEMMA MarkedAligned ==
    ASSUME NEW r \in Rollout, NEW i \in DOMAIN r.tasks, NEW status, NEW t
    PROVE  Aligned(r.tasks, MarkedBy(r, i, status, t).tasks)
<1> DEFINE e == [id |-> r.tasks[i].id, status |-> status, by |-> IF status = "" THEN None ELSE t]
<1>1. MarkedBy(r, i, status, t).tasks = [r.tasks EXCEPT ![i] = e]
    BY DEF MarkedBy, WithTasks, Rollout
<1>2. e.id = r.tasks[i].id
    OBVIOUS
<1> HIDE DEF e
<1>3. r.tasks = [k \in DOMAIN r.tasks |-> r.tasks[k]]
    BY LenProperties DEF Rollout
<1> QED BY <1>1, <1>2, <1>3 DEF Aligned

LEMMA MarkedGenuine ==
    ASSUME NEW r \in Rollout, r.tasks \in Seq(Genuine), NEW i \in DOMAIN r.tasks,
           NEW status \in Statuses, NEW t \in Tabs,
           [id |-> r.tasks[i].id, status |-> status, by |-> t] \in marks
    PROVE  MarkedBy(r, i, status, t).tasks \in Seq(Genuine)
<1> DEFINE e == [id |-> r.tasks[i].id, status |-> status, by |-> IF status = "" THEN None ELSE t]
<1>1. MarkedBy(r, i, status, t).tasks = [r.tasks EXCEPT ![i] = e]
    BY DEF MarkedBy, WithTasks, Rollout
<1>2. r.tasks[i] \in Task
    BY TaskAt
<1>3. e \in Task
    BY <1>2 DEF Task
<1>4. e.status # "" => e \in marks
    OBVIOUS
<1>5. e \in Genuine
    BY <1>3, <1>4 DEF Genuine
<1> HIDE DEF e
<1> QED BY <1>1, <1>5, ReplacedType

LEMMA AuthInit == Init => AuthInv
<1> SUFFICES ASSUME Init PROVE AuthInv
    OBVIOUS
<1>1. InitTasks \in Nat
    BY EditingAssumption DEF EditingAssumption
<1> DEFINE s == [i \in 1..InitTasks |-> NewTask(i)]
<1>2. \A i \in 1..InitTasks : NewTask(i) \in Genuine
    <2>1. \A i \in 1..InitTasks : NewTask(i) \in Task
        BY EditingAssumption, NewTaskType DEF EditingAssumption
    <2> QED BY <2>1 DEF NewTask, Genuine
<1>3. s \in Seq(Genuine)
    <2>1. s \in [1..InitTasks -> Genuine]
        BY <1>2
    <2> QED BY <1>1, <2>1, SeqDef
<1>4. db.tasks = s
    BY DEF Init
<1> HIDE DEF s
<1>5. Aligned(db.tasks, db.tasks)
    BY DEF Aligned
<1>6. ASSUME NEW t \in Tabs
      PROVE  /\ view[t] = db /\ fetch[t].at = "idle" /\ draft[t] = None /\ failing[t] = None
             /\ pc[t] = "idle"
    BY DEF Init, Idle
<1> QED BY <1>3, <1>4, <1>5, <1>6 DEF AuthInv, DbAuth, ViewAuth, FetchAuth, DraftAuth, BodyAuth,
           FormAuth, PatchAuth

TabAuth(t) ==
    ViewAuth(t) /\ FetchAuth(t) /\ DraftAuth(t) /\ BodyAuth(t) /\ FormAuth(t) /\ PatchAuth(t)

\* A step that only closes, forgets or deletes, and moves requests on.
LEMMA AuthFrame ==
    ASSUME AuthInv, db' = db \/ db' = None, UNCHANGED <<marks, reordered>>,
           \A q \in Tabs :
              /\ view'[q] = view[q] \/ view'[q] \in {None, Away}
              /\ fetch'[q] = fetch[q] \/ fetch'[q].at \notin {"lists", "tasks", "answer"}
              /\ draft'[q] = draft[q] \/ draft'[q] = None
              /\ failing'[q] = failing[q] \/ failing'[q] = None
              /\ pc'[q] \in {"update", "tables", "commit"} =>
                    pc[q] \in {"update", "tables", "commit"} /\ req'[q] = req[q]
              /\ pc'[q] \in {"patch", "blocked"} => pc[q] \in {"patch", "blocked"} /\ req'[q] = req[q]
    PROVE  AuthInv'
<1> SUFFICES ASSUME ~reordered PROVE DbAuth' /\ \A q \in Tabs : TabAuth(q)'
    BY DEF AuthInv, TabAuth
<1>0. Genuine' = Genuine
    BY DEF Genuine
<1>1. DbAuth'
    BY <1>0 DEF AuthInv, DbAuth
<1>2. ASSUME NEW q \in Tabs PROVE TabAuth(q)'
    <2>1. TabAuth(q)
        BY DEF AuthInv, TabAuth
    <2>2. ViewAuth(q)'
        BY <1>0, <2>1 DEF TabAuth, ViewAuth, Shown
    <2>3. FetchAuth(q)'
        BY <1>0, <2>1 DEF TabAuth, FetchAuth
    <2>4. DraftAuth(q)'
        BY <1>0, <2>1 DEF TabAuth, DraftAuth
    <2>5. BodyAuth(q)'
        BY <1>0, <2>1 DEF TabAuth, BodyAuth
    <2>6. FormAuth(q)'
        BY <2>1 DEF TabAuth, FormAuth, FormMeant
    <2>7. PatchAuth(q)'
        BY <2>1 DEF TabAuth, PatchAuth, Meant
    <2> QED BY <2>2, <2>3, <2>4, <2>5, <2>6, <2>7 DEF TabAuth
<1> QED BY <1>1, <1>2

\* A step of one tab: what has to be shown of it.
LEMMA AuthOther ==
    ASSUME AuthInv, UNCHANGED <<db, reordered>>, marks \subseteq marks', NEW t \in Tabs,
           \A q \in Tabs \ {t} :
              /\ view'[q] = view[q] /\ fetch'[q] = fetch[q] /\ draft'[q] = draft[q]
              /\ failing'[q] = failing[q] /\ pc'[q] = pc[q] /\ req'[q] = req[q],
           ~reordered => TabAuth(t)'
    PROVE  AuthInv'
<1> SUFFICES ASSUME ~reordered PROVE DbAuth' /\ \A q \in Tabs : TabAuth(q)'
    BY DEF AuthInv, TabAuth
<1>0. \A s \in Seq(Genuine) : s \in Seq(Genuine')
    BY GenuineGrows
<1>1. DbAuth'
    BY <1>0 DEF AuthInv, DbAuth
<1>2. ASSUME NEW q \in Tabs \ {t} PROVE TabAuth(q)'
    <2>1. TabAuth(q)
        BY DEF AuthInv, TabAuth
    <2>2. ViewAuth(q)'
        BY <1>0, <2>1 DEF TabAuth, ViewAuth, Shown
    <2>3. FetchAuth(q)'
        BY <1>0, <2>1 DEF TabAuth, FetchAuth
    <2>4. DraftAuth(q)'
        BY <1>0, <2>1 DEF TabAuth, DraftAuth
    <2>5. BodyAuth(q)'
        BY <1>0, <2>1 DEF TabAuth, BodyAuth
    <2>6. FormAuth(q)'
        BY <2>1 DEF TabAuth, FormAuth, FormMeant
    <2>7. PatchAuth(q)'
        BY <2>1 DEF TabAuth, PatchAuth, Meant
    <2> QED BY <2>2, <2>3, <2>4, <2>5, <2>6, <2>7 DEF TabAuth
<1> QED BY <1>1, <1>2

\* The same for a step that changes views only.
LEMMA AuthViewOnly ==
    ASSUME AuthInv, UNCHANGED <<db, pc, req, draft, failing, marks, reordered>>, NEW t \in Tabs,
           \A q \in Tabs \ {t} : view'[q] = view[q] /\ fetch'[q] = fetch[q],
           ~reordered => ViewAuth(t)' /\ FetchAuth(t)'
    PROVE  AuthInv'
<1>0. Genuine' = Genuine
    BY DEF Genuine
<1>1. ASSUME ~reordered PROVE DraftAuth(t)' /\ BodyAuth(t)' /\ FormAuth(t)' /\ PatchAuth(t)'
    BY <1>0, <1>1 DEF AuthInv, DraftAuth, BodyAuth, FormAuth, PatchAuth, FormMeant, Meant
<1> QED BY <1>1, AuthOther DEF TabAuth

LEMMA AuthView ==
    ASSUME TypeOK, AuthInv, NEW t \in Tabs, ViewStep(t)
    PROVE  AuthInv'
<1>0. /\ view \in [Tabs -> Rollout \union {None, Away}] /\ fetch \in [Tabs -> FetchState]
      /\ db \in Rollout \union {None}
    BY DEF TypeOK, ViewTypeOK, DbTypeOK
<1>1. UNCHANGED <<db, pc, req, draft, failing, marks, reordered>>
    BY DEF ViewStep, Refetch, ReadHead, ReadLists, ReadTasks, Render, ReadCut, FetchFails, dbVars, reqVars,
           formVars, historyVars
<1>2. Genuine' = Genuine
    BY <1>1 DEF Genuine
<1>3. \A q \in Tabs \ {t} : view'[q] = view[q] /\ fetch'[q] = fetch[q]
    BY <1>0 DEF ViewStep, Refetch, ReadHead, ReadLists, ReadTasks, Render, ReadCut, FetchFails
<1>4. CASE Refetch(t) \/ FetchFails(t) \/ (ReadHead(t) /\ db = None)
    <2>1. view'[t] = view[t] \/ view'[t] = None
        BY <1>0, <1>4 DEF Refetch, FetchFails, ReadHead
    <2>2. fetch'[t].at \notin {"lists", "tasks", "answer"}
        BY <1>0, <1>4 DEF Refetch, FetchFails, ReadHead, Idle
    <2>3. ~reordered => ViewAuth(t)' /\ FetchAuth(t)'
        BY <1>1, <1>2, <2>1, <2>2 DEF AuthInv, ViewAuth, FetchAuth, Shown
    <2> QED BY <1>1, <1>3, <2>3, AuthViewOnly
<1>5. CASE (ReadHead(t) /\ db # None) \/ ReadLists(t) \/ (ReadCut(t) /\ fetch[t].at = "lists")
    <2>1. view'[t] = view[t]
        BY <1>0, <1>5 DEF ReadHead, ReadLists, ReadCut
    <2>2. ~reordered => fetch'[t].got.tasks = <<>> /\ fetch'[t].at \in {"lists", "tasks"}
        <3>1. CASE ReadHead(t) /\ db # None
            BY <1>0, <3>1 DEF ReadHead
        <3>2. CASE ReadLists(t)
            BY <1>0, <3>2 DEF ReadLists, AuthInv, FetchAuth
        <3>3. CASE ReadCut(t) /\ fetch[t].at = "lists"
            BY <1>0, <3>3 DEF ReadCut, AuthInv, FetchAuth
        <3> QED BY <1>5, <3>1, <3>2, <3>3
    <2>3. ~reordered => ViewAuth(t)' /\ FetchAuth(t)'
        BY <1>1, <1>2, <2>1, <2>2 DEF AuthInv, ViewAuth, FetchAuth, Shown
    <2> QED BY <1>1, <1>3, <2>3, AuthViewOnly
<1>6. CASE ReadTasks(t) \/ (ReadCut(t) /\ fetch[t].at = "tasks")
    <2>1. fetch[t].at = "tasks" /\ fetch[t].got \in Rollout
        BY <1>0, <1>6 DEF ReadTasks, FetchState
    <2>2. \A s : WithTasks(fetch[t].got, s).tasks = s
        BY <2>1 DEF WithTasks, Rollout
    <2> DEFINE got == fetch'[t].got
    <2>3. fetch'[t].at = "answer" /\ view'[t] = view[t]
        BY <1>0, <1>6 DEF ReadTasks, ReadCut
    <2>4. ASSUME ~reordered
          PROVE  got.tasks \in Seq(Genuine) /\ (db # None => Aligned(got.tasks, db.tasks))
        <3>0. db # None => db.tasks \in Seq(Genuine) /\ DOMAIN db.tasks = 1..Len(db.tasks) /\ Len(db.tasks) \in Nat
            BY <2>4, LenProperties DEF AuthInv, DbAuth
        <3>1. CASE ReadTasks(t) /\ db = None
            <4>1. got.tasks = <<>>
                BY <1>0, <2>1, <2>4, <3>1 DEF ReadTasks, AuthInv, FetchAuth
            <4> QED BY <3>1, <4>1, EmptySeq
        <3>2. CASE ReadTasks(t) /\ db # None
            <4>1. got.tasks = db.tasks
                BY <1>0, <2>2, <3>2 DEF ReadTasks
            <4> QED BY <3>0, <3>2, <4>1 DEF Aligned
        <3>3. CASE ReadCut(t) /\ fetch[t].at = "tasks"
            <4>1. PICK n \in 0..(Len(db.tasks) - 1) :
                     fetch' = [fetch EXCEPT ![t] =
                                  [at |-> "answer", got |-> WithTasks(@.got, SubSeq(db.tasks, 1, n))]]
                BY <3>3 DEF ReadCut
            <4>2. got.tasks = SubSeq(db.tasks, 1, n) /\ db # None
                BY <1>0, <2>2, <3>3, <4>1 DEF ReadCut
            <4>3. n \in 0..Len(db.tasks) /\ n \in Nat
                BY <3>0, <4>1, <4>2
            <4>4. SubSeq(db.tasks, 1, n) \in Seq(Genuine)
                BY <3>0, <4>2, <4>3, PrefixType
            <4>5. Aligned(SubSeq(db.tasks, 1, n), db.tasks)
                <5>1. DOMAIN SubSeq(db.tasks, 1, n) = 1..n
                    BY <3>0, <4>2, <4>3
                <5>2. \A i \in 1..n : SubSeq(db.tasks, 1, n)[i] = db.tasks[i] /\ i \in DOMAIN db.tasks
                    BY <3>0, <4>2, <4>3
                <5> QED BY <5>1, <5>2 DEF Aligned
            <4> QED BY <4>2, <4>4, <4>5
        <3> QED BY <1>6, <3>1, <3>2, <3>3
    <2> HIDE DEF got
    <2>5. ~reordered => ViewAuth(t)' /\ FetchAuth(t)'
        BY <1>1, <1>2, <2>3, <2>4 DEF AuthInv, ViewAuth, FetchAuth, Shown, got
    <2> QED BY <1>1, <1>3, <2>5, AuthViewOnly
<1>7. CASE Render(t)
    <2>1. fetch[t].at = "answer" /\ view'[t] = fetch[t].got /\ fetch'[t].at = "idle"
        BY <1>0, <1>7 DEF Render, Idle
    <2>2. ~reordered => ViewAuth(t)' /\ FetchAuth(t)'
        BY <1>1, <1>2, <2>1 DEF AuthInv, ViewAuth, FetchAuth
    <2> QED BY <1>1, <1>3, <2>2, AuthViewOnly
<1> QED BY <1>4, <1>5, <1>6, <1>7 DEF ViewStep, ReadCut

\* Steps that only close a form, and mutations that carry no tasks.
LEMMA AuthUserFrame ==
    ASSUME TypeOK, AuthInv, NEW t \in Tabs, CancelFail(t) \/ CancelEdit(t) \/ ConfirmDelete(t)
    PROVE  AuthInv'
<1>0. /\ pc \in [Tabs -> Labels] /\ req \in [Tabs -> Request \union {None}]
      /\ draft \in [Tabs -> Rollout \union {None}] /\ failing \in [Tabs -> FailForm \union {None}]
    BY DEF TypeOK, ReqTypeOK, FormTypeOK
<1>1. UNCHANGED <<db, view, fetch, marks, reordered>>
    BY DEF CancelFail, CancelEdit, ConfirmDelete, dbVars, viewVars, historyVars
<1>2. \A q \in Tabs : /\ draft'[q] = draft[q] \/ draft'[q] = None
                      /\ failing'[q] = failing[q] \/ failing'[q] = None
    BY <1>0 DEF CancelFail, CancelEdit, ConfirmDelete, formVars
<1>3. \A q \in Tabs : (pc'[q] = pc[q] /\ req'[q] = req[q]) \/ pc'[q] = "delete"
    BY <1>0 DEF CancelFail, CancelEdit, ConfirmDelete, reqVars, Send
<1> QED BY <1>1, <1>2, <1>3, AuthFrame

\* A step that opens or changes a draft or a form.
LEMMA AuthFormOnly ==
    ASSUME AuthInv, UNCHANGED <<db, pc, req, view, fetch, marks, reordered>>, NEW t \in Tabs,
           \A q \in Tabs \ {t} : draft'[q] = draft[q] /\ failing'[q] = failing[q],
           ~reordered => DraftAuth(t)' /\ FormAuth(t)'
    PROVE  AuthInv'
<1>0. Genuine' = Genuine
    BY DEF Genuine
<1>1. ASSUME ~reordered PROVE ViewAuth(t)' /\ FetchAuth(t)' /\ BodyAuth(t)' /\ PatchAuth(t)'
    BY <1>0, <1>1 DEF AuthInv, ViewAuth, FetchAuth, BodyAuth, PatchAuth, Meant, Shown
<1> QED BY <1>1, AuthOther DEF TabAuth

LEMMA AuthOpenForm ==
    ASSUME TypeOK, AuthInv, NEW t \in Tabs, OpenFailForm(t)
    PROVE  AuthInv'
<1>0. failing \in [Tabs -> FailForm \union {None}]
    BY DEF TypeOK, FormTypeOK
<1>1. UNCHANGED <<db, pc, req, view, fetch, draft, marks, reordered>> /\ Shown(t)
    BY DEF OpenFailForm, dbVars, reqVars, viewVars, historyVars
<1>2. PICK i \in DOMAIN view[t].tasks :
          failing' = [failing EXCEPT ![t] = [index |-> i, id |-> view[t].tasks[i].id]]
    BY DEF OpenFailForm
<1>3. /\ failing'[t].index = i /\ failing'[t].id = view[t].tasks[i].id
      /\ \A q \in Tabs \ {t} : failing'[q] = failing[q]
    BY <1>0, <1>2
<1>4. ~reordered => FormAuth(t)'
    BY <1>1, <1>3 DEF AuthInv, ViewAuth, Aligned, FormAuth, FormMeant
<1>5. ~reordered => DraftAuth(t)'
    BY <1>1 DEF AuthInv, DraftAuth, Genuine
<1> QED BY <1>1, <1>3, <1>4, <1>5, AuthFormOnly

\* The drafts of the users: tasks from the view, in any order, and new ones.
LEMMA AuthDraft ==
    ASSUME TypeOK, AuthInv, NEW t \in Tabs,
           EnterEdit(t) \/ PatchDraft(t) \/ AddDraftTask(t) \/ RemoveDraftTask(t) \/ MoveDraftTask(t)
    PROVE  AuthInv'
<1>0. draft \in [Tabs -> Rollout \union {None}] /\ view \in [Tabs -> Rollout \union {None, Away}]
    BY DEF TypeOK, FormTypeOK, ViewTypeOK
<1>1. ASSUME NEW d, UNCHANGED <<db, pc, req, view, fetch, failing, marks, reordered>>,
             draft' = [draft EXCEPT ![t] = d], ~reordered => d.tasks \in Seq(Genuine)
      PROVE  AuthInv'
    <2>1. draft'[t] = d /\ \A q \in Tabs \ {t} : draft'[q] = draft[q]
        BY <1>0, <1>1
    <2>2. ~reordered => DraftAuth(t)'
        BY <1>1, <2>1 DEF DraftAuth, Genuine
    <2>3. ~reordered => FormAuth(t)'
        BY <1>1 DEF AuthInv, FormAuth, FormMeant
    <2> QED BY <1>1, <2>1, <2>2, <2>3, AuthFormOnly
<1>2. CASE EnterEdit(t)
    <2>1. ~reordered => view[t].tasks \in Seq(Genuine)
        BY <1>2 DEF EnterEdit, AuthInv, ViewAuth
    <2> QED BY <1>1, <1>2, <2>1 DEF EnterEdit, dbVars, reqVars, viewVars, historyVars
<1>3. ASSUME NEW d, ChangeDraft(t, d), ~reordered => d.tasks \in Seq(Genuine) PROVE AuthInv'
    BY <1>1, <1>3 DEF ChangeDraft, dbVars, reqVars, viewVars, historyVars
<1>4. ASSUME draft[t] # None
      PROVE  /\ draft[t] \in Rollout /\ (~reordered => draft[t].tasks \in Seq(Genuine))
             /\ \A s : WithTasks(draft[t], s).tasks = s
    <2>1. draft[t] \in Rollout
        BY <1>0, <1>4
    <2>2. ~reordered => draft[t].tasks \in Seq(Genuine)
        BY <1>4 DEF AuthInv, DraftAuth
    <2>3. \A s : WithTasks(draft[t], s).tasks = s
        BY <2>1 DEF WithTasks, Rollout
    <2> QED BY <2>1, <2>2, <2>3
<1>5. CASE PatchDraft(t)
    <2>1. draft[t] # None
        BY <1>5 DEF PatchDraft
    <2>2. \A n : [draft[t] EXCEPT !.head = n].tasks = draft[t].tasks /\ [draft[t] EXCEPT !.pair = n].tasks = draft[t].tasks
        BY <1>4, <2>1 DEF Rollout
    <2>3. CASE ChangeDraft(t, [draft[t] EXCEPT !.head = edits + 2])
        BY <1>3, <1>4, <2>1, <2>2, <2>3
    <2>4. CASE ChangeDraft(t, [draft[t] EXCEPT !.pair = edits + 2])
        BY <1>3, <1>4, <2>1, <2>2, <2>4
    <2> QED BY <1>5, <2>3, <2>4 DEF PatchDraft
<1>6. CASE AddDraftTask(t)
    <2> DEFINE n == NewTask(InitTasks + edits + 1)
               s == Append(draft[t].tasks, n)
    <2>1. draft[t] # None /\ ChangeDraft(t, WithTasks(draft[t], s))
        BY <1>6 DEF AddDraftTask
    <2>2. n \in Genuine
        <3>1. InitTasks + edits + 1 \in 1..(InitTasks + MaxEdits)
            BY <2>1, EditingAssumption
               DEF TypeOK, FormTypeOK, HistoryTypeOK, ChangeDraft, CountEdit, EditingAssumption
        <3>2. n \in Task
            BY <3>1, NewTaskType
        <3>3. n.status = ""
            BY DEF NewTask
        <3> QED BY <3>2, <3>3 DEF Genuine
    <2> HIDE DEF n
    <2>3. ~reordered => s \in Seq(Genuine)
        BY <1>4, <2>1, <2>2, AppendProperties
    <2> HIDE DEF s
    <2> QED BY <1>3, <1>4, <2>1, <2>3
<1>7. CASE RemoveDraftTask(t)
    <2>1. draft[t] # None
        BY <1>7 DEF RemoveDraftTask
    <2>2. PICK i \in DOMAIN draft[t].tasks : ChangeDraft(t, WithTasks(draft[t], RemoveAt(draft[t].tasks, i)))
        BY <1>7 DEF RemoveDraftTask
    <2>3. ~reordered => RemoveAt(draft[t].tasks, i) \in Seq(Genuine)
        BY <1>4, <2>1, RemoveAtType
    <2> QED BY <1>3, <1>4, <2>1, <2>2, <2>3
<1>8. CASE MoveDraftTask(t)
    <2>1. draft[t] # None
        BY <1>8 DEF MoveDraftTask
    <2>2. PICK i \in DOMAIN draft[t].tasks : /\ i + 1 \in DOMAIN draft[t].tasks
                                             /\ ChangeDraft(t, WithTasks(draft[t], Swapped(draft[t].tasks, i)))
        BY <1>8 DEF MoveDraftTask
    <2>3. ~reordered => Swapped(draft[t].tasks, i) \in Seq(Genuine)
        BY <1>4, <2>1, <2>2, SwappedType
    <2> QED BY <1>3, <1>4, <2>1, <2>2, <2>3
<1> QED BY <1>2, <1>5, <1>6, <1>7, <1>8

\* A mutation is sent: a body from the draft, or a status for the task at a position.
LEMMA AuthSend ==
    ASSUME TypeOK, AuthInv, NEW t \in Tabs, Toggle(t) \/ SaveFailure(t) \/ SaveDraft(t)
    PROVE  AuthInv'
<1>0. /\ pc \in [Tabs -> Labels] /\ req \in [Tabs -> Request \union {None}]
    BY DEF TypeOK, ReqTypeOK
<1>1. ASSUME NEW l, NEW r, Send(t, l, r)
      PROVE  /\ pc'[t] = l /\ req'[t] = r
             /\ \A q \in Tabs \ {t} : pc'[q] = pc[q] /\ req'[q] = req[q]
    BY <1>0, <1>1 DEF Send
<1>2. UNCHANGED <<db, view, fetch, draft, failing, reordered>> /\ marks \subseteq marks' /\ Shown(t)
    BY DEF Toggle, SaveFailure, SaveDraft, PatchTask, CanSend, dbVars, viewVars, formVars, historyVars
<1>3. ASSUME ~reordered PROVE ViewAuth(t)' /\ FetchAuth(t)' /\ DraftAuth(t)' /\ FormAuth(t)'
    <2>1. TabAuth(t)
        BY <1>3 DEF AuthInv, TabAuth
    <2>2. \A s \in Seq(Genuine) : s \in Seq(Genuine')
        BY <1>2, GenuineGrows
    <2> QED BY <1>2, <2>1, <2>2
            DEF TabAuth, ViewAuth, FetchAuth, DraftAuth, FormAuth, FormMeant, Shown
<1>4. CASE SaveDraft(t)
    <2>1. Send(t, "update", [op |-> "save", body |-> draft[t]]) /\ draft[t] # None /\ UNCHANGED marks
        BY <1>4 DEF SaveDraft, historyVars
    <2>2. /\ pc'[t] = "update" /\ req'[t] = [op |-> "save", body |-> draft[t]]
          /\ \A q \in Tabs \ {t} : pc'[q] = pc[q] /\ req'[q] = req[q]
        BY <1>1, <2>1
    <2>3. ~reordered => BodyAuth(t)' /\ PatchAuth(t)'
        <3>1. Genuine' = Genuine
            BY <2>1 DEF Genuine
        <3>2. req'[t].body = draft[t] /\ pc'[t] = "update"
            BY <2>2
        <3>3. ~reordered => draft[t].tasks \in Seq(Genuine)
            BY <2>1 DEF AuthInv, DraftAuth
        <3> QED BY <3>1, <3>2, <3>3 DEF BodyAuth, PatchAuth
    <2> QED BY <1>2, <1>3, <2>2, <2>3, AuthOther DEF TabAuth
<1>5. ASSUME NEW i, NEW id, NEW status, PatchTask(t, i, id, status),
             ~reordered /\ db # None => i \in DOMAIN db.tasks /\ db.tasks[i].id = id
      PROVE  AuthInv'
    <2>1. Send(t, "patch", [op |-> "task", seq |-> i, status |-> status])
        BY <1>5 DEF PatchTask
    <2>2. /\ pc'[t] = "patch" /\ req'[t].seq = i /\ req'[t].status = status
          /\ \A q \in Tabs \ {t} : pc'[q] = pc[q] /\ req'[q] = req[q]
        BY <1>1, <2>1
    <2>3. [id |-> id, status |-> status, by |-> t] \in marks'
        BY <1>5 DEF PatchTask
    <2>4. ~reordered => BodyAuth(t)' /\ PatchAuth(t)'
        BY <1>2, <1>5, <2>2, <2>3 DEF BodyAuth, PatchAuth, Meant
    <2> QED BY <1>2, <1>3, <2>2, <2>4, AuthOther DEF TabAuth
<1>6. CASE Toggle(t)
    <2>1. PICK i \in DOMAIN view[t].tasks : \E new : PatchTask(t, i, view[t].tasks[i].id, new)
        BY <1>6 DEF Toggle
    <2>2. PICK new : PatchTask(t, i, view[t].tasks[i].id, new)
        BY <2>1
    <2>3. ~reordered /\ db # None => i \in DOMAIN db.tasks /\ db.tasks[i].id = view[t].tasks[i].id
        BY <1>2 DEF AuthInv, ViewAuth, Aligned
    <2> QED BY <1>5, <2>2, <2>3
<1>7. CASE SaveFailure(t)
    <2>1. failing[t] # None /\ PatchTask(t, failing[t].index, failing[t].id, "failed")
        BY <1>7 DEF SaveFailure
    <2>2. ~reordered /\ db # None =>
             failing[t].index \in DOMAIN db.tasks /\ db.tasks[failing[t].index].id = failing[t].id
        BY <2>1 DEF AuthInv, FormAuth, FormMeant
    <2> QED BY <1>5, <2>1, <2>2
<1> QED BY <1>4, <1>6, <1>7

\* A save commits: its tasks are genuine, and while saves only append, every position in
\* use keeps its task.
LEMMA AuthCommit ==
    ASSUME TypeOK, LockInv, AuthInv, NEW t \in Tabs, Commit(t)
    PROVE  AuthInv'
<1>0. pc \in [Tabs -> Labels] /\ pc[t] = "commit" /\ db' = req[t].body
    BY DEF Commit, Stored, TypeOK, ReqTypeOK
<1>1. db # None /\ db \in Rollout
    BY <1>0, EditingAssumption DEF LockInv, Holding, TypeOK, DbTypeOK, EditingAssumption
<1>2. db' \in Rollout
    <2>1. req[t] \in SaveRequest
        BY <1>0 DEF TypeOK, ReqTypeOK
    <2> QED BY <1>0, <2>1 DEF SaveRequest
<1>3. UNCHANGED <<view, fetch, draft, failing, req, marks>>
    BY DEF Commit, viewVars, formVars
<1> SUFFICES ASSUME ~reordered' PROVE DbAuth' /\ \A q \in Tabs : TabAuth(q)'
    BY DEF AuthInv, TabAuth
<1>4. ~reordered /\ ~Reorders(db, db')
    BY DEF Commit
<1>5. Aligned(db.tasks, db'.tasks)
    <2>1. IsPrefix(IdsOf(db.tasks), IdsOf(db'.tasks))
        BY <1>1, <1>4 DEF Reorders
    <2>2. db.tasks \in Seq(Task) /\ db'.tasks \in Seq(Task)
        BY <1>1, <1>2 DEF Rollout
    <2> QED BY <2>1, <2>2, PrefixAligned
<1>6. Genuine' = Genuine
    BY <1>3 DEF Genuine
<1>7. DbAuth'
    BY <1>0, <1>4, <1>6 DEF AuthInv, BodyAuth, DbAuth
<1>8. ASSUME NEW q \in Tabs PROVE TabAuth(q)'
    <2>0. TabAuth(q)
        BY <1>4 DEF AuthInv, TabAuth
    <2>1. pc'[q] = pc[q] \/ pc'[q] \in {"reread", "broadcast"}
        BY DEF Commit
    <2>2. ViewAuth(q)'
        BY <1>1, <1>3, <1>5, <1>6, <2>0, AlignedTrans DEF TabAuth, ViewAuth, Shown
    <2>3. DraftAuth(q)'
        BY <1>3, <1>6, <2>0 DEF TabAuth, DraftAuth
    <2>7. FetchAuth(q)'
        BY <1>1, <1>3, <1>5, <1>6, <2>0, AlignedTrans DEF TabAuth, FetchAuth
    <2>4. BodyAuth(q)'
        BY <1>3, <1>6, <2>0, <2>1 DEF TabAuth, BodyAuth
    <2>5. FormAuth(q)'
        BY <1>1, <1>3, <1>5, <2>0 DEF TabAuth, FormAuth, FormMeant, Aligned
    <2>6. PatchAuth(q)'
        BY <1>1, <1>3, <1>5, <2>0, <2>1 DEF TabAuth, PatchAuth, Meant, Aligned
    <2> QED BY <2>2, <2>3, <2>4, <2>5, <2>6, <2>7 DEF TabAuth
<1> QED BY <1>7, <1>8

\* A task update writes the status its user gave to that task.
LEMMA AuthPatch ==
    ASSUME TypeOK, AuthInv, NEW t \in Tabs, Patch(t), db' # db
    PROVE  AuthInv'
<1>0. pc \in [Tabs -> Labels] /\ pc[t] = "patch" /\ req[t] \in TaskRequest
    BY DEF Patch, TypeOK, ReqTypeOK
<1>1. /\ RowExists(req[t].seq) /\ db' = MarkedBy(db, req[t].seq, req[t].status, t)
      /\ pc' = [pc EXCEPT ![t] = "broadcast"]
    BY DEF Patch
<1>2. db # None /\ db \in Rollout /\ req[t].seq \in DOMAIN db.tasks /\ req[t].status \in Statuses
    BY <1>0, <1>1 DEF RowExists, TypeOK, DbTypeOK, TaskRequest
<1>3. UNCHANGED <<view, fetch, draft, failing, req, marks, reordered>>
    BY DEF Patch, viewVars, formVars, historyVars
<1> SUFFICES ASSUME ~reordered PROVE DbAuth' /\ \A q \in Tabs : TabAuth(q)'
    BY <1>3 DEF AuthInv, TabAuth
<1>4. Genuine' = Genuine
    BY <1>3 DEF Genuine
<1>5. Aligned(db.tasks, db'.tasks)
    BY <1>1, <1>2, MarkedAligned
<1>6. db'.tasks \in Seq(Genuine)
    <2>1. db.tasks \in Seq(Genuine)
        BY <1>2 DEF AuthInv, DbAuth
    <2>2. [id |-> db.tasks[req[t].seq].id, status |-> req[t].status, by |-> t] \in marks
        BY <1>0, <1>2 DEF AuthInv, PatchAuth, Meant
    <2> QED BY <1>1, <1>2, <2>1, <2>2, MarkedGenuine
<1>7. DbAuth'
    BY <1>4, <1>6 DEF DbAuth
<1>8. ASSUME NEW q \in Tabs PROVE TabAuth(q)'
    <2>0. TabAuth(q)
        BY DEF AuthInv, TabAuth
    <2>1. pc'[q] = pc[q] \/ pc'[q] = "broadcast"
        BY <1>0, <1>1
    <2>2. ViewAuth(q)'
        BY <1>2, <1>3, <1>4, <1>5, <2>0, AlignedTrans DEF TabAuth, ViewAuth, Shown
    <2>3. DraftAuth(q)'
        BY <1>3, <1>4, <2>0 DEF TabAuth, DraftAuth
    <2>7. FetchAuth(q)'
        BY <1>2, <1>3, <1>4, <1>5, <2>0, AlignedTrans DEF TabAuth, FetchAuth
    <2>4. BodyAuth(q)'
        BY <1>3, <1>4, <2>0, <2>1 DEF TabAuth, BodyAuth
    <2>5. FormAuth(q)'
        BY <1>2, <1>3, <1>5, <2>0 DEF TabAuth, FormAuth, FormMeant, Aligned
    <2>6. PatchAuth(q)'
        BY <1>2, <1>3, <1>5, <2>0, <2>1 DEF TabAuth, PatchAuth, Meant, Aligned
    <2> QED BY <2>2, <2>3, <2>4, <2>5, <2>6, <2>7 DEF TabAuth
<1> QED BY <1>7, <1>8

LEMMA AuthServer ==
    ASSUME TypeOK, LockInv, AuthInv, NEW t \in Tabs, ServerStep(t), ~Commit(t), db' = db \/ db' = None
    PROVE  AuthInv'
<1>0. /\ pc \in [Tabs -> Labels] /\ req \in [Tabs -> Request \union {None}]
      /\ view \in [Tabs -> Rollout \union {None, Away}] /\ fetch \in [Tabs -> FetchState]
      /\ draft \in [Tabs -> Rollout \union {None}] /\ failing \in [Tabs -> FailForm \union {None}]
    BY DEF TypeOK, ReqTypeOK, ViewTypeOK, FormTypeOK
<1>1. UNCHANGED <<marks, reordered>>
    BY DEF ServerStep, Update, ReplaceTables, Abort, Reread, Patch, Delete, Broadcast, Answer,
           AnswerError, historyVars
<1>2. CASE Answer(t)
    <2>1. \A q \in Tabs : /\ view'[q] = view[q] \/ view'[q] = Away
                          /\ fetch'[q] = fetch[q] \/ fetch'[q].at = "idle"
                          /\ draft'[q] = draft[q] \/ draft'[q] = None
                          /\ failing'[q] = failing[q] \/ failing'[q] = None
        BY <1>0, <1>2 DEF Answer, Idle
    <2>2. \A q \in Tabs : (pc'[q] = pc[q] /\ req'[q] = req[q]) \/ pc'[q] = "idle"
        BY <1>0, <1>2 DEF Answer
    <2> QED BY <1>1, <2>1, <2>2, AuthFrame
<1>3. CASE AnswerError(t)
    <2>1. UNCHANGED <<view, fetch, draft, failing>>
        BY <1>3 DEF AnswerError, viewVars, formVars
    <2>2. \A q \in Tabs : (pc'[q] = pc[q] /\ req'[q] = req[q]) \/ pc'[q] = "idle"
        BY <1>0, <1>3 DEF AnswerError
    <2> QED BY <1>1, <2>1, <2>2, AuthFrame
<1>4. CASE Abort(t)
    <2>1. UNCHANGED <<view, fetch, draft, failing, req>>
        BY <1>4 DEF Abort, viewVars, formVars
    <2>2. \A q \in Tabs : \/ pc'[q] = pc[q] \/ pc'[q] = "error"
                          \/ pc'[q] = "patch" /\ pc[q] = "blocked"
        BY <1>0, <1>4 DEF Abort, Blocked
    <2> QED BY <1>1, <2>1, <2>2, AuthFrame
<1>5. CASE Update(t) \/ ReplaceTables(t) \/ Reread(t) \/ Patch(t) \/ Delete(t) \/ Broadcast(t)
    <2>1. UNCHANGED <<view, fetch, draft, failing, req>>
        BY <1>5 DEF Update, ReplaceTables, Reread, Patch, Delete, Broadcast, viewVars, formVars
    <2>2. \/ pc[t] \in {"update", "tables"} /\ \E l \in {"tables", "commit", "error"} : pc' = [pc EXCEPT ![t] = l]
          \/ pc[t] = "patch" /\ pc' = [pc EXCEPT ![t] = "blocked"]
          \/ \E l \in {"error", "broadcast", "answer"} : pc' = [pc EXCEPT ![t] = l]
        BY <1>5 DEF Update, ReplaceTables, Reread, Patch, Delete, Broadcast
    <2>3. \A q \in Tabs : \/ pc'[q] = pc[q] \/ pc'[q] \in {"error", "broadcast", "answer"}
                          \/ pc[q] \in {"update", "tables"} /\ pc'[q] \in {"tables", "commit"}
                          \/ pc[q] = "patch" /\ pc'[q] = "blocked"
        BY <1>0, <2>2
    <2> QED BY <1>1, <2>1, <2>3, AuthFrame
<1> QED BY <1>2, <1>3, <1>4, <1>5 DEF ServerStep

LEMMA AuthStep == TypeOK /\ LockInv /\ AuthInv /\ [Next]_vars => AuthInv'
<1> SUFFICES ASSUME TypeOK, LockInv, AuthInv, [Next]_vars PROVE AuthInv'
    OBVIOUS
<1>1. CASE UNCHANGED vars
    <2>1. UNCHANGED <<db, pc, req, view, fetch, draft, failing, marks, reordered>>
        BY <1>1 DEF vars, dbVars, reqVars, viewVars, formVars, historyVars
    <2> QED BY <2>1, AuthFrame
<1>2. ASSUME NEW t \in Tabs, UserStep(t) PROVE AuthInv'
    BY <1>2, AuthUserFrame, AuthOpenForm, AuthDraft, AuthSend DEF UserStep
<1>3. ASSUME NEW t \in Tabs, ServerStep(t) PROVE AuthInv'
    <2>1. ~Commit(t) /\ ~Patch(t) => db' = db \/ db' = None
        BY <1>3 DEF ServerStep, Update, ReplaceTables, Abort, Reread, Delete, Broadcast, Answer,
                    AnswerError, dbVars
    <2> QED BY <1>3, <2>1, AuthCommit, AuthPatch, AuthServer
<1> QED BY <1>1, <1>2, <1>3, AuthView DEF Next

\* A task recorded as done or failed by a user was marked so by that user, through stale
\* views, drafts and forms and concurrent saves, as long as no save has moved or removed
\* a task (updateTask goes by position, UpdateRollout replaces the list).
THEOREM EditingCompletionAuthentic == Spec => []CompletionAuthentic
<1>1. TypeOK /\ AuthInv => CompletionAuthentic
    <2> SUFFICES ASSUME TypeOK, AuthInv, db # None, ~reordered, NEW i \in DOMAIN db.tasks,
                        db.tasks[i].status # ""
                 PROVE  [id |-> db.tasks[i].id, status |-> db.tasks[i].status, by |-> db.tasks[i].by] \in marks
        BY DEF CompletionAuthentic
    <2>1. db.tasks \in Seq(Genuine)
        BY DEF AuthInv, DbAuth
    <2>2. db.tasks[i] \in Genuine
        BY <2>1, LenProperties, ElementOfSeq
    <2>3. db.tasks[i] \in marks /\ db.tasks[i] \in Task
        BY <2>2 DEF Genuine
    <2>4. db.tasks[i] = [id |-> db.tasks[i].id, status |-> db.tasks[i].status, by |-> db.tasks[i].by]
        BY <2>3 DEF Task
    <2> QED BY <2>3, <2>4
<1> QED BY <1>1, AuthInit, AuthStep, EditingTypeCorrect, LockInvariant, PTL DEF Spec
=============================================================================
