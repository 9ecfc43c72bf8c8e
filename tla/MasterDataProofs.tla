-------------------------- MODULE MasterDataProofs --------------------------
(***************************************************************************)
(* Master data, for any number of tabs, types, saves and connections.      *)
(***************************************************************************)
EXTENDS MasterData, TLAPS, FiniteSetTheorems, SequenceTheorems

-----------------------------------------------------------------------------
(* The types *)

Drafts == [id : Names \union {None}, name : Names, plan : Plans, tasks : Lists]

Phases == {"sent", "tx", "row", "cleared", "ok", "error", "done"}
SaveRecords == [tab : Tabs, kind : {"type", "product"}, draft : Drafts \union Nat,
                phase : Phases, seen : SUBSET Lists]

Rows == [name : Names, plan : Plans, rowVer : Nat]
ReadLists == [list : Lists, ver : Nat]
Asked == [phase : {"asked"}]
Open == [phase : {"open"}, todo : SUBSET Names, rows : [Names -> Rows \union {None}],
         tasks : [Names -> ReadLists \union {None}]]

Entries == [name : Names, plan : Plans, tasks : Lists, rowVer : Nat, taskVer : Nat]

StoreOK ==
    /\ types \in [Names -> Types \union {None}]
    /\ version \in [Names -> Nat]
    /\ products \in Nat

PageOK ==
    /\ typeDraft \in [Tabs -> Drafts \union {None}]
    /\ productDraft \in [Tabs -> Nat]
    /\ shown \in [Tabs -> [Names -> Entries \union {None}]]
    /\ saving \in [Tabs -> BOOLEAN]

\* A save carries what its kind needs, the id of the type included.
GoodSave(s) ==
    /\ s \in SaveRecords
    /\ s.kind = "type" => s.draft \in Drafts /\ s.draft.id \in Names
    /\ s.kind = "product" => s.draft \in Nat

SaveOK ==
    /\ save \in Seq(SaveRecords)
    /\ \A i \in Saves : GoodSave(save[i])

\* What a listing has read so far: the tasks of a row it is done with, at a version
\* no older than the row's, which is no newer than the stored one.
GoodListing(l, ver) ==
    \A id \in Names : l.rows[id] # None =>
        /\ l.rows[id].rowVer <= ver[id]
        /\ id \notin l.todo => l.tasks[id] \in ReadLists /\ l.rows[id].rowVer <= l.tasks[id].ver

ListingOK ==
    /\ listing \in [Tabs -> Asked \union Open \union {None}]
    /\ \A t \in Tabs : Reading(t) => /\ GoodListing(listing[t], version)
                                     /\ \A id \in listing[t].todo : types[id] # None

TypeInv == StoreOK /\ PageOK /\ SaveOK /\ ListingOK /\ edits \in Nat /\ faults \in Nat

\* The flag of a tab is set while it has a save under way.
FlagInv ==
    /\ \A i \in Saves : save[i].phase # "done" => saving[save[i].tab]
    /\ OneSaveAtATime

Holds(i) == Tx(i, "row") \/ Tx(i, "cleared")

\* The lock of a row: one save has written it, and what that save deleted is what is
\* still there for others to see.
RowLockInv ==
    /\ \A i, j \in Saves : Holds(i) /\ Holds(j) /\ save[i].draft.id = save[j].draft.id => i = j
    /\ \A i \in Saves : Tx(i, "cleared") => save[i].seen = TaskLists(save[i].draft.id)

MasterInv == TypeInv /\ FlagInv /\ RowLockInv /\ TasksNotOlderThanRow

-----------------------------------------------------------------------------
(* Drafts *)

LEMMA RemoveAtSeq ==
    ASSUME NEW S, NEW s \in Seq(S), NEW i \in DOMAIN s
    PROVE  /\ RemoveAt(s, i) \in Seq(S)
           /\ i = 1 => RemoveAt(s, i) = Tail(s)
           /\ i # 1 => RemoveAt(s, i) # <<>> /\ RemoveAt(s, i)[1] = s[1]
<1>1. Len(s) \in Nat /\ DOMAIN s = 1..Len(s)
  OBVIOUS
<1>2. SubSeq(s, 1, i - 1) \in Seq(S) /\ Len(SubSeq(s, 1, i - 1)) = i - 1
  BY <1>1
<1>3. SubSeq(s, i + 1, Len(s)) \in Seq(S) /\ Len(SubSeq(s, i + 1, Len(s))) = Len(s) - i
  BY <1>1
<1>4. RemoveAt(s, i) \in Seq(S)
  BY <1>2, <1>3 DEF RemoveAt
<1>5. ASSUME i = 1 PROVE RemoveAt(s, i) = Tail(s)
  <2>1. SubSeq(s, 1, i - 1) = <<>>
    BY <1>2, <1>5
  <2>2. SubSeq(s, i + 1, Len(s)) = Tail(s)
    BY <1>1, <1>5
  <2>3. <<>> \o Tail(s) = Tail(s)
    BY <1>3, <2>2, ConcatEmptySeq
  <2> QED BY <2>1, <2>2, <2>3 DEF RemoveAt
<1>6. ASSUME i # 1 PROVE RemoveAt(s, i) # <<>> /\ RemoveAt(s, i)[1] = s[1]
  <2>1. SubSeq(s, 1, i - 1)[1] = s[1]
    BY <1>1, <1>6
  <2>2. RemoveAt(s, i)[1] = SubSeq(s, 1, i - 1)[1] /\ Len(RemoveAt(s, i)) >= 1
    BY <1>1, <1>2, <1>3, <1>6 DEF RemoveAt
  <2>3. RemoveAt(s, i) # <<>>
    BY <1>4, <2>2, EmptySeq
  <2> QED BY <2>1, <2>2, <2>3
<1> QED BY <1>4, <1>5, <1>6

LEMMA NewTypeDraft == newType \in Drafts /\ Anchored(newType)
<1>1. (CHOOSE n \in Names : TRUE) \in Names
  BY MasterDataAssumption
<1>2. <<[stage |-> "non-prod", delayHours |-> 0]>> \in Plans
  <2>0. "non-prod" \in STRING
    BY Zenon, MasterDataAssumption
  <2>1. [stage |-> "non-prod", delayHours |-> 0] \in [stage : STRING, delayHours : Int]
    BY <2>0
  <2> QED BY <2>1 DEF Plans
<1>3. <<>> \in Lists
  BY DEF Lists
<1> QED BY <1>1, <1>2, <1>3 DEF newType, Drafts, Anchored

LEMMA WithIdDraft ==
    ASSUME NEW d \in Drafts
    PROVE  WithId(d) \in Drafts /\ WithId(d).id \in Names
BY DEF WithId, Drafts

\* What one change of a draft does to its plan.
LEMMA ChangedDraft ==
    ASSUME NEW d \in Drafts, NEW e \in Changed(d)
    PROVE  /\ e \in Drafts
           /\ \/ e.plan = d.plan
              \/ e.plan = Tail(d.plan)
              \/ d.plan = <<>> /\ e.plan # <<>> /\ e.plan[1].delayHours = 0
              \/ d.plan # <<>> /\ e.plan # <<>> /\ e.plan[1] = d.plan[1]
<1> DEFINE Stg == [stage : STRING, delayHours : Int]
<1>1. d.plan \in Seq(Stg) /\ d.tasks \in Seq(STRING) /\ d.name \in Names
  BY DEF Drafts, Plans, Lists
<1>2. ASSUME NEW n \in Names, e = patchType(d, n)
      PROVE  e \in Drafts /\ e.plan = d.plan
  BY <1>2 DEF patchType, Drafts
<1>3. ASSUME NEW l \in Lists, e = [d EXCEPT !.tasks = l]
      PROVE  e \in Drafts /\ e.plan = d.plan
  BY <1>3 DEF Drafts
<1>4. ASSUME NEW p \in Plans, e = [d EXCEPT !.plan = p]
      PROVE  e \in Drafts /\ e.plan = p
  BY <1>4 DEF Drafts
<1>5. ASSUME NEW v \in Tasks, e = addTask(d, v)
      PROVE  e \in Drafts /\ e.plan = d.plan
  <2>1. Append(d.tasks, v) \in Lists
    BY <1>1, MasterDataAssumption DEF Lists
  <2> QED BY <2>1, <1>3, <1>5 DEF addTask
<1>6. ASSUME NEW i \in DOMAIN d.tasks, NEW v \in Tasks, e = editTask(d, i, v)
      PROVE  e \in Drafts /\ e.plan = d.plan
  <2>1. [d.tasks EXCEPT ![i] = v] \in Lists
    BY <1>1, MasterDataAssumption DEF Lists
  <2>2. e = [d EXCEPT !.tasks = [d.tasks EXCEPT ![i] = v]]
    BY <1>6 DEF editTask, Drafts
  <2> QED BY <2>1, <2>2, <1>3
<1>7. ASSUME NEW i \in DOMAIN d.tasks, e = removeTask(d, i)
      PROVE  e \in Drafts /\ e.plan = d.plan
  <2>1. RemoveAt(d.tasks, i) \in Lists
    BY <1>1, RemoveAtSeq DEF Lists
  <2> QED BY <2>1, <1>3, <1>7 DEF removeTask
<1>8. ASSUME NEW i \in DOMAIN d.tasks, NEW dir \in {-1, 1}, e = moveTask(d, i, dir)
      PROVE  e \in Drafts /\ e.plan = d.plan
  <2>1. CASE i + dir \in DOMAIN d.tasks
    <3> DEFINE l == [d.tasks EXCEPT ![i] = d.tasks[i + dir], ![i + dir] = d.tasks[i]]
    <3>1. l \in Lists
      BY <1>1, <2>1 DEF Lists
    <3>2. e = [d EXCEPT !.tasks = l]
      BY <1>8, <2>1 DEF moveTask, Drafts
    <3> QED BY <3>1, <3>2, <1>3
  <2>2. CASE i + dir \notin DOMAIN d.tasks
    BY <1>8, <2>2 DEF moveTask
  <2> QED BY <2>1, <2>2
<1>9. ASSUME NEW k \in Stages, e = addStage(d, k)
      PROVE  /\ e \in Drafts /\ e.plan # <<>>
             /\ d.plan = <<>> => e.plan[1].delayHours = 0
             /\ d.plan # <<>> => e.plan[1] = d.plan[1]
  <2>1. CASE d.plan = <<>>
    <3>1. <<[stage |-> k, delayHours |-> 0]>> \in Plans
      BY MasterDataAssumption DEF Plans
    <3> QED BY <2>1, <3>1, <1>4, <1>9 DEF addStage
  <2>2. CASE d.plan # <<>>
    <3> DEFINE st == [stage |-> k, delayHours |-> Last(d.plan).delayHours + 168]
    <3>1. Last(d.plan) \in Stg
      <4>1. Len(d.plan) \in 1..Len(d.plan)
        BY <1>1, <2>2
      <4> HIDE DEF Stg
      <4> QED BY <4>1, <1>1, ElementOfSeq DEF Last
    <3>2. st \in Stg
      BY <3>1, MasterDataAssumption
    <3>3. /\ Append(d.plan, st) \in Seq(Stg) /\ Append(d.plan, st) # <<>>
          /\ Append(d.plan, st)[1] = d.plan[1]
      BY <1>1, <2>2, <3>2
    <3> QED BY <2>2, <3>3, <1>4, <1>9 DEF addStage, Plans
  <2> QED BY <2>1, <2>2
<1>10. ASSUME NEW i \in DOMAIN d.plan, e = patchStage(d, i, 24)
       PROVE  /\ e \in Drafts
              /\ \/ e.plan = d.plan
                 \/ d.plan # <<>> /\ e.plan # <<>> /\ e.plan[1] = d.plan[1]
  <2>1. CASE i = 1
    BY <1>10, <2>1 DEF patchStage
  <2>2. CASE i # 1
    <3> DEFINE p == [d.plan EXCEPT ![i].delayHours = 24]
    <3>0. [d.plan[i] EXCEPT !.delayHours = 24] \in Stg /\ i \in 1..Len(d.plan)
      <4>1. i \in 1..Len(d.plan)
        BY <1>1, LenProperties
      <4>2. d.plan[i] \in Stg
        <5> HIDE DEF Stg
        <5> QED BY <4>1, <1>1, ElementOfSeq
      <4> QED BY <4>1, <4>2
    <3>1. p \in Seq(Stg) /\ Len(p) = Len(d.plan) /\ p[1] = d.plan[1]
      <4>1. p = [d.plan EXCEPT ![i] = [d.plan[i] EXCEPT !.delayHours = 24]]
        BY <1>1
      <4>2. p \in Seq(Stg) /\ Len(p) = Len(d.plan)
        BY <1>1, <3>0, <4>1, ExceptSeq, LenProperties
      <4> QED BY <4>2, <4>1, <1>1, <2>2, <3>0
    <3>2. e = [d EXCEPT !.plan = p]
      BY <1>10, <2>2 DEF patchStage, Drafts
    <3>3. d.plan # <<>> /\ p # <<>>
      BY <1>1, <3>1
    <3> HIDE DEF p
    <3> QED BY <3>1, <3>2, <3>3, <1>4 DEF Plans
  <2> QED BY <2>1, <2>2
<1>11. ASSUME NEW i \in DOMAIN d.plan, e = removeStage(d, i)
       PROVE  /\ e \in Drafts
              /\ \/ e.plan = Tail(d.plan)
                 \/ d.plan # <<>> /\ e.plan # <<>> /\ e.plan[1] = d.plan[1]
  <2>1. RemoveAt(d.plan, i) \in Plans
    BY <1>1, RemoveAtSeq DEF Plans
  <2>2. e \in Drafts /\ e.plan = RemoveAt(d.plan, i)
    BY <2>1, <1>4, <1>11 DEF removeStage
  <2>3. d.plan # <<>>
    BY <1>1
  <2> QED BY <2>2, <2>3, <1>1, RemoveAtSeq
<1>12. \/ \E n \in Names : e = patchType(d, n)
       \/ \E v \in Tasks : e = addTask(d, v)
       \/ \E i \in DOMAIN d.tasks, v \in Tasks : e = editTask(d, i, v)
       \/ \E i \in DOMAIN d.tasks : e = removeTask(d, i)
       \/ \E i \in DOMAIN d.tasks, dir \in {-1, 1} : e = moveTask(d, i, dir)
       \/ \E k \in Stages : e = addStage(d, k)
       \/ \E i \in DOMAIN d.plan : e = patchStage(d, i, 24)
       \/ \E i \in DOMAIN d.plan : e = removeStage(d, i)
  BY DEF Changed
<1> HIDE DEF Stg
<1> QED BY <1>2, <1>5, <1>6, <1>7, <1>8, <1>9, <1>10, <1>11, <1>12, Zenon

-----------------------------------------------------------------------------
(* Saves *)

\* Save i moves to phase p, having seen sn; nothing else of the saves changes.
Moved(i, p, sn) ==
    /\ save' \in Seq(SaveRecords) /\ Saves' = Saves
    /\ \A j \in Saves : /\ save'[j] \in SaveRecords
                         /\ save'[j].tab = save[j].tab
                         /\ save'[j].kind = save[j].kind
                         /\ save'[j].draft = save[j].draft
    /\ \A j \in Saves \ {i} : save'[j] = save[j]
    /\ save'[i].phase = p /\ save'[i].seen = sn

LEMMA SaveMoves ==
    ASSUME SaveOK, NEW i \in Saves, NEW p \in Phases, NEW sn \in SUBSET Lists,
           save' = [save EXCEPT ![i] = [save[i] EXCEPT !.phase = p, !.seen = sn]]
    PROVE  Moved(i, p, sn)
<1> DEFINE r == [save[i] EXCEPT !.phase = p, !.seen = sn]
<1>1. save \in Seq(SaveRecords) /\ i \in 1..Len(save) /\ Saves = 1..Len(save)
  BY LenProperties DEF SaveOK, Saves
<1>2. save[i] \in SaveRecords
  BY <1>1, ElementOfSeq
<1>3. /\ r \in SaveRecords /\ r.phase = p /\ r.seen = sn
      /\ r.tab = save[i].tab /\ r.kind = save[i].kind /\ r.draft = save[i].draft
  BY <1>2 DEF SaveRecords
<1> HIDE DEF r
<1>4. /\ save' \in Seq(SaveRecords) /\ Len(save') = Len(save)
      /\ \A j \in 1..Len(save) : save'[j] = IF j = i THEN r ELSE save[j]
  BY <1>1, <1>3, ExceptSeq DEF r
<1>5. Saves' = Saves
  BY <1>1, <1>4, LenProperties DEF Saves
<1>6. \A j \in Saves : save[j] \in SaveRecords
  BY DEF SaveOK, GoodSave
<1> QED BY <1>1, <1>3, <1>4, <1>5, <1>6 DEF Moved

LEMMA PhaseMoves ==
    ASSUME SaveOK, NEW i \in Saves, NEW p \in Phases, Phase(i, p)
    PROVE  Moved(i, p, save[i].seen)
<1>1. save[i] \in SaveRecords
  BY DEF SaveOK, GoodSave
<1>2. save[i].seen \in SUBSET Lists
  BY <1>1 DEF SaveRecords
<1>3. [save[i] EXCEPT !.phase = p] = [save[i] EXCEPT !.phase = p, !.seen = save[i].seen]
  BY <1>1 DEF SaveRecords
<1>4. save' = [save EXCEPT ![i] = [save[i] EXCEPT !.phase = p]]
  BY DEF Phase
<1> QED BY <1>2, <1>3, <1>4, SaveMoves

LEMMA MovedSaveOK ==
    ASSUME SaveOK, NEW i \in Saves, NEW p, NEW sn, Moved(i, p, sn)
    PROVE  SaveOK'
BY DEF SaveOK, Moved, GoodSave

LEMMA MovedFlag ==
    ASSUME SaveOK, FlagInv, NEW i \in Saves, NEW p, NEW sn, Moved(i, p, sn),
           save[i].phase # "done", UNCHANGED saving
    PROVE  FlagInv'
BY DEF FlagInv, OneSaveAtATime, Moved

LEMMA DoneFlag ==
    ASSUME PageOK, SaveOK, FlagInv, NEW i \in Saves, NEW sn, Moved(i, "done", sn),
           save[i].phase # "done", saving' = [saving EXCEPT ![save[i].tab] = FALSE]
    PROVE  FlagInv'
<1>1. \A j \in Saves \ {i} : save'[j] = save[j] /\ (save[j].phase # "done" => save[j].tab # save[i].tab)
  BY DEF FlagInv, OneSaveAtATime, Moved
<1>2. \A j \in Saves : save[j].tab \in Tabs
  BY DEF SaveOK, GoodSave, SaveRecords
<1>3. \A j \in Saves' : save'[j].phase # "done" => saving'[save'[j].tab]
  BY <1>1, <1>2 DEF FlagInv, Moved, PageOK
<1>4. OneSaveAtATime'
  BY <1>1 DEF FlagInv, OneSaveAtATime, Moved
<1> QED BY <1>3, <1>4 DEF FlagInv

\* A save that does not take or hold the lock of its row.
LEMMA MovedLock ==
    ASSUME SaveOK, RowLockInv, NEW i \in Saves, NEW p, NEW sn, Moved(i, p, sn),
           p \notin {"row", "cleared"}, UNCHANGED types
    PROVE  RowLockInv'
BY DEF RowLockInv, Holds, Tx, TaskLists, Moved

\* A new save is the last one, and has not begun.
LEMMA Sent ==
    ASSUME SaveOK, NEW t \in Tabs, NEW kind \in {"type", "product"}, NEW d,
           kind = "type" => d \in Drafts /\ d.id \in Names,
           kind = "product" => d \in Nat,
           Send(t, kind, d)
    PROVE  /\ SaveOK'
           /\ \E n : /\ n \notin Saves /\ Saves' = Saves \union {n}
                     /\ save'[n] = [tab |-> t, kind |-> kind, draft |-> d, phase |-> "sent", seen |-> {}]
                     /\ \A j \in Saves : save'[j] = save[j]
<1> DEFINE r == [tab |-> t, kind |-> kind, draft |-> d, phase |-> "sent", seen |-> {}]
           n == Len(save) + 1
<1>1. r \in SaveRecords /\ GoodSave(r)
  BY DEF SaveRecords, GoodSave, Phases
<1>2. save \in Seq(SaveRecords) /\ Saves = 1..Len(save) /\ Len(save) \in Nat
  BY LenProperties DEF SaveOK, Saves
<1>3. save' = Append(save, r)
  BY DEF Send
<1> HIDE DEF r
<1>4. /\ save' \in Seq(SaveRecords) /\ Len(save') = Len(save) + 1
      /\ \A j \in 1..Len(save) : save'[j] = save[j]
      /\ save'[Len(save) + 1] = r
  BY <1>1, <1>2, <1>3, AppendProperties
<1>5. Saves' = 1..(Len(save) + 1)
  BY <1>4, LenProperties DEF Saves
<1>6. n \notin Saves /\ Saves' = Saves \union {n}
  BY <1>2, <1>5
<1>7. SaveOK'
  BY <1>1, <1>2, <1>4, <1>6 DEF SaveOK
<1> QED BY <1>2, <1>4, <1>6, <1>7 DEF r

LEMMA SentFlag ==
    ASSUME PageOK, SaveOK, SaveOK', FlagInv, NEW t \in Tabs, NEW r, NEW n,
           ~saving[t], saving' = [saving EXCEPT ![t] = TRUE],
           n \notin Saves, Saves' = Saves \union {n}, save'[n] = r, r.tab = t,
           \A j \in Saves : save'[j] = save[j]
    PROVE  FlagInv'
<1>1. \A j \in Saves : save[j].phase # "done" => save[j].tab # t
  BY DEF FlagInv
<1>2. \A j \in Saves : save[j].tab \in Tabs
  BY DEF SaveOK, GoodSave, SaveRecords
<1>3. \A j \in Saves' : save'[j].phase # "done" => saving'[save'[j].tab]
  BY <1>1, <1>2 DEF FlagInv, PageOK
<1>4. OneSaveAtATime'
  BY <1>1 DEF FlagInv, OneSaveAtATime
<1> QED BY <1>3, <1>4 DEF FlagInv

LEMMA SentLock ==
    ASSUME SaveOK, RowLockInv, NEW r, NEW n, UNCHANGED types,
           n \notin Saves, Saves' = Saves \union {n}, save'[n] = r, r.phase = "sent",
           \A j \in Saves : save'[j] = save[j]
    PROVE  RowLockInv'
BY DEF RowLockInv, Holds, Tx, TaskLists

-----------------------------------------------------------------------------
(* Every action keeps the invariant *)

LEMMA InitMaster == Init => MasterInv
<1> SUFFICES ASSUME Init PROVE MasterInv
  OBVIOUS
<1>1. StoreOK /\ PageOK /\ edits \in Nat /\ faults \in Nat
  BY MasterDataAssumption DEF Init, StoreOK, PageOK
<1>2. save = <<>> /\ Saves = {}
  BY DEF Init, Saves
<1>3. SaveOK
  BY <1>2, EmptySeq DEF SaveOK
<1>4. ListingOK
  BY DEF Init, ListingOK, Asked, Reading
<1>5. FlagInv /\ RowLockInv
  BY <1>2 DEF FlagInv, OneSaveAtATime, RowLockInv
<1>6. TasksNotOlderThanRow
  BY DEF Init, TasksNotOlderThanRow
<1> QED BY <1>1, <1>3, <1>4, <1>5, <1>6 DEF MasterInv, TypeInv

LEMMA ListingKept ==
    ASSUME ListingOK, UNCHANGED <<types, version, listing>>
    PROVE  ListingOK'
BY DEF ListingOK, Reading, GoodListing

\* Listings that start anew or end are as good as those that go on.
LEMMA ListingRestarts ==
    ASSUME ListingOK, UNCHANGED <<types, version>>,
           NEW l \in Asked \union {None}, NEW t \in Tabs, listing' = [listing EXCEPT ![t] = l]
    PROVE  ListingOK'
<1>1. listing' \in [Tabs -> Asked \union Open \union {None}]
  BY DEF ListingOK
<1>2. ~Reading(t)'
  BY DEF ListingOK, Reading, Asked
<1>3. \A u \in Tabs : Reading(u)' => Reading(u) /\ listing'[u] = listing[u]
  BY <1>2 DEF ListingOK, Reading
<1>4. \A u \in Tabs : Reading(u) => GoodListing(listing[u], version)'  \/ listing'[u] # listing[u]
  BY DEF ListingOK, GoodListing
<1> QED BY <1>1, <1>3, <1>4 DEF ListingOK

LEMMA AllAsked ==
    ASSUME listing' = [t \in Tabs |-> [phase |-> "asked"]]
    PROVE  ListingOK'
BY DEF ListingOK, Reading, Asked

LEMMA SavesKept ==
    ASSUME UNCHANGED save
    PROVE  /\ SaveOK => SaveOK'
           /\ UNCHANGED saving => (FlagInv => FlagInv')
           /\ UNCHANGED types => (RowLockInv => RowLockInv')
BY DEF SaveOK, Saves, FlagInv, OneSaveAtATime, RowLockInv, Holds, Tx, TaskLists

\* An action of the page that touches drafts only.
LEMMA DraftStep ==
    ASSUME MasterInv, UNCHANGED <<storeVars, shown, saving, save, listing, faults>>, edits' \in Nat,
           typeDraft' \in [Tabs -> Drafts \union {None}], productDraft' \in [Tabs -> Nat]
    PROVE  MasterInv'
<1>1. StoreOK' /\ PageOK' /\ faults' \in Nat /\ TasksNotOlderThanRow'
  BY DEF MasterInv, TypeInv, StoreOK, PageOK, storeVars, TasksNotOlderThanRow
<1>2. ListingOK'
  BY ListingKept DEF MasterInv, TypeInv, storeVars
<1>3. SaveOK' /\ FlagInv' /\ RowLockInv'
  BY SavesKept DEF MasterInv, TypeInv, storeVars
<1> QED BY <1>1, <1>2, <1>3 DEF MasterInv, TypeInv

LEMMA EntryDraft ==
    ASSUME NEW id \in Names, NEW e \in Entries
    PROVE  DraftOf(id, e) \in Drafts /\ DraftOf(id, e).plan = e.plan
BY DEF DraftOf, Drafts, Entries

LEMMA EditMaster ==
    ASSUME MasterInv, NEW t \in Tabs,
           EditType(t) \/ EditProduct(t) \/ selectType(t) \/ NewType(t)
    PROVE  MasterInv'
<1>1. /\ typeDraft \in [Tabs -> Drafts \union {None}] /\ productDraft \in [Tabs -> Nat]
      /\ shown \in [Tabs -> [Names -> Entries \union {None}]] /\ edits \in Nat
  BY DEF MasterInv, TypeInv, PageOK
<1>2. CASE EditType(t)
  <2>1. \A d \in Changed(typeDraft[t]) : d \in Drafts
    BY <1>1, <1>2, ChangedDraft DEF EditType
  <2>2. typeDraft' \in [Tabs -> Drafts \union {None}]
    BY <1>1, <1>2, <2>1 DEF EditType
  <2> QED BY <1>1, <1>2, <2>2, DraftStep DEF EditType
<1>3. CASE EditProduct(t)
  BY <1>1, <1>3, DraftStep DEF EditProduct
<1>4. CASE selectType(t)
  <2>1. \A id \in Names : shown[t][id] # None => DraftOf(id, shown[t][id]) \in Drafts
    BY <1>1, EntryDraft
  <2>2. typeDraft' \in [Tabs -> Drafts \union {None}]
    BY <1>1, <1>4, <2>1 DEF selectType
  <2> QED BY <1>1, <1>4, <2>2, DraftStep DEF selectType
<1>5. CASE NewType(t)
  BY <1>1, <1>5, NewTypeDraft, DraftStep DEF NewType
<1> QED BY <1>2, <1>3, <1>4, <1>5

LEMMA SendMaster ==
    ASSUME MasterInv, NEW t \in Tabs, saveType(t) \/ saveProduct(t)
    PROVE  MasterInv'
<1>1. PICK kind \in {"type", "product"}, d \in Drafts \union Nat :
        /\ ~saving[t] /\ Send(t, kind, d)
        /\ kind = "type" => d \in Drafts /\ d.id \in Names
        /\ kind = "product" => d \in Nat
  <2>1. typeDraft[t] # None => typeDraft[t] \in Drafts
    BY DEF MasterInv, TypeInv, PageOK
  <2>2. productDraft[t] \in Nat
    BY DEF MasterInv, TypeInv, PageOK
  <2>3. CASE saveType(t)
    BY <2>1, <2>3, WithIdDraft DEF saveType
  <2>4. CASE saveProduct(t)
    BY <2>2, <2>4 DEF saveProduct
  <2> QED BY <2>3, <2>4
<1>2. SaveOK /\ PageOK
  BY DEF MasterInv, TypeInv
<1>3. PICK n : /\ n \notin Saves /\ Saves' = Saves \union {n}
               /\ save'[n] = [tab |-> t, kind |-> kind, draft |-> d, phase |-> "sent", seen |-> {}]
               /\ \A j \in Saves : save'[j] = save[j]
  BY <1>1, <1>2, Sent
<1>4. SaveOK'
  BY <1>1, <1>2, Sent
<1>5. UNCHANGED <<storeVars, typeDraft, productDraft, shown, listing, edits, faults>>
      /\ saving' = [saving EXCEPT ![t] = TRUE]
  BY <1>1 DEF Send
<1>6. StoreOK' /\ PageOK' /\ edits' \in Nat /\ faults' \in Nat /\ TasksNotOlderThanRow'
  BY <1>5 DEF MasterInv, TypeInv, StoreOK, PageOK, storeVars, TasksNotOlderThanRow
<1>7. ListingOK'
  BY <1>5, ListingKept DEF MasterInv, TypeInv, storeVars
<1> DEFINE r == [tab |-> t, kind |-> kind, draft |-> d, phase |-> "sent", seen |-> {}]
<1>8. r.tab = t /\ r.phase = "sent" /\ save'[n] = r
  BY <1>3
<1> HIDE DEF r
<1>9. FlagInv'
  BY <1>1, <1>2, <1>3, <1>4, <1>5, <1>8, SentFlag DEF MasterInv
<1>10. RowLockInv'
  BY <1>2, <1>3, <1>5, <1>8, SentLock DEF MasterInv, storeVars
<1> QED BY <1>4, <1>6, <1>7, <1>9, <1>10 DEF MasterInv, TypeInv

\* A save whose move changes nothing but itself.
LEMMA QuietMove ==
    ASSUME MasterInv, NEW i \in Saves, NEW p, NEW sn, Moved(i, p, sn), save[i].phase # "done",
           UNCHANGED <<storeVars, pageVars, listing, edits>>, faults' \in Nat, RowLockInv'
    PROVE  MasterInv'
<1>1. StoreOK' /\ PageOK' /\ edits' \in Nat /\ TasksNotOlderThanRow'
  BY DEF MasterInv, TypeInv, StoreOK, PageOK, storeVars, pageVars, TasksNotOlderThanRow
<1>2. ListingOK'
  BY ListingKept DEF MasterInv, TypeInv, storeVars
<1>3. SaveOK'
  BY MovedSaveOK DEF MasterInv, TypeInv
<1>4. FlagInv'
  BY MovedFlag DEF MasterInv, TypeInv, pageVars
<1> QED BY <1>1, <1>2, <1>3, <1>4 DEF MasterInv, TypeInv

LEMMA TxMaster ==
    ASSUME MasterInv, NEW i \in Saves, beginTx(i) \/ upsertRow(i) \/ clearTasks(i) \/ failSave(i)
    PROVE  MasterInv'
<1>1. SaveOK /\ RowLockInv /\ StoreOK /\ faults \in Nat
  BY DEF MasterInv, TypeInv
<1>2. CASE beginTx(i)
  <2>1. Moved(i, "tx", save[i].seen) /\ save[i].phase # "done"
    BY <1>1, <1>2, PhaseMoves DEF beginTx, Phases, Tx
  <2>2. RowLockInv'
    BY <1>1, <1>2, <2>1, MovedLock DEF beginTx, storeVars
  <2> QED BY <1>1, <1>2, <2>1, <2>2, QuietMove DEF beginTx
<1>3. CASE upsertRow(i)
  <2>1. Moved(i, "row", save[i].seen) /\ save[i].phase # "done"
    BY <1>1, <1>3, PhaseMoves DEF upsertRow, Phases, Tx
  <2>2. \A j \in Saves : Holds(j) => save[j].draft.id # save[i].draft.id
    BY <1>3 DEF upsertRow, Holds
  <2>3. \A j \in Saves : Holds(j)' => j = i \/ Holds(j)
    BY <2>1 DEF Moved, Holds, Tx
  <2>4. \A j, k \in Saves' : Holds(j)' /\ Holds(k)' /\ save'[j].draft.id = save'[k].draft.id => j = k
    BY <1>1, <2>1, <2>2, <2>3 DEF Moved, RowLockInv
  <2>5. \A j \in Saves' : Tx(j, "cleared")' => save'[j].seen = TaskLists(save[j].draft.id)'
    BY <1>1, <1>3, <2>1 DEF Moved, RowLockInv, Tx, TaskLists, upsertRow, storeVars
  <2>6. RowLockInv'
    BY <2>4, <2>5 DEF RowLockInv
  <2> QED BY <1>1, <1>3, <2>1, <2>6, QuietMove DEF upsertRow
<1>4. CASE clearTasks(i)
  <2>1. save[i].draft.id \in Names /\ save[i] \in SaveRecords
    BY <1>1, <1>4 DEF clearTasks, Tx, SaveOK, GoodSave
  <2>2. TaskLists(save[i].draft.id) \in SUBSET Lists
    BY <1>1, <2>1 DEF TaskLists, StoreOK, Types
  <2>3. save' = [save EXCEPT ![i] = [save[i] EXCEPT !.phase = "cleared", !.seen = TaskLists(save[i].draft.id)]]
    <3>1. save \in Seq(SaveRecords) /\ i \in 1..Len(save)
      BY <1>1, LenProperties DEF SaveOK, Saves
    <3> QED BY <1>4, <2>1, <3>1 DEF clearTasks, SaveRecords
  <2>4. Moved(i, "cleared", TaskLists(save[i].draft.id)) /\ save[i].phase = "row"
    BY <1>1, <1>4, <2>2, <2>3, SaveMoves DEF Phases, clearTasks, Tx
  <2>5. \A j \in Saves : Holds(j)' => Holds(j)
    BY <1>4, <2>4 DEF Moved, Holds, Tx, clearTasks
  <2>6. \A j, k \in Saves' : Holds(j)' /\ Holds(k)' /\ save'[j].draft.id = save'[k].draft.id => j = k
    BY <1>1, <2>4, <2>5 DEF Moved, RowLockInv
  <2>7. \A j \in Saves' : Tx(j, "cleared")' => save'[j].seen = TaskLists(save[j].draft.id)'
    <3> SUFFICES ASSUME NEW j \in Saves', Tx(j, "cleared")'
                 PROVE  save'[j].seen = TaskLists(save[j].draft.id)'
      OBVIOUS
    <3>1. types' = types /\ save'[j].draft = save[j].draft /\ j \in Saves
      BY <1>4, <2>4 DEF Moved, clearTasks, storeVars
    <3>2. save'[j].seen = TaskLists(save[j].draft.id)
      <4>1. CASE j = i
        BY <2>4, <4>1 DEF Moved
      <4>2. CASE j # i
        BY <1>1, <2>4, <3>1, <4>2 DEF Moved, RowLockInv, Tx
      <4> QED BY <4>1, <4>2
    <3> QED BY <3>1, <3>2 DEF TaskLists
  <2>8. RowLockInv'
    BY <2>6, <2>7 DEF RowLockInv
  <2> QED BY <1>1, <1>4, <2>4, <2>8, QuietMove DEF clearTasks
<1>5. CASE failSave(i)
  <2>1. Moved(i, "error", save[i].seen) /\ save[i].phase # "done"
    BY <1>1, <1>5, PhaseMoves DEF failSave, Failing, Phases
  <2>2. RowLockInv'
    BY <1>1, <1>5, <2>1, MovedLock DEF failSave, Failing, storeVars
  <2>3. faults' \in Nat
    BY <1>1, <1>5 DEF failSave, Failing
  <2> QED BY <1>5, <2>1, <2>2, <2>3, QuietMove DEF failSave, Failing
<1> QED BY <1>2, <1>3, <1>4, <1>5

LEMMA CommitMaster ==
    ASSUME MasterInv, NEW i \in Saves, commitType(i)
    PROVE  MasterInv'
<1> DEFINE d == save[i].draft
<1>1. SaveOK /\ RowLockInv /\ StoreOK
  BY DEF MasterInv, TypeInv
<1>2. save[i] \in SaveRecords /\ d \in Drafts /\ d.id \in Names /\ save[i].seen \in SUBSET Lists
  BY <1>1 DEF SaveOK, GoodSave, SaveRecords, commitType, Tx
<1>3. Moved(i, "ok", {}) /\ save[i].phase # "done"
  <2>1. save' = [save EXCEPT ![i] = [save[i] EXCEPT !.phase = "ok", !.seen = {}]]
    <3>1. save \in Seq(SaveRecords) /\ i \in 1..Len(save)
      BY <1>1, LenProperties DEF SaveOK, Saves
    <3> QED BY <1>2, <3>1 DEF commitType, SaveRecords
  <2> QED BY <1>1, <2>1, SaveMoves DEF Phases, commitType, Tx
<1>4. StoreOK'
  <2>1. TaskLists(d.id) \in SUBSET Lists
    BY <1>1, <1>2 DEF TaskLists, StoreOK, Types
  <2>2. /\ d.name \in Names /\ d.plan \in Plans /\ d.tasks \in Lists
    BY <1>2 DEF Drafts
  <2>3. [name |-> d.name, plan |-> d.plan, tasks |-> (TaskLists(d.id) \ save[i].seen) \union {d.tasks}] \in Types
    BY <1>2, <2>1, <2>2 DEF Types
  <2> QED BY <1>1, <1>2, <2>3 DEF StoreOK, commitType
<1>5. PageOK' /\ edits' \in Nat /\ faults' \in Nat /\ TasksNotOlderThanRow'
  BY DEF MasterInv, TypeInv, PageOK, TasksNotOlderThanRow, commitType, pageVars
<1>6. ListingOK'
  BY AllAsked DEF commitType
<1>7. SaveOK' /\ FlagInv'
  BY <1>1, <1>3, MovedSaveOK, MovedFlag DEF MasterInv, commitType, pageVars
<1>8. RowLockInv'
  <2>1. \A j \in Saves : Holds(j)' => Holds(j) /\ j # i /\ save'[j] = save[j]
    BY <1>3 DEF Moved, Holds, Tx
  <2>2. \A j \in Saves : Holds(j) /\ j # i => save[j].draft.id # d.id
    BY <1>1 DEF RowLockInv, commitType, Holds
  <2>3. \A id \in Names : id # d.id => TaskLists(id)' = TaskLists(id)
    BY <1>1, <1>2 DEF TaskLists, StoreOK, commitType
  <2>4. \A j \in Saves : save[j].kind = "type" => save[j].draft.id \in Names
    BY <1>1 DEF SaveOK, GoodSave
  <2>5. \A j, k \in Saves' : Holds(j)' /\ Holds(k)' /\ save'[j].draft.id = save'[k].draft.id => j = k
    BY <1>1, <1>3, <2>1 DEF Moved, RowLockInv
  <2>6. ASSUME NEW j \in Saves', Tx(j, "cleared")'
        PROVE  save'[j].seen = TaskLists(save[j].draft.id)'
    <3>1. j \in Saves /\ Holds(j) /\ j # i /\ save'[j] = save[j]
      BY <1>3, <2>1, <2>6 DEF Holds, Moved
    <3>2. Tx(j, "cleared") /\ save[j].seen = TaskLists(save[j].draft.id)
      BY <1>1, <2>6, <3>1 DEF Tx, RowLockInv
    <3>3. TaskLists(save[j].draft.id)' = TaskLists(save[j].draft.id)
      <4>1. save[j].draft.id \in Names /\ save[j].draft.id # d.id
        BY <2>2, <2>4, <3>1 DEF Holds, Tx
      <4>2. types'[save[j].draft.id] = types[save[j].draft.id]
        BY <1>1, <1>2, <4>1 DEF StoreOK, commitType
      <4> QED BY <3>1, <4>2 DEF TaskLists
    <3> QED BY <3>1, <3>2, <3>3
  <2> QED BY <2>5, <2>6 DEF RowLockInv
<1> QED BY <1>4, <1>5, <1>6, <1>7, <1>8 DEF MasterInv, TypeInv

LEMMA ProductMaster ==
    ASSUME MasterInv, NEW i \in Saves, upsertProduct(i)
    PROVE  MasterInv'
<1>1. SaveOK /\ RowLockInv /\ StoreOK
  BY DEF MasterInv, TypeInv
<1>2. Moved(i, "ok", save[i].seen) /\ save[i].phase # "done"
  BY <1>1, PhaseMoves DEF Phases, upsertProduct
<1>3. StoreOK'
  BY <1>1 DEF StoreOK, SaveOK, GoodSave, upsertProduct
<1>4. PageOK' /\ edits' \in Nat /\ faults' \in Nat /\ TasksNotOlderThanRow'
  BY DEF MasterInv, TypeInv, PageOK, TasksNotOlderThanRow, upsertProduct, pageVars
<1>5. ListingOK'
  BY AllAsked DEF upsertProduct
<1>6. SaveOK' /\ FlagInv' /\ RowLockInv'
  BY <1>1, <1>2, MovedSaveOK, MovedFlag, MovedLock DEF MasterInv, upsertProduct, pageVars
<1> QED BY <1>3, <1>4, <1>5, <1>6 DEF MasterInv, TypeInv

LEMMA AnswerMaster ==
    ASSUME MasterInv, NEW i \in Saves, saved(i) \/ saveFailed(i)
    PROVE  MasterInv'
<1>1. SaveOK /\ RowLockInv /\ StoreOK /\ PageOK /\ FlagInv /\ ListingOK
  BY DEF MasterInv, TypeInv
<1>2. /\ save[i].phase # "done" /\ saving' = [saving EXCEPT ![save[i].tab] = FALSE]
      /\ Phase(i, "done") /\ UNCHANGED <<storeVars, shown, edits, faults>>
  BY DEF saved, saveFailed
<1>3. Moved(i, "done", save[i].seen)
  BY <1>1, <1>2, PhaseMoves DEF Phases
<1>4. GoodSave(save[i]) /\ save[i].tab \in Tabs
  BY <1>1 DEF SaveOK, GoodSave, SaveRecords
<1>5. typeDraft' \in [Tabs -> Drafts \union {None}] /\ productDraft' \in [Tabs -> Nat]
  <2>1. save[i].kind \in {"type", "product"}
    BY <1>4 DEF GoodSave, SaveRecords
  <2> QED BY <1>1, <1>4, <2>1 DEF saved, saveFailed, PageOK, GoodSave
<1>6. PageOK'
  BY <1>1, <1>2, <1>5 DEF PageOK
<1>7. StoreOK' /\ edits' \in Nat /\ faults' \in Nat /\ TasksNotOlderThanRow'
  BY <1>2 DEF MasterInv, TypeInv, StoreOK, storeVars, TasksNotOlderThanRow
<1>8. ListingOK'
  <2>1. CASE saved(i)
    <3>1. [phase |-> "asked"] \in Asked \union {None}
      BY DEF Asked
    <3> QED BY <1>1, <1>2, <1>4, <2>1, <3>1, ListingRestarts DEF saved, storeVars
  <2>2. CASE saveFailed(i)
    BY <1>1, <2>2, ListingKept DEF saveFailed, storeVars
  <2> QED BY <2>1, <2>2
<1>9. SaveOK' /\ FlagInv' /\ RowLockInv'
  <2>1. SaveOK' /\ FlagInv'
    BY <1>1, <1>2, <1>3, MovedSaveOK, DoneFlag
  <2>2. RowLockInv'
    BY <1>1, <1>2, <1>3, MovedLock DEF storeVars
  <2> QED BY <2>1, <2>2
<1> QED BY <1>6, <1>7, <1>8, <1>9 DEF MasterInv, TypeInv

\* A step of a listing leaves the store and the saves alone.
LEMMA ListStep ==
    ASSUME MasterInv, ListKeeps, UNCHANGED productDraft, faults' \in Nat, ListingOK',
           typeDraft' \in [Tabs -> Drafts \union {None}],
           shown' \in [Tabs -> [Names -> Entries \union {None}]], TasksNotOlderThanRow'
    PROVE  MasterInv'
<1>1. StoreOK' /\ PageOK' /\ edits' \in Nat
  BY DEF MasterInv, TypeInv, StoreOK, PageOK, storeVars, ListKeeps
<1>2. SaveOK' /\ FlagInv' /\ RowLockInv'
  BY SavesKept DEF MasterInv, TypeInv, storeVars, ListKeeps
<1> QED BY <1>1, <1>2 DEF MasterInv, TypeInv

\* A listing that goes on.
LEMMA ListingGoesOn ==
    ASSUME ListingOK, UNCHANGED <<types, version>>, NEW t \in Tabs, NEW l \in Open,
           listing' = [listing EXCEPT ![t] = l],
           GoodListing(l, version), \A id \in l.todo : types[id] # None
    PROVE  ListingOK'
BY DEF ListingOK, Reading, GoodListing

LEMMA RowsMaster ==
    ASSUME MasterInv, NEW t \in Tabs, RolloutTypes(t)
    PROVE  MasterInv'
<1> DEFINE row(id) == IF types[id] = None THEN None
                      ELSE [name |-> types[id].name, plan |-> types[id].plan, rowVer |-> version[id]]
           l == [phase |-> "open", todo |-> {id \in Names : types[id] # None},
                 rows |-> [id \in Names |-> row(id)], tasks |-> [id \in Names |-> None]]
<1>1. StoreOK /\ ListingOK
  BY DEF MasterInv, TypeInv
<1>2. \A id \in Names : row(id) \in Rows \union {None}
  BY <1>1 DEF StoreOK, Types, Rows
<1>3. \A id \in Names : row(id) # None => id \in l.todo /\ row(id).rowVer <= version[id]
  BY <1>1 DEF StoreOK
<1>4. l \in Open
  BY <1>2 DEF Open
<1>5. GoodListing(l, version)
  BY <1>3 DEF GoodListing
<1>6. listing' = [listing EXCEPT ![t] = l] /\ UNCHANGED <<types, version, typeDraft, shown, productDraft, faults>>
      /\ ListKeeps
  BY DEF RolloutTypes, ListKeeps, storeVars
<1>7. \A id \in l.todo : types[id] # None
  OBVIOUS
<1> HIDE DEF l
<1>8. ListingOK'
  BY <1>1, <1>4, <1>5, <1>6, <1>7, ListingGoesOn
<1> QED BY <1>6, <1>8, ListStep DEF MasterInv, TypeInv, PageOK, TasksNotOlderThanRow

LEMMA ReadingOpen ==
    ASSUME ListingOK, NEW t \in Tabs, Reading(t)
    PROVE  listing[t] \in Open
BY DEF ListingOK, Reading, Asked

LEMMA TasksMaster ==
    ASSUME MasterInv, NEW t \in Tabs, NEW id \in Names, rolloutTypeTasks(t, id)
    PROVE  MasterInv'
<1>1. StoreOK /\ ListingOK
  BY DEF MasterInv, TypeInv
<1>2. Reading(t) /\ listing[t] \in Open /\ id \in listing[t].todo /\ types[id] # None /\ GoodListing(listing[t], version)
  BY <1>1, ReadingOpen DEF rolloutTypeTasks, ReadTasks, ListingOK
<1>3. PICK k \in types[id].tasks :
        listing' = [listing EXCEPT ![t].todo = @ \ {id}, ![t].tasks[id] = [list |-> k, ver |-> version[id]]]
  BY DEF rolloutTypeTasks, ReadTasks
<1> DEFINE r == [list |-> k, ver |-> version[id]]
           l == [listing[t] EXCEPT !.todo = @ \ {id}, !.tasks[id] = r]
<1>4. r \in ReadLists /\ r.ver = version[id]
  BY <1>1, <1>2, <1>3 DEF StoreOK, Types, ReadLists
<1>5. listing' = [listing EXCEPT ![t] = l]
  BY <1>1, <1>2, <1>3 DEF ListingOK, Open
<1> HIDE DEF r
<1>6. /\ l \in Open /\ l.rows = listing[t].rows /\ l.todo = listing[t].todo \ {id}
      /\ l.tasks = [listing[t].tasks EXCEPT ![id] = r] /\ listing[t].tasks \in [Names -> ReadLists \union {None}]
  BY <1>2, <1>4 DEF Open
<1> HIDE DEF l
<1>7. GoodListing(l, version)
  BY <1>2, <1>4, <1>6 DEF GoodListing
<1>8. \A n \in l.todo : types[n] # None
  BY <1>1, <1>2, <1>6 DEF ListingOK
<1>9. ListKeeps /\ UNCHANGED <<types, version, typeDraft, shown, productDraft, faults>>
  BY DEF rolloutTypeTasks, ReadTasks, ListKeeps, storeVars
<1>10. ListingOK'
  BY <1>1, <1>5, <1>6, <1>7, <1>8, <1>9, ListingGoesOn
<1> QED BY <1>9, <1>10, ListStep DEF MasterInv, TypeInv, PageOK, TasksNotOlderThanRow

LEMMA ListedEntry ==
    ASSUME NEW l \in Open, GoodListing(l, version), l.todo = {}, NEW id \in Names
    PROVE  /\ Entry(l, id) \in Entries \union {None}
           /\ Entry(l, id) # None => Entry(l, id).rowVer <= Entry(l, id).taskVer
<1>1. CASE l.rows[id] = None
  BY <1>1 DEF Entry
<1>2. CASE l.rows[id] # None
  <2>1. l.rows[id] \in Rows /\ l.tasks[id] \in ReadLists /\ l.rows[id].rowVer <= l.tasks[id].ver
    BY <1>2 DEF Open, GoodListing
  <2> QED BY <1>2, <2>1 DEF Entry, Entries, Rows, ReadLists
<1> QED BY <1>1, <1>2

LEMMA AnsweredMaster ==
    ASSUME MasterInv, NEW t \in Tabs, ListAnswered(t)
    PROVE  MasterInv'
<1> DEFINE got == [id \in Names |-> Entry(listing[t], id)]
<1>1. ListingOK /\ PageOK
  BY DEF MasterInv, TypeInv
<1>2. Reading(t) /\ listing[t] \in Open /\ listing[t].todo = {} /\ GoodListing(listing[t], version)
  BY <1>1, ReadingOpen DEF ListAnswered, ListingOK
<1>3. /\ got \in [Names -> Entries \union {None}]
      /\ \A id \in Names : got[id] # None => got[id].rowVer <= got[id].taskVer
  BY <1>2, ListedEntry
<1>4. /\ shown' = [shown EXCEPT ![t] = got]
      /\ \/ \E id \in Names : got[id] # None /\ typeDraft' = [typeDraft EXCEPT ![t] = DraftOf(id, got[id])]
         \/ UNCHANGED typeDraft
      /\ listing' = [listing EXCEPT ![t] = None] /\ UNCHANGED <<productDraft, faults>> /\ ListKeeps
  BY DEF ListAnswered
<1> HIDE DEF got
<1>5. shown' \in [Tabs -> [Names -> Entries \union {None}]] /\ TasksNotOlderThanRow'
  BY <1>1, <1>3, <1>4 DEF PageOK, MasterInv, TasksNotOlderThanRow
<1>6. typeDraft' \in [Tabs -> Drafts \union {None}]
  <2>1. \A id \in Names : got[id] # None => DraftOf(id, got[id]) \in Drafts
    BY <1>3, EntryDraft
  <2> QED BY <1>1, <1>4, <2>1 DEF PageOK
<1>7. ListingOK'
  BY <1>1, <1>4, ListingRestarts DEF ListKeeps, storeVars
<1> QED BY <1>4, <1>5, <1>6, <1>7, ListStep DEF MasterInv, TypeInv

LEMMA ListFailsMaster ==
    ASSUME MasterInv, NEW t \in Tabs, ListFails(t) \/ ProxyTimeout(t)
    PROVE  MasterInv'
<1>1. ListingOK /\ PageOK /\ faults \in Nat
  BY DEF MasterInv, TypeInv
<1>2. /\ shown' = [shown EXCEPT ![t] = [id \in Names |-> None]] /\ listing' = [listing EXCEPT ![t] = None]
      /\ UNCHANGED <<typeDraft, productDraft>> /\ ListKeeps /\ faults' \in Nat
  BY <1>1 DEF ListFails, ProxyTimeout, Dropped
<1>3. shown' \in [Tabs -> [Names -> Entries \union {None}]] /\ TasksNotOlderThanRow'
  BY <1>1, <1>2 DEF PageOK, MasterInv, TasksNotOlderThanRow
<1>4. ListingOK'
  BY <1>1, <1>2, ListingRestarts DEF ListKeeps, storeVars
<1> QED BY <1>1, <1>2, <1>3, <1>4, ListStep DEF PageOK

LEMMA NextMaster ==
    ASSUME MasterInv, [Next]_vars
    PROVE  MasterInv'
<1>1. CASE UNCHANGED vars
  BY <1>1, DraftStep DEF vars, storeVars, MasterInv, TypeInv, PageOK
<1>2. ASSUME NEW t \in Tabs, User(t) PROVE MasterInv'
  BY <1>2, EditMaster, SendMaster DEF User
<1>3. ASSUME NEW t \in Tabs, List(t) PROVE MasterInv'
  BY <1>3, RowsMaster, TasksMaster, AnsweredMaster DEF List
<1>4. ASSUME NEW i \in Saves, Serve(i) PROVE MasterInv'
  BY <1>4, TxMaster, CommitMaster, ProductMaster DEF Serve
<1> QED BY <1>1, <1>2, <1>3, <1>4, ListFailsMaster, TxMaster, AnswerMaster DEF Next, Answer

LEMMA MasterInvariant == Spec => []MasterInv
<1>1. Init => MasterInv
  BY InitMaster
<1>2. MasterInv /\ [Next]_vars => MasterInv'
  BY NextMaster
<1> QED BY <1>1, <1>2, PTL DEF Spec

-----------------------------------------------------------------------------
(* What follows from it *)

\* Every variable has its type: a save carries a type with an id of its own or a
\* product, and a listing what it has read so far (upsertRolloutType, RolloutTypes).
THEOREM MasterDataTypeCorrect == Spec => []TypeInv
<1>1. MasterInv => TypeInv
  BY DEF MasterInv
<1> QED BY <1>1, MasterInvariant, PTL

\* One flag disables both save buttons, so that a tab never has two saves under way,
\* whatever their kinds (saveProduct, saveType).
THEOREM MasterDataOneSave == Spec => []OneSaveAtATime
<1>1. MasterInv => OneSaveAtATime
  BY DEF MasterInv, FlagInv
<1> QED BY <1>1, MasterInvariant, PTL

\* A listing shows no type with tasks older than its row, although it reads the two
\* tables one after the other while saves commit (RolloutTypes, rolloutTypeTasks).
THEOREM MasterDataTasksFresh == Spec => []TasksNotOlderThanRow
<1>1. MasterInv => TasksNotOlderThanRow
  BY DEF MasterInv
<1> QED BY <1>1, MasterInvariant, PTL

\* With more connections than tabs the pool never runs dry of listings that wait for
\* each other: only transactions take more, each gives its connection back, and none
\* waits for a second one while it holds one (RolloutTypes, UpsertRolloutType).
THEOREM MasterDataNoPoolDeadlock ==
    (IsFiniteSet(Tabs) /\ PoolSize > Cardinality(Tabs)) => (Spec => []NoPoolDeadlock)
<1> SUFFICES ASSUME IsFiniteSet(Tabs), PoolSize > Cardinality(Tabs)
             PROVE  Spec => []NoPoolDeadlock
  OBVIOUS
<1>1. MasterInv => NoPoolDeadlock
  <2> SUFFICES ASSUME MasterInv, ~(Free > 0), \A i \in Saves : save[i].phase \notin {"tx", "row", "cleared"}
               PROVE  FALSE
    BY DEF NoPoolDeadlock
  <2>1. \A i \in Saves : save[i].phase \in Phases
    BY DEF MasterInv, TypeInv, SaveOK, GoodSave, SaveRecords
  <2>2. {i \in Saves : InTx(i)} = {}
    BY <2>1 DEF InTx, Phases
  <2>3. Cardinality({i \in Saves : InTx(i)}) = 0
    BY <2>2, FS_EmptySet
  <2>4. /\ Cardinality({t \in Tabs : Reading(t)}) \in Nat /\ Cardinality(Tabs) \in Nat
        /\ Cardinality({t \in Tabs : Reading(t)}) <= Cardinality(Tabs)
    BY FS_Subset, FS_CardinalityType, {t \in Tabs : Reading(t)} \subseteq Tabs
  <2>5. PoolSize \in Nat
    BY MasterDataAssumption
  <2> QED BY <2>3, <2>4, <2>5 DEF Free
<1> QED BY <1>1, MasterInvariant, PTL

LEMMA AnchorStep ==
    ASSUME MasterInv, [Next]_vars, NEW t \in Tabs, Anchored(typeDraft[t]), ~Anchored(typeDraft'[t])
    PROVE  \/ typeDraft[t] # None /\ typeDraft'[t].plan = Tail(typeDraft[t].plan)
           \/ \E id \in Names : shown[t][id] # None /\ shown[t][id].plan = typeDraft'[t].plan
           \/ \E id \in Names : shown'[t][id] # None /\ shown'[t][id].plan = typeDraft'[t].plan
           \/ \E i \in Saves : save[i].kind = "type" /\ save[i].draft = typeDraft'[t]
<1>1. /\ typeDraft \in [Tabs -> Drafts \union {None}]
      /\ shown \in [Tabs -> [Names -> Entries \union {None}]]
  BY DEF MasterInv, TypeInv, PageOK
<1>2. typeDraft' # typeDraft
  OBVIOUS
<1>3. \/ \E u \in Tabs : EditType(u) \/ selectType(u) \/ NewType(u) \/ ListAnswered(u)
      \/ \E i \in Saves : saved(i)
  BY <1>2 DEF Next, vars, User, Serve, Answer, List, EditProduct, saveType, saveProduct, Send,
              beginTx, upsertRow, clearTasks, commitType, upsertProduct, failSave, Failing, saveFailed,
              RolloutTypes, rolloutTypeTasks, ReadTasks, ListFails, ProxyTimeout, Dropped, pageVars
<1>4. ASSUME NEW u \in Tabs, EditType(u)
      PROVE  typeDraft[t] # None /\ typeDraft'[t].plan = Tail(typeDraft[t].plan)
  <2>1. PICK e \in Changed(typeDraft[u]) : typeDraft' = [typeDraft EXCEPT ![u] = e]
    BY <1>4 DEF EditType
  <2>2. u = t /\ typeDraft'[t] = e /\ typeDraft[t] # None /\ typeDraft[t] \in Drafts
    BY <1>1, <1>4, <2>1 DEF EditType
  <2>3. e.plan # typeDraft[t].plan /\ ~(e.plan # <<>> /\ e.plan[1].delayHours = 0)
    BY <2>2 DEF Anchored
  <2>4. e.plan # <<>> /\ (typeDraft[t].plan # <<>> => typeDraft[t].plan[1].delayHours = 0)
    BY <2>2 DEF Anchored
  <2> QED BY <2>1, <2>2, <2>3, <2>4, ChangedDraft
<1>5. ASSUME NEW u \in Tabs, selectType(u)
      PROVE  \E id \in Names : shown[t][id] # None /\ shown[t][id].plan = typeDraft'[t].plan
  BY <1>1, <1>5, EntryDraft DEF selectType
<1>6. ASSUME NEW u \in Tabs, NewType(u) PROVE FALSE
  BY <1>1, <1>6, NewTypeDraft DEF NewType
<1>7. ASSUME NEW u \in Tabs, ListAnswered(u)
      PROVE  \E id \in Names : shown'[t][id] # None /\ shown'[t][id].plan = typeDraft'[t].plan
  <2>1. PICK id \in Names : /\ Entry(listing[u], id) # None
                           /\ shown' = [shown EXCEPT ![u] = [n \in Names |-> Entry(listing[u], n)]]
                           /\ typeDraft' = [typeDraft EXCEPT ![u] = DraftOf(id, Entry(listing[u], id))]
    BY <1>2, <1>7 DEF ListAnswered
  <2>2. u = t
    BY <1>1, <2>1
  <2>3. shown'[t][id] = Entry(listing[t], id) /\ typeDraft'[t] = DraftOf(id, Entry(listing[t], id))
    BY <1>1, <2>1, <2>2
  <2> QED BY <2>1, <2>2, <2>3 DEF DraftOf
<1>8. ASSUME NEW i \in Saves, saved(i)
      PROVE  save[i].kind = "type" /\ save[i].draft = typeDraft'[t]
  BY <1>1, <1>2, <1>8 DEF saved
<1> QED BY <1>3, <1>4, <1>5, <1>6, <1>7, <1>8

\* A draft whose cascade starts at the anchor stops doing so in one way only: it loses
\* its first stage (removeStage); every other change of a draft keeps the first delay.
THEOREM MasterDataUnanchored == Spec => UnanchoredOnlyByRemoval
<1>1. MasterInv /\ [Next]_vars =>
      [\A t \in Tabs :
          Anchored(typeDraft[t]) /\ ~Anchored(typeDraft'[t]) =>
              \/ typeDraft[t] # None /\ typeDraft'[t].plan = Tail(typeDraft[t].plan)
              \/ \E id \in Names : shown[t][id] # None /\ shown[t][id].plan = typeDraft'[t].plan
              \/ \E id \in Names : shown'[t][id] # None /\ shown'[t][id].plan = typeDraft'[t].plan
              \/ \E i \in Saves : save[i].kind = "type" /\ save[i].draft = typeDraft'[t]]_vars
  BY AnchorStep
<1> QED BY <1>1, MasterInvariant, PTL DEF Spec, UnanchoredOnlyByRemoval

-----------------------------------------------------------------------------
(* The store implements the register *)

AskedTypes == {save[i].draft : i \in {j \in Saves : save[j].kind = "type"}}

LEMMA MovedAsked ==
    ASSUME NEW i, NEW p, NEW sn, Moved(i, p, sn)
    PROVE  AskedTypes' = AskedTypes
BY DEF Moved, AskedTypes

LEMMA SaveMoved ==
    ASSUME SaveOK, NEW i \in Saves, Serve(i) \/ failSave(i) \/ Answer(i)
    PROVE  AskedTypes' = AskedTypes
<1>1. CASE \E p \in Phases : Phase(i, p)
  BY <1>1, PhaseMoves, MovedAsked
<1>2. CASE \E p \in Phases : \E sn : save' = [save EXCEPT ![i].phase = p, ![i].seen = sn]
  <2>1. PICK p \in Phases : \E sn : save' = [save EXCEPT ![i].phase = p, ![i].seen = sn]
    BY <1>2
  <2>2. save \in Seq(SaveRecords) /\ \A j \in Saves : save[j] \in SaveRecords
    BY DEF SaveOK, GoodSave
  <2>3. Saves' = Saves /\ \A j \in Saves : save'[j].kind = save[j].kind /\ save'[j].draft = save[j].draft
    BY <2>1, <2>2 DEF Saves, SaveRecords
  <2> QED BY <2>3 DEF AskedTypes
<1> QED BY <1>1, <1>2 DEF Serve, Answer, beginTx, upsertRow, clearTasks, commitType, upsertProduct,
                          failSave, Failing, saved, saveFailed, Phases

LEMMA RegisterCommit ==
    ASSUME MasterInv, NEW i \in Saves, commitType(i)
    PROVE  Register!Commit(save[i].draft.id)
<1> DEFINE d == save[i].draft
<1>1. SaveOK /\ RowLockInv /\ Tx(i, "cleared")
  BY DEF MasterInv, TypeInv, commitType
<1>2. d \in AskedTypes
  BY <1>1 DEF AskedTypes, Tx
<1>3. TaskLists(d.id) \ save[i].seen = {}
  BY <1>1 DEF RowLockInv
<1>4. types' = [types EXCEPT ![d.id] = [name |-> d.name, plan |-> d.plan, tasks |-> {d.tasks}]]
  BY <1>3 DEF commitType
<1>5. AskedTypes' = AskedTypes
  BY <1>1, SaveMoved DEF Serve
<1> QED BY <1>2, <1>4, <1>5 DEF Register!Commit, AskedTypes

LEMMA RegisterAsk ==
    ASSUME AskedTypes \subseteq AskedTypes', UNCHANGED types
    PROVE  Register!Ask
BY DEF Register!Ask, AskedTypes

LEMMA RegisterStep ==
    ASSUME MasterInv, [Next]_vars
    PROVE  Register!Next
<1>1. SaveOK
  BY DEF MasterInv, TypeInv
<1>2. ASSUME UNCHANGED save, UNCHANGED types PROVE Register!Next
  BY <1>2, RegisterAsk DEF Register!Next, AskedTypes, Saves
<1>3. ASSUME NEW t \in Tabs, saveType(t) \/ saveProduct(t) PROVE Register!Next
  <2>1. \E k, d : save' = Append(save, [tab |-> t, kind |-> k, draft |-> d, phase |-> "sent", seen |-> {}])
                  /\ UNCHANGED types
    BY <1>3 DEF saveType, saveProduct, Send, storeVars
  <2>2. Saves \subseteq Saves' /\ \A j \in Saves : save'[j] = save[j]
    BY <1>1, <2>1 DEF Saves, SaveOK
  <2>3. AskedTypes \subseteq AskedTypes'
    BY <2>2 DEF AskedTypes
  <2> QED BY <2>1, <2>3, RegisterAsk DEF Register!Next
<1>4. ASSUME NEW i \in Saves, commitType(i) PROVE Register!Next
  <2>1. save[i].draft.id \in Names
    BY <1>1, <1>4 DEF SaveOK, GoodSave, commitType, Tx
  <2> QED BY <1>4, <2>1, RegisterCommit DEF Register!Next
<1>5. ASSUME NEW i \in Saves, Serve(i) \/ failSave(i) \/ Answer(i), ~commitType(i) PROVE Register!Next
  <2>1. UNCHANGED types
    BY <1>5 DEF Serve, Answer, beginTx, upsertRow, clearTasks, upsertProduct, failSave, Failing,
                saved, saveFailed, storeVars
  <2>2. AskedTypes' = AskedTypes
    BY <1>1, <1>5, SaveMoved
  <2> QED BY <2>1, <2>2, RegisterAsk DEF Register!Next
<1>6. ASSUME NEW t \in Tabs, User(t), ~saveType(t), ~saveProduct(t) PROVE UNCHANGED <<save, types>>
  BY <1>6 DEF User, EditType, EditProduct, selectType, NewType, storeVars
<1>7. ASSUME NEW t \in Tabs, List(t) \/ ListFails(t) \/ ProxyTimeout(t) PROVE UNCHANGED <<save, types>>
  BY <1>7 DEF List, RolloutTypes, ListAnswered, rolloutTypeTasks, ReadTasks, ListFails, ProxyTimeout, Dropped, ListKeeps, storeVars
<1> QED BY <1>2, <1>3, <1>4, <1>5, <1>6, <1>7 DEF Next, vars

\* The store is a register of whole types: a save takes effect at its commit or not at
\* all, and although it writes two tables in several statements beside other saves of
\* the same type, what is stored is one save's row with the same save's tasks
\* (UpsertRolloutType: the row is written, and so locked, before the tasks are deleted).
THEOREM MasterDataImplementsRegister == Spec => RegisterSpec
<1>1. Init => Register!Init
  <2>1. ASSUME Init PROVE AskedTypes = {}
    BY <2>1 DEF Init, Saves, AskedTypes
  <2> QED BY <2>1 DEF Init, Register!Init, AskedTypes
<1>2. MasterInv /\ [Next]_vars => [Register!Next]_(Register!vars)
  BY RegisterStep
<1> QED BY <1>1, <1>2, MasterInvariant, PTL DEF Spec, RegisterSpec, Register!Spec

=============================================================================
