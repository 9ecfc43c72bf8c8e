------------------------- MODULE NotificationsProofs -------------------------
(***************************************************************************)
(* The notifications of a rollout, for any plans, request goroutines,      *)
(* batch and retry limits, and any number of edits and faults.             *)
(***************************************************************************)
EXTENDS Notifications, FiniteSetTheorems, SequenceTheorems, TLAPS

-----------------------------------------------------------------------------
(* The types *)

Rows == [gen : Nat, seq : Nat \ {0}, channel : {"TMS_NP", "TMS_PROD"}, fireAt : Int,
         sent : BOOLEAN, attempts : 0 .. notifyMaxAttempts]

Items == [seq : Nat \ {0}, channel : {"TMS_NP", "TMS_PROD"}, fireAt : Int]

StageSet == [env : STRING, startAt : Int]

Messages == [no : Nat, row : RowIds, stage : StageSet, outcome : PostOutcomes]

\* The row the dispatcher is working on.
Current == IF cur.at = "idle" THEN {} ELSE {cur.row}

ClockInv == now \in 0 .. MaxTime /\ faults \in 0 .. MaxFaults

QueueInv ==
    /\ stages \in Plans \union {NoPlan} /\ gen \in Nat
    /\ rows \subseteq Rows
    /\ \A r \in Unsent : r.attempts < notifyMaxAttempts
    /\ pc \in [Requests -> {"idle", "saved", "computed", "deleted"}]
    /\ items \in [Requests -> SUBSET Items]
    /\ dels \in [Requests -> SUBSET RowIds]
    /\ waits \in [Requests -> SUBSET Requests]

DispatchInv ==
    /\ batch \subseteq RowIds
    /\ \/ cur = Idle
       \/ cur \in [at : {"post"}, row : RowIds, stage : StageSet]
       \/ cur \in [at : {"mark"}, row : RowIds, ok : BOOLEAN]
    /\ log \subseteq Messages /\ IsFiniteSet(log)

Active == {q \in Requests : pc[q] # "idle"}

\* Every reschedule belongs to a save.
CountInv ==
    /\ IsFiniteSet(Active)
    /\ edits \in 0 .. MaxEdits
    /\ gen + Cardinality(Active) <= edits

-----------------------------------------------------------------------------
(* How often a row is posted *)

\* A row is known by its id, and ids are not used again.
IdInv ==
    /\ \A r, s \in rows : Id(r) = Id(s) => r = s
    /\ \A x \in Ids(rows) \union batch \union Current : x.gen <= gen
    /\ \A m \in log : m.row.gen <= gen

\* The dispatcher has a row once.
OnceInv == Current \intersect batch = {}

\* The messages of a row are numbered.
LogInv == \A m \in log : m.no <= Cardinality(Posts(m.row))

Marking(x) == cur.at = "mark" /\ cur.row = x

\* Row x is going to be posted.
Waiting(x) == x \in batch \/ (cur.at = "post" /\ cur.row = x)

\* An unsent row was posted once for each failure counted, and once more while the
\* failure is not recorded yet, and once for each fault that lost the record.
UnsentInv ==
    \A r \in Unsent :
        /\ Cardinality(Posts(Id(r))) <= r.attempts + faults + (IF Marking(Id(r)) THEN 1 ELSE 0)
        /\ Cardinality(Acknowledged(Id(r))) <= faults + (IF Marking(Id(r)) /\ cur.ok THEN 1 ELSE 0)

\* A row that is going to be posted can take one more, whatever became of it meanwhile.
WaitingInv ==
    \A x \in RowIds : Waiting(x) =>
        /\ Cardinality(Posts(x)) < notifyMaxAttempts + faults
        /\ Cardinality(Acknowledged(x)) <= faults

PostedInv ==
    \A x \in RowIds :
        /\ Cardinality(Posts(x)) <= notifyMaxAttempts + faults
        /\ Cardinality(Acknowledged(x)) <= 1 + faults

RetryInv == IdInv /\ OnceInv /\ LogInv /\ UnsentInv /\ WaitingInv /\ PostedInv

-----------------------------------------------------------------------------
(* The queue follows the plan *)

\* What the dispatcher has fetched, and what is sent, was due.
DueInv ==
    /\ \A x \in batch \union Current : x.fireAt <= now
    /\ \A r \in rows : r.sent => r.fireAt <= now

\* The plan's schedule, computed at some time in the past.
Computed(q) == \E t \in 0 .. now : items[q] = Schedule(stages, t)

\* A request that has saved a plan is on its way to replace the pending rows: they
\* are all locked, and the new ones are those of the plan.
EditInv ==
    \A q \in Requests :
        /\ pc[q] \in {"computed", "deleted"} => stages # NoPlan /\ Computed(q)
        /\ pc[q] = "deleted" => Ids(Unsent) \subseteq dels[q]

PlanInv == DueInv /\ EditInv /\ ScheduleFollowsPlan

Types == ClockInv /\ QueueInv /\ DispatchInv

-----------------------------------------------------------------------------
(* Operators of the model *)

LEMMA IdType ==
    ASSUME NEW r \in Rows
    PROVE  /\ Id(r) \in RowIds /\ Id(r).gen = r.gen /\ Id(r).seq = r.seq
           /\ Id(r).channel = r.channel /\ Id(r).fireAt = r.fireAt
BY DEF Rows, RowIds, Id

LEMMA ChannelType == \A e : ChannelOf(e) \in {"TMS_NP", "TMS_PROD"}
BY Zenon DEF ChannelOf

LEMMA StageType ==
    ASSUME NEW plan \in Plans
    PROVE  /\ DOMAIN plan \subseteq Nat \ {0}
           /\ \A i \in DOMAIN plan : plan[i] \in StageSet
<1>1. plan \in Seq(StageSet)
  BY NotificationsAssumption DEF NotificationsAssumption, StageSet
<1>2. DOMAIN plan = 1 .. Len(plan) /\ Len(plan) \in Nat
  BY <1>1, LenProperties
<1>3. \A i \in 1 .. Len(plan) : plan[i] \in StageSet
  BY <1>1, ElementOfSeq
<1> QED BY <1>2, <1>3

LEMMA WindowsType ==
    ASSUME NEW st \in StageSet
    PROVE  Windows(st) \subseteq Int
<1>1. \A d \in {HOUR, DAY, WEEK, 2 * WEEK} : d \in Int
  BY NotificationsAssumption DEF NotificationsAssumption
<1>2. Advances(st.env) \subseteq {HOUR, DAY, WEEK, 2 * WEEK}
  BY DEF Advances
<1>3. st.startAt \in Int
  BY DEF StageSet
<1> QED BY <1>1, <1>2, <1>3 DEF Windows

\* The schedule of a plan is made of items, one of them for every window ahead, and
\* all of them announce their stage.
LEMMA ScheduleItems ==
    ASSUME NEW plan \in Plans, NEW t \in Int
    PROVE  /\ Schedule(plan, t) \subseteq Items
           /\ \A j \in Schedule(plan, t) : j.seq \in DOMAIN plan /\ Announces(j, plan[j.seq])
           /\ \A i \in DOMAIN plan : \A f \in Windows(plan[i]) : f > t =>
                 \E j \in Schedule(plan, t) : j.seq = i /\ j.fireAt = f
<1>0. SECOND \in Nat \ {0}
  BY NotificationsAssumption DEF NotificationsAssumption
<1>1. ASSUME NEW i \in DOMAIN plan
      PROVE  /\ i \in Nat \ {0} /\ plan[i] \in StageSet /\ Windows(plan[i]) \subseteq Int
             /\ FireTimes(plan[i], t) \subseteq Int
             /\ \A f \in FireTimes(plan[i], t) :
                   f \in Windows(plan[i]) \/ \A g \in Windows(plan[i]) : g < f
             /\ \A f \in Windows(plan[i]) : f > t => f \in FireTimes(plan[i], t)
  <2>1. i \in Nat \ {0} /\ plan[i] \in StageSet /\ Windows(plan[i]) \subseteq Int
    BY StageType, WindowsType
  <2> QED BY <1>0, <2>1 DEF FireTimes
<1>2. ASSUME NEW j \in Schedule(plan, t)
      PROVE  j \in Items /\ j.seq \in DOMAIN plan /\ Announces(j, plan[j.seq])
  <2>1. PICK i \in DOMAIN plan : \E f \in FireTimes(plan[i], t) :
          j = [seq |-> i, channel |-> ChannelOf(plan[i].env), fireAt |-> f]
    BY DEF Schedule
  <2>2. PICK f \in FireTimes(plan[i], t) :
          j = [seq |-> i, channel |-> ChannelOf(plan[i].env), fireAt |-> f]
    BY <2>1
  <2>3. j.seq = i /\ j.channel = ChannelOf(plan[i].env) /\ j.fireAt = f
    BY <2>2
  <2>4. Announces(j, plan[i])
    BY <1>1, <2>3 DEF Announces
  <2>5. j \in Items
    BY <1>1, <2>2, ChannelType DEF Items
  <2> QED BY <2>3, <2>4, <2>5
<1>3. ASSUME NEW i \in DOMAIN plan, NEW f \in Windows(plan[i]), f > t
      PROVE  \E j \in Schedule(plan, t) : j.seq = i /\ j.fireAt = f
  <2> DEFINE j == [seq |-> i, channel |-> ChannelOf(plan[i].env), fireAt |-> f]
  <2>1. f \in FireTimes(plan[i], t)
    BY <1>1, <1>3
  <2>2. j \in Schedule(plan, t)
    BY <2>1 DEF Schedule
  <2> QED BY <2>2
<1> QED BY <1>2, <1>3

LEMMA InsertedRows ==
    ASSUME gen \in Nat, NEW K, NEW J \in SUBSET Items
    PROVE  \A r \in Inserted(K, J) :
              /\ r \in Rows /\ ~r.sent /\ r.attempts = 0 /\ r.gen = gen + 1
              /\ Key(r) \in J
<1> SUFFICES ASSUME NEW r \in Inserted(K, J)
             PROVE  /\ r \in Rows /\ ~r.sent /\ r.attempts = 0 /\ r.gen = gen + 1
                    /\ Key(r) \in J
  OBVIOUS
<1>1. PICK j \in J : r = [gen |-> gen + 1, seq |-> j.seq, channel |-> j.channel,
                          fireAt |-> j.fireAt, sent |-> FALSE, attempts |-> 0]
  BY DEF Inserted
<1>2. j \in Items /\ 0 \in 0 .. notifyMaxAttempts
  BY NotificationsAssumption DEF NotificationsAssumption
<1>3. Key(r) = j
  BY <1>1, <1>2 DEF Key, Items
<1> QED BY <1>1, <1>2, <1>3 DEF Rows, Items

LEMMA MarkedRow ==
    ASSUME NEW r \in Rows, ~r.sent, r.attempts < notifyMaxAttempts, NEW ok \in BOOLEAN
    PROVE  /\ Marked(r, ok) \in Rows /\ Id(Marked(r, ok)) = Id(r)
           /\ ok => Marked(r, ok).sent
           /\ ~ok => Marked(r, ok).attempts = r.attempts + 1
           /\ ~Marked(r, ok).sent => Marked(r, ok).attempts < notifyMaxAttempts
           /\ Marked(r, ok).fireAt = r.fireAt /\ Marked(r, ok).seq = r.seq
           /\ Marked(r, ok).channel = r.channel
<1>1. notifyMaxAttempts \in Nat /\ r.attempts \in Nat /\ r.attempts + 1 \in 0 .. notifyMaxAttempts
  BY NotificationsAssumption DEF NotificationsAssumption, Rows
<1>2. CASE ok
  BY <1>1, <1>2 DEF Marked, Rows, Id
<1>3. CASE ~ok
  <2> DEFINE n == r.attempts + 1
             b == r.attempts + 1 >= notifyMaxAttempts
             m == [r EXCEPT !.attempts = n, !.sent = b]
  <2>1. Marked(r, ok) = m
    BY <1>3 DEF Marked
  <2>2. b \in BOOLEAN /\ (~b => n < notifyMaxAttempts) /\ n \in 0 .. notifyMaxAttempts
    BY <1>1
  <2> HIDE DEF b, n
  <2>3. /\ m \in Rows /\ m.gen = r.gen /\ m.seq = r.seq /\ m.channel = r.channel /\ m.fireAt = r.fireAt
        /\ m.attempts = n /\ m.sent = b
    BY <2>2 DEF Rows
  <2> HIDE DEF m
  <2>4. Id(m) = Id(r)
    BY <2>3 DEF Id
  <2> QED BY <1>3, <2>1, <2>2, <2>3, <2>4 DEF n
<1> QED BY <1>2, <1>3

\* The update of the current row: it is recorded, or lost with a fault.
LEMMA MarkRows ==
    ASSUME Types, Mark
    PROVE  /\ cur.at = "mark" /\ cur.row \in RowIds /\ cur.ok \in BOOLEAN /\ cur' = Idle
           /\ UNCHANGED <<now, handlerVars, batch, log>>
           /\ \/ Fault /\ UNCHANGED rows
              \/ /\ UNCHANGED faults
                 /\ \A s \in rows' : \E r \in rows :
                       \/ s = r /\ (Id(r) # cur.row \/ r.sent)
                       \/ Id(r) = cur.row /\ ~r.sent /\ s = Marked(r, cur.ok)
                 /\ \A r \in rows : Id(r) # cur.row \/ r.sent => r \in rows'
<1>1. cur.at = "mark" /\ cur' = Idle /\ UNCHANGED <<now, handlerVars, batch, log>>
  BY DEF Mark
<1>2. cur.row \in RowIds /\ cur.ok \in BOOLEAN
  BY <1>1 DEF Types, DispatchInv, Idle
<1>3. CASE Fault /\ UNCHANGED rows
  BY <1>1, <1>2, <1>3
<1>4. CASE /\ rows' = {IF Id(r) = cur.row /\ ~r.sent THEN Marked(r, cur.ok) ELSE r : r \in rows}
           /\ UNCHANGED faults
  <2>1. \A s \in rows' : \E r \in rows :
                       \/ s = r /\ (Id(r) # cur.row \/ r.sent)
                       \/ Id(r) = cur.row /\ ~r.sent /\ s = Marked(r, cur.ok)
    BY <1>4
  <2>2. ASSUME NEW r \in rows, Id(r) # cur.row \/ r.sent PROVE r \in rows'
    <3>1. r = IF Id(r) = cur.row /\ ~r.sent THEN Marked(r, cur.ok) ELSE r
      BY <2>2
    <3> QED BY <1>4, <3>1
  <2> QED BY <1>1, <1>2, <1>4, <2>1, <2>2
<1> QED BY <1>3, <1>4 DEF Mark

\* The rows after a commit: those that are sent or were not deleted, and fresh ones.
LEMMA CommitRows ==
    ASSUME Types, NEW q \in Requests, TxCommit(q)
    PROVE  \/ UNCHANGED <<rows, gen>>
           \/ /\ stages # NoPlan /\ gen' = gen + 1 /\ UNCHANGED faults
              /\ rows' = Kept(q) \union Inserted(Kept(q), items[q])
              /\ Kept(q) \subseteq rows /\ items[q] \subseteq Items
BY DEF TxCommit, Kept, Types, QueueInv

LEMMA RowsStep ==
    ASSUME Types, [Next]_vars
    PROVE  rows' \subseteq Rows /\ (\A r \in Unsent : r.attempts < notifyMaxAttempts)' /\ gen' \in Nat
<1>0. rows \subseteq Rows /\ (\A r \in rows : ~r.sent => r.attempts < notifyMaxAttempts) /\ gen \in Nat
  BY DEF Types, QueueInv, Unsent
<1>1. ASSUME rows' \subseteq rows, UNCHANGED gen
      PROVE  rows' \subseteq Rows /\ (\A r \in Unsent : r.attempts < notifyMaxAttempts)' /\ gen' \in Nat
  BY <1>0, <1>1 DEF Unsent
<1>2. ASSUME NEW q \in Requests, TxCommit(q)
      PROVE  rows' \subseteq Rows /\ (\A r \in Unsent : r.attempts < notifyMaxAttempts)' /\ gen' \in Nat
  <2>1. CASE UNCHANGED <<rows, gen>>
    BY <1>1, <2>1
  <2>2. CASE /\ gen' = gen + 1 /\ rows' = Kept(q) \union Inserted(Kept(q), items[q])
             /\ Kept(q) \subseteq rows /\ items[q] \subseteq Items
    <3>1. \A r \in Inserted(Kept(q), items[q]) : r \in Rows /\ r.attempts = 0
      BY <1>0, <2>2, InsertedRows
    <3>2. 0 < notifyMaxAttempts
      BY NotificationsAssumption DEF NotificationsAssumption
    <3> QED BY <1>0, <2>2, <3>1, <3>2 DEF Unsent
  <2> QED BY <1>2, <2>1, <2>2, CommitRows
<1>3. ASSUME NEW q \in Requests, Handler(q), ~TxCommit(q) PROVE rows' \subseteq rows /\ UNCHANGED gen
  BY <1>3 DEF Handler, Save, Compute, TxDelete, Delete
<1>4. CASE Mark
  <2>1. UNCHANGED gen
    BY <1>4 DEF Mark, handlerVars
  <2>2. CASE UNCHANGED rows
    BY <1>1, <2>1, <2>2
  <2>3. CASE \A s \in rows' : \E r \in rows : s = r \/ (~r.sent /\ s = Marked(r, cur.ok))
    <3>1. cur.ok \in BOOLEAN
      BY <1>4, MarkRows
    <3>2. ASSUME NEW s \in rows' PROVE s \in Rows /\ (~s.sent => s.attempts < notifyMaxAttempts)
      <4>1. PICK r \in rows : s = r \/ (~r.sent /\ s = Marked(r, cur.ok))
        BY <2>3
      <4>2. r \in Rows /\ (~r.sent => r.attempts < notifyMaxAttempts)
        BY <1>0
      <4> QED BY <3>1, <4>1, <4>2, MarkedRow
    <3> QED BY <1>0, <2>1, <3>2 DEF Unsent
  <2> QED BY <1>4, <2>2, <2>3, MarkRows
<1>5. CASE Advance \/ Fetch \/ Load \/ Post \/ Crash \/ UNCHANGED vars
  <2>1. UNCHANGED <<rows, gen>>
    BY <1>5 DEF Advance, Fetch, Load, Post, Crash, vars, handlerVars
  <2> QED BY <1>1, <2>1
<1> QED BY <1>1, <1>2, <1>3, <1>4, <1>5 DEF Next, Dispatcher

LEMMA HandlerTypes ==
    ASSUME Types, [Next]_vars
    PROVE  ClockInv' /\ QueueInv'
<1>0. rows' \subseteq Rows /\ (\A r \in Unsent : r.attempts < notifyMaxAttempts)' /\ gen' \in Nat
  BY RowsStep
<1> DEFINE T == /\ now' \in 0 .. MaxTime /\ faults' \in 0 .. MaxFaults
                /\ stages' \in Plans \union {NoPlan}
                /\ pc' \in [Requests -> {"idle", "saved", "computed", "deleted"}]
                /\ items' \in [Requests -> SUBSET Items]
                /\ dels' \in [Requests -> SUBSET RowIds]
                /\ waits' \in [Requests -> SUBSET Requests]
<1> SUFFICES T
  BY <1>0 DEF ClockInv, QueueInv
<1>1. /\ now \in Nat /\ faults \in Nat /\ MaxFaults \in Nat /\ MaxTime \in Nat
      /\ now \in 0 .. MaxTime /\ faults \in 0 .. MaxFaults
      /\ stages \in Plans \union {NoPlan}
      /\ pc \in [Requests -> {"idle", "saved", "computed", "deleted"}]
      /\ items \in [Requests -> SUBSET Items]
      /\ dels \in [Requests -> SUBSET RowIds]
      /\ waits \in [Requests -> SUBSET Requests]
  BY NotificationsAssumption DEF Types, ClockInv, QueueInv, NotificationsAssumption
<1>2. Fault => faults' \in 0 .. MaxFaults
  BY <1>1 DEF Fault
<1>3. ASSUME NEW q \in Requests, Compute(q) PROVE T
  <2>1. stages # NoPlan => Schedule(stages, now) \subseteq Items
    BY <1>1, ScheduleItems
  <2>2. items' \in [Requests -> SUBSET Items]
    BY <1>1, <1>3, <2>1 DEF Compute
  <2> QED BY <1>1, <1>2, <1>3, <2>2 DEF Compute
<1>4. ASSUME NEW q \in Requests, TxDelete(q) PROVE T
  <2>1. Ids(Unsent) \subseteq RowIds
    BY IdType DEF Ids, Unsent, Types, QueueInv
  <2> QED BY <1>1, <1>4, <2>1 DEF TxDelete
<1>5. ASSUME NEW q \in Requests, TxCommit(q) PROVE T
  <2>1. UNCHANGED <<now, stages>> /\ (UNCHANGED faults \/ Fault)
    BY <1>5 DEF TxCommit
  <2>2. TxDone(q)
    BY <1>5 DEF TxCommit
  <2> QED BY <1>1, <1>2, <2>1, <2>2 DEF TxDone
<1>6. ASSUME NEW q \in Requests, Save(q) \/ Delete(q) PROVE T
  BY <1>1, <1>6 DEF Save, Delete
<1>7. CASE Crash
  BY <1>1, <1>2, <1>7 DEF Crash
<1>8. CASE Dispatcher \/ UNCHANGED vars
  <2>1. UNCHANGED <<now, handlerVars>> /\ (UNCHANGED faults \/ Fault)
    BY <1>8 DEF Dispatcher, Fetch, Load, Post, Mark, vars
  <2> QED BY <1>1, <1>2, <2>1 DEF handlerVars
<1>9. CASE Advance
  BY <1>1, <1>9 DEF Advance, handlerVars
<1> QED BY <1>3, <1>4, <1>5, <1>6, <1>7, <1>8, <1>9 DEF Next, Handler

LEMMA PostsFinite ==
    ASSUME Types, NEW x
    PROVE  /\ IsFiniteSet(Posts(x)) /\ Cardinality(Posts(x)) \in Nat
           /\ IsFiniteSet(Acknowledged(x)) /\ Cardinality(Acknowledged(x)) \in Nat
<1>1. Posts(x) \subseteq log /\ Acknowledged(x) \subseteq log /\ IsFiniteSet(log)
  BY DEF Posts, Acknowledged, Types, DispatchInv
<1> QED BY <1>1, FS_Subset, FS_CardinalityType

LEMMA DispatchTypes ==
    ASSUME Types, [Next]_vars
    PROVE  DispatchInv'
<1>1. ASSUME UNCHANGED dispatchVars PROVE DispatchInv'
  BY <1>1 DEF Types, DispatchInv, dispatchVars
<1>2. CASE Fetch
  <2>1. Ids(Due) \subseteq RowIds
    BY IdType DEF Ids, Due, Types, QueueInv
  <2>2. batch' \subseteq Ids(Due) /\ UNCHANGED <<cur, log>>
    BY <1>2 DEF Fetch, Ids
  <2> QED BY <2>1, <2>2 DEF Types, DispatchInv
<1>3. CASE Load
  <2>1. PICK n \in batch :
          /\ batch' = batch \ {n}
          /\ \/ HasStage(n.seq) /\ cur' = [at |-> "post", row |-> n, stage |-> stages[n.seq]]
             \/ cur' = [at |-> "mark", row |-> n, ok |-> FALSE]
    BY <1>3 DEF Load
  <2>2. n \in RowIds
    BY DEF Types, DispatchInv
  <2>3. HasStage(n.seq) => stages[n.seq] \in StageSet
    BY StageType DEF HasStage, Types, QueueInv
  <2>4. \/ cur' \in [at : {"post"}, row : RowIds, stage : StageSet]
        \/ cur' \in [at : {"mark"}, row : RowIds, ok : BOOLEAN]
    <3>1. CASE HasStage(n.seq) /\ cur' = [at |-> "post", row |-> n, stage |-> stages[n.seq]]
      <4>1. stages[n.seq] \in StageSet
        BY <2>3, <3>1
      <4> DEFINE st == stages[n.seq]
      <4>2. cur' = [at |-> "post", row |-> n, stage |-> st] /\ st \in StageSet
        BY <3>1, <4>1
      <4> HIDE DEF st
      <4> QED BY <2>2, <4>2
    <3>2. CASE cur' = [at |-> "mark", row |-> n, ok |-> FALSE]
      BY <2>2, <3>2
    <3> QED BY <2>1, <3>1, <3>2
  <2>5. batch' \subseteq RowIds /\ UNCHANGED log
    BY <1>3, <2>1 DEF Types, DispatchInv, Load
  <2> QED BY <2>4, <2>5 DEF Types, DispatchInv
<1>4. CASE Post
  <2>1. cur \in [at : {"post"}, row : RowIds, stage : StageSet]
    BY <1>4 DEF Post, Types, DispatchInv, Idle
  <2>2. PICK o \in Outcomes :
          /\ cur' = [at |-> "mark", row |-> cur.row, ok |-> o = "ok"]
          /\ log' = log \union {[no |-> Cardinality(Posts(cur.row)) + 1,
                                 row |-> cur.row, stage |-> cur.stage, outcome |-> o]}
    BY <1>4 DEF Post
  <2> DEFINE m == [no |-> Cardinality(Posts(cur.row)) + 1, row |-> cur.row,
                   stage |-> cur.stage, outcome |-> o]
             b == o = "ok"
  <2>3. Cardinality(Posts(cur.row)) \in Nat
    BY PostsFinite
  <2>4. m \in Messages
    BY <2>1, <2>3, NotificationsAssumption DEF Messages, NotificationsAssumption
  <2>5. log' = log \union {m} /\ cur' = [at |-> "mark", row |-> cur.row, ok |-> b] /\ b \in BOOLEAN
    BY <2>2
  <2> HIDE DEF m, b
  <2>6. IsFiniteSet(log') /\ log' \subseteq Messages
    BY <2>4, <2>5, FS_AddElement DEF Types, DispatchInv
  <2>7. cur' \in [at : {"mark"}, row : RowIds, ok : BOOLEAN]
    BY <2>1, <2>5
  <2>8. UNCHANGED batch
    BY <1>4 DEF Post
  <2> QED BY <2>6, <2>7, <2>8 DEF Types, DispatchInv
<1>5. CASE Mark
  BY <1>5 DEF Mark, Types, DispatchInv
<1>6. CASE Crash
  BY <1>6 DEF Crash, Types, DispatchInv
<1>7. ASSUME NEW q \in Requests, Handler(q) PROVE UNCHANGED dispatchVars
  BY <1>7 DEF Handler, Save, Compute, TxDelete, TxCommit, Delete
<1>8. CASE Advance \/ UNCHANGED vars
  BY <1>1, <1>8 DEF Advance, vars
<1> QED BY <1>1, <1>2, <1>3, <1>4, <1>5, <1>6, <1>7, <1>8 DEF Next, Dispatcher

LEMMA TypesHold == Spec => []Types
<1>1. Init => Types
  BY NotificationsAssumption, FS_EmptySet
     DEF Init, Types, ClockInv, QueueInv, DispatchInv, Unsent, NotificationsAssumption
<1>2. Types /\ [Next]_vars => Types'
  BY HandlerTypes, DispatchTypes DEF Types
<1> QED BY <1>1, <1>2, PTL DEF Spec

LEMMA CountStep ==
    ASSUME Types, CountInv, [Next]_vars
    PROVE  CountInv'
<1>1. /\ IsFiniteSet(Active) /\ Cardinality(Active) \in Nat /\ gen \in Nat /\ edits \in Nat
      /\ edits <= MaxEdits /\ MaxEdits \in Nat /\ gen + Cardinality(Active) <= edits
      /\ pc \in [Requests -> {"idle", "saved", "computed", "deleted"}]
  BY FS_CardinalityType, NotificationsAssumption DEF CountInv, Types, QueueInv, NotificationsAssumption
<1>2. ASSUME UNCHANGED <<gen, edits, Active>> PROVE CountInv'
  BY <1>2 DEF CountInv
<1>3. ASSUME NEW q \in Requests, Save(q) PROVE CountInv'
  <2>1. Active' = Active \union {q} /\ q \notin Active
    BY <1>1, <1>3 DEF Save, Active
  <2>2. IsFiniteSet(Active') /\ Cardinality(Active') = Cardinality(Active) + 1
    BY <1>1, <2>1, FS_AddElement
  <2> QED BY <1>1, <1>3, <2>2 DEF Save, CountInv
<1>4. ASSUME NEW q \in Requests, pc[q] # "idle", pc' = [pc EXCEPT ![q] = "idle"], UNCHANGED edits,
             gen' = gen \/ gen' = gen + 1
      PROVE  CountInv'
  <2>1. Active' = Active \ {q} /\ q \in Active
    BY <1>1, <1>4 DEF Active
  <2>2. IsFiniteSet(Active') /\ Cardinality(Active') = Cardinality(Active) - 1
    BY <1>1, <2>1, FS_RemoveElement
  <2> QED BY <1>1, <1>4, <2>2 DEF CountInv
<1>5. ASSUME NEW q \in Requests, Compute(q) PROVE CountInv'
  <2>1. CASE pc' = [pc EXCEPT ![q] = "computed"]
    <3>1. Active' = Active
      BY <1>1, <1>5, <2>1 DEF Compute, Active
    <3> QED BY <1>2, <1>5, <3>1 DEF Compute
  <2>2. CASE pc' = [pc EXCEPT ![q] = "idle"]
    BY <1>4, <1>5, <2>2 DEF Compute
  <2> QED BY <1>5, <2>1, <2>2 DEF Compute
<1>6. ASSUME NEW q \in Requests, TxDelete(q) PROVE CountInv'
  <2>1. Active' = Active
    BY <1>1, <1>6 DEF TxDelete, Active
  <2> QED BY <1>2, <1>6, <2>1 DEF TxDelete
<1>7. ASSUME NEW q \in Requests, TxCommit(q) PROVE CountInv'
  BY <1>4, <1>7 DEF TxCommit, TxDone
<1>8. ASSUME NEW q \in Requests, Delete(q) PROVE CountInv'
  BY <1>2, <1>8 DEF Delete, Active
<1>9. CASE Crash
  <2>1. Active' = {}
    BY <1>9 DEF Crash, Active
  <2>2. UNCHANGED <<gen, edits>>
    BY <1>9 DEF Crash
  <2> QED BY <1>1, <2>1, <2>2, FS_EmptySet DEF CountInv
<1>10. CASE Advance \/ Dispatcher \/ UNCHANGED vars
  <2>1. UNCHANGED <<gen, edits, pc>>
    BY <1>10 DEF Advance, Dispatcher, Fetch, Load, Post, Mark, vars, handlerVars
  <2> QED BY <1>2, <2>1 DEF Active
<1> QED BY <1>3, <1>5, <1>6, <1>7, <1>8, <1>9, <1>10 DEF Next, Handler

\* Every variable has its type; in particular there are no more reschedules than saves,
\* and no row exceeds notifyMaxAttempts (scheduleNotifications, the queue's statements).
THEOREM NotificationsTypeCorrect == Spec => []TypeOK
<1>1. Init => CountInv
  <2> SUFFICES ASSUME Init PROVE CountInv
    OBVIOUS
  <2>1. Active = {}
    BY DEF Init, Active
  <2> QED BY <2>1, FS_EmptySet, NotificationsAssumption DEF Init, CountInv, NotificationsAssumption
<1>2. Types /\ CountInv /\ [Next]_vars => CountInv'
  BY CountStep
<1>3. Types /\ CountInv => TypeOK
  <2> SUFFICES ASSUME Types, CountInv PROVE TypeOK
    OBVIOUS
  <2>1. gen \in 0 .. edits /\ edits \in 0 .. MaxEdits
    BY FS_CardinalityType DEF Types, QueueInv, CountInv
  <2>2. Ids(rows) \subseteq RowIds /\ \A r \in rows : r.sent \in BOOLEAN /\ r.attempts \in 0 .. notifyMaxAttempts
    <3>1. \A r \in rows : r \in Rows
      BY DEF Types, QueueInv
    <3>2. \A r \in rows : r.sent \in BOOLEAN /\ r.attempts \in 0 .. notifyMaxAttempts
      BY <3>1 DEF Rows
    <3> QED BY <3>1, <3>2, IdType DEF Ids
  <2>3. cur.at \in {"idle", "post", "mark"}
    BY DEF Types, DispatchInv, Idle
  <2> QED BY <2>1, <2>2, <2>3 DEF Types, ClockInv, QueueInv, DispatchInv, TypeOK
<1> QED BY <1>1, <1>2, <1>3, TypesHold, PTL DEF Spec

-----------------------------------------------------------------------------
(* How often a row is posted *)

\* The facts about numbers that the steps below need.
LEMMA Numbers ==
    ASSUME Types
    PROVE  /\ faults \in Nat /\ gen \in Nat /\ notifyMaxAttempts \in Nat \ {0}
           /\ rows \subseteq Rows
           /\ \A r \in rows : r.attempts \in Nat /\ r.gen \in Nat /\ Id(r) \in RowIds /\ Id(r).gen = r.gen
           /\ \A x \in RowIds : x.gen \in Nat
           /\ \A x : Cardinality(Posts(x)) \in Nat /\ Cardinality(Acknowledged(x)) \in Nat
<1>1. faults \in Nat /\ gen \in Nat /\ notifyMaxAttempts \in Nat \ {0} /\ rows \subseteq Rows
  BY NotificationsAssumption DEF Types, ClockInv, QueueInv, NotificationsAssumption
<1>2. \A r \in Rows : r.attempts \in Nat /\ r.gen \in Nat
  BY <1>1 DEF Rows
<1>3. \A x \in RowIds : x.gen \in Nat
  BY DEF RowIds
<1>4. \A x : Cardinality(Posts(x)) \in Nat /\ Cardinality(Acknowledged(x)) \in Nat
  BY PostsFinite
<1>5. \A r \in rows : Id(r) \in RowIds /\ Id(r).gen = r.gen
  BY <1>1, IdType
<1> QED BY <1>1, <1>2, <1>3, <1>4, <1>5

LEMMA LogKept ==
    ASSUME UNCHANGED log, NEW x
    PROVE  Posts(x)' = Posts(x) /\ Acknowledged(x)' = Acknowledged(x)
BY DEF Posts, Acknowledged

\* Steps that only lose rows, or are a fault of someone else.
LEMMA RetryKept ==
    ASSUME Types, RetryInv, rows' \subseteq rows, UNCHANGED <<gen, batch, cur, log>>,
           faults' \in Nat, faults' >= faults
    PROVE  RetryInv'
<1>0. /\ faults \in Nat /\ gen \in Nat /\ notifyMaxAttempts \in Nat /\ \A r \in rows : r.attempts \in Nat
      /\ \A x : Cardinality(Posts(x)) \in Nat /\ Cardinality(Acknowledged(x)) \in Nat
  BY Numbers
<1>1. \A x : Posts(x)' = Posts(x) /\ Acknowledged(x)' = Acknowledged(x)
  BY LogKept
<1>2. IdInv' /\ OnceInv'
  BY DEF RetryInv, IdInv, OnceInv, Ids, Current
<1>3. LogInv'
  BY <1>1 DEF RetryInv, LogInv
<1>4. UnsentInv'
  BY <1>0, <1>1 DEF RetryInv, UnsentInv, Unsent, Marking
<1>5. WaitingInv'
  BY <1>0, <1>1 DEF RetryInv, WaitingInv, Waiting
<1>6. PostedInv'
  BY <1>0, <1>1 DEF RetryInv, PostedInv
<1> QED BY <1>2, <1>3, <1>4, <1>5, <1>6 DEF RetryInv

\* The dispatcher loses its work, with the record of what it did.
LEMMA RetryLost ==
    ASSUME Types, RetryInv, UNCHANGED <<rows, gen, log>>, batch' \subseteq batch, cur' = Idle,
           faults' = faults + 1
    PROVE  RetryInv'
<1>0. /\ faults \in Nat /\ gen \in Nat /\ notifyMaxAttempts \in Nat /\ \A r \in rows : r.attempts \in Nat
      /\ \A x : Cardinality(Posts(x)) \in Nat /\ Cardinality(Acknowledged(x)) \in Nat
  BY Numbers
<1>1. \A x : Posts(x)' = Posts(x) /\ Acknowledged(x)' = Acknowledged(x)
  BY LogKept
<1>2. cur'.at = "idle"
  BY DEF Idle
<1>3. IdInv' /\ OnceInv'
  BY <1>2 DEF RetryInv, IdInv, OnceInv, Ids, Current
<1>4. LogInv'
  BY <1>1 DEF RetryInv, LogInv
<1>5. UnsentInv'
  BY <1>0, <1>1, <1>2 DEF RetryInv, UnsentInv, Unsent, Marking
<1>6. WaitingInv'
  BY <1>0, <1>1, <1>2 DEF RetryInv, WaitingInv, Waiting
<1>7. PostedInv'
  BY <1>0, <1>1 DEF RetryInv, PostedInv
<1> QED BY <1>3, <1>4, <1>5, <1>6, <1>7 DEF RetryInv

LEMMA CurrentType ==
    ASSUME Types
    PROVE  Current \subseteq RowIds
<1>1. CASE cur = Idle
  BY <1>1 DEF Current, Idle
<1>2. CASE cur \in [at : {"post"}, row : RowIds, stage : StageSet]
  BY <1>2 DEF Current
<1>3. CASE cur \in [at : {"mark"}, row : RowIds, ok : BOOLEAN]
  BY <1>3 DEF Current
<1> QED BY <1>1, <1>2, <1>3 DEF Types, DispatchInv

LEMMA InsertedUnique ==
    ASSUME NEW K, NEW J, NEW r \in Inserted(K, J), NEW s \in Inserted(K, J), Id(r) = Id(s)
    PROVE  r = s
<1>1. PICK i \in J : r = [gen |-> gen + 1, seq |-> i.seq, channel |-> i.channel,
                          fireAt |-> i.fireAt, sent |-> FALSE, attempts |-> 0]
  BY DEF Inserted
<1>2. PICK j \in J : s = [gen |-> gen + 1, seq |-> j.seq, channel |-> j.channel,
                          fireAt |-> j.fireAt, sent |-> FALSE, attempts |-> 0]
  BY DEF Inserted
<1>3. i.seq = j.seq /\ i.channel = j.channel /\ i.fireAt = j.fireAt
  BY <1>1, <1>2 DEF Id
<1> QED BY <1>1, <1>2, <1>3

LEMMA RetryCommit ==
    ASSUME Types, RetryInv, NEW q \in Requests, TxCommit(q)
    PROVE  RetryInv'
<1>0. /\ faults \in Nat /\ gen \in Nat /\ notifyMaxAttempts \in Nat \ {0}
      /\ \A r \in rows : r.attempts \in Nat /\ r.gen \in Nat /\ Id(r).gen = r.gen /\ Id(r) \in RowIds
      /\ \A x : Cardinality(Posts(x)) \in Nat /\ Cardinality(Acknowledged(x)) \in Nat
      /\ \A x \in RowIds : x.gen \in Nat
  BY Numbers
<1>1. CASE UNCHANGED <<rows, gen>>
  <2>1. UNCHANGED <<batch, cur, log>> /\ faults' \in Nat /\ faults' >= faults
    BY <1>0 DEF TxCommit, Fault, dispatchVars
  <2> QED BY <1>1, <2>1, RetryKept
<1>2. CASE /\ gen' = gen + 1 /\ UNCHANGED faults
           /\ rows' = Kept(q) \union Inserted(Kept(q), items[q])
           /\ Kept(q) \subseteq rows /\ items[q] \subseteq Items
  <2> DEFINE N == Inserted(Kept(q), items[q])
  <2>1. UNCHANGED <<batch, cur, log>>
    BY DEF TxCommit, dispatchVars
  <2>2. \A x : Posts(x)' = Posts(x) /\ Acknowledged(x)' = Acknowledged(x)
    BY <2>1, LogKept
  <2>3. \A r \in N : r \in Rows /\ r.attempts = 0 /\ r.gen = gen + 1 /\ Id(r).gen = gen + 1
    BY <1>0, <1>2, InsertedRows, IdType
  <2>4. \A r, s \in N : Id(r) = Id(s) => r = s
    BY InsertedUnique
  <2>5. /\ \A r \in rows : Id(r).gen <= gen
        /\ \A x \in batch \union Current : x.gen <= gen /\ x \in RowIds
        /\ \A m \in log : m.row.gen <= gen /\ m.row \in RowIds
    <3>1. \A r \in rows : Id(r).gen <= gen
      BY DEF RetryInv, IdInv, Ids
    <3>2. \A x \in batch \union Current : x.gen <= gen
      BY DEF RetryInv, IdInv
    <3>3. batch \union Current \subseteq RowIds
      BY CurrentType DEF Types, DispatchInv
    <3>4. \A m \in log : m.row.gen <= gen
      BY DEF RetryInv, IdInv
    <3>5. \A m \in log : m.row \in RowIds
      BY DEF Types, DispatchInv, Messages
    <3> QED BY <3>1, <3>2, <3>3, <3>4, <3>5
  <2> HIDE DEF N
  <2>6. IdInv'
    <3>1. ASSUME NEW r \in rows', NEW s \in rows', Id(r) = Id(s) PROVE r = s
      BY <1>0, <1>2, <2>3, <2>4, <2>5, <3>1 DEF RetryInv, IdInv, N
    <3>2. \A r \in rows' : Id(r).gen <= gen'
      BY <1>0, <1>2, <2>3, <2>5 DEF N
    <3>3. \A x \in (batch \union Current)' : x.gen <= gen'
      BY <1>0, <1>2, <2>1, <2>5 DEF Current
    <3>4. \A m \in log' : m.row.gen <= gen'
      BY <1>0, <1>2, <2>1, <2>5
    <3> QED BY <3>1, <3>2, <3>3, <3>4 DEF IdInv, Ids
  <2>7. OnceInv' /\ LogInv' /\ PostedInv' /\ WaitingInv'
    BY <1>2, <2>1, <2>2 DEF RetryInv, OnceInv, LogInv, PostedInv, WaitingInv, Waiting, Current
  <2>8. ASSUME NEW r \in N PROVE Posts(Id(r)) = {} /\ Acknowledged(Id(r)) = {}
    BY <1>0, <2>3, <2>5 DEF Posts, Acknowledged
  <2>9. UnsentInv'
    <3> SUFFICES ASSUME NEW r \in rows', ~r.sent
                 PROVE  /\ Cardinality(Posts(Id(r))) <= r.attempts + faults + (IF Marking(Id(r)) THEN 1 ELSE 0)
                        /\ Cardinality(Acknowledged(Id(r))) <= faults + (IF Marking(Id(r)) /\ cur.ok THEN 1 ELSE 0)
      BY <1>2, <2>1, <2>2 DEF UnsentInv, Unsent, Marking
    <3>1. CASE r \in N
      BY <1>0, <2>3, <2>8, <3>1, FS_EmptySet
    <3>2. CASE r \in rows
      BY <3>2 DEF RetryInv, UnsentInv, Unsent
    <3> QED BY <1>2, <3>1, <3>2 DEF N
  <2> QED BY <2>6, <2>7, <2>9 DEF RetryInv
<1> QED BY <1>1, <1>2, CommitRows

LEMMA RetryFetch ==
    ASSUME Types, RetryInv, Fetch
    PROVE  RetryInv'
<1>0. /\ faults \in Nat /\ gen \in Nat /\ notifyMaxAttempts \in Nat /\ \A r \in rows : r.attempts \in Nat
      /\ \A x : Cardinality(Posts(x)) \in Nat /\ Cardinality(Acknowledged(x)) \in Nat
  BY Numbers
<1>1. /\ UNCHANGED <<rows, gen, faults, cur, log>> /\ cur.at = "idle"
      /\ \A x \in batch' : \E r \in rows : ~r.sent /\ x = Id(r)
  BY DEF Fetch, Ids, Due, Idle, handlerVars
<1>2. \A x : Posts(x)' = Posts(x) /\ Acknowledged(x)' = Acknowledged(x)
  BY <1>1, LogKept
<1>3. IdInv' /\ OnceInv'
  BY <1>1 DEF RetryInv, IdInv, OnceInv, Ids, Current
<1>4. LogInv' /\ PostedInv' /\ UnsentInv'
  BY <1>1, <1>2 DEF RetryInv, LogInv, PostedInv, UnsentInv, Unsent, Marking
<1>5. WaitingInv'
  <2> SUFFICES ASSUME NEW x \in batch'
               PROVE  /\ Cardinality(Posts(x)) < notifyMaxAttempts + faults
                      /\ Cardinality(Acknowledged(x)) <= faults
    BY <1>1, <1>2 DEF WaitingInv, Waiting
  <2>1. PICK r \in rows : ~r.sent /\ x = Id(r)
    BY <1>1
  <2>2. r.attempts < notifyMaxAttempts
    BY <2>1 DEF Types, QueueInv, Unsent
  <2>3. Cardinality(Posts(x)) <= r.attempts + faults /\ Cardinality(Acknowledged(x)) <= faults
    BY <1>0, <1>1, <2>1 DEF RetryInv, UnsentInv, Unsent, Marking
  <2> QED BY <1>0, <2>2, <2>3
<1> QED BY <1>3, <1>4, <1>5 DEF RetryInv

LEMMA RetryLoad ==
    ASSUME Types, RetryInv, Load
    PROVE  RetryInv'
<1>0. /\ faults \in Nat /\ gen \in Nat /\ notifyMaxAttempts \in Nat /\ \A r \in rows : r.attempts \in Nat
      /\ \A x : Cardinality(Posts(x)) \in Nat /\ Cardinality(Acknowledged(x)) \in Nat
  BY Numbers
<1>1. PICK n \in batch : batch' = batch \ {n} /\ cur'.at \in {"post", "mark"} /\ cur'.row = n
                         /\ (cur'.at = "mark" => ~cur'.ok)
  BY DEF Load
<1>2. UNCHANGED <<rows, gen, log>> /\ cur.at = "idle" /\ faults' \in Nat /\ faults' >= faults
  BY <1>0 DEF Load, Idle, Fault, handlerVars
<1>3. \A x : Posts(x)' = Posts(x) /\ Acknowledged(x)' = Acknowledged(x)
  BY <1>2, LogKept
<1>4. IdInv' /\ OnceInv'
  BY <1>1, <1>2 DEF RetryInv, IdInv, OnceInv, Ids, Current
<1>5. LogInv'
  BY <1>2, <1>3 DEF RetryInv, LogInv
<1>6. PostedInv'
  BY <1>0, <1>2, <1>3 DEF RetryInv, PostedInv
<1>7. UnsentInv'
  BY <1>0, <1>1, <1>2, <1>3 DEF RetryInv, UnsentInv, Unsent, Marking
<1>8. WaitingInv'
  BY <1>0, <1>1, <1>2, <1>3 DEF RetryInv, WaitingInv, Waiting
<1> QED BY <1>4, <1>5, <1>6, <1>7, <1>8 DEF RetryInv


\* What a POST adds to the log: one more message of the current row.
LEMMA PostCounts ==
    ASSUME Types, LogInv, Post
    PROVE  /\ cur.at = "post" /\ cur.row \in RowIds
           /\ cur'.at = "mark" /\ cur'.row = cur.row /\ cur'.ok \in BOOLEAN
           /\ \A y : y # cur.row => Posts(y)' = Posts(y) /\ Acknowledged(y)' = Acknowledged(y)
           /\ Cardinality(Posts(cur.row)') = Cardinality(Posts(cur.row)) + 1
           /\ Cardinality(Acknowledged(cur.row)') =
                Cardinality(Acknowledged(cur.row)) + (IF cur'.ok THEN 1 ELSE 0)
           /\ \A m \in log' : m \in log \/ (m.row = cur.row /\ m.no = Cardinality(Posts(cur.row)) + 1)
<1> DEFINE x == cur.row
           c == Cardinality(Posts(x))
<1>1. cur.at = "post" /\ x \in RowIds
  BY DEF Post, Types, DispatchInv, Idle
<1>2. PICK o \in Outcomes :
        /\ cur' = [at |-> "mark", row |-> cur.row, ok |-> o = "ok"]
        /\ log' = log \union {[no |-> c + 1, row |-> x, stage |-> cur.stage, outcome |-> o]}
  BY DEF Post
<1> DEFINE m == [no |-> c + 1, row |-> x, stage |-> cur.stage, outcome |-> o]
           b == o = "ok"
<1>3. /\ cur' = [at |-> "mark", row |-> x, ok |-> b] /\ log' = log \union {m}
      /\ b \in BOOLEAN /\ m.row = x /\ m.no = c + 1 /\ (m.outcome = "ok" <=> b)
  BY <1>2
<1> HIDE DEF m, b
<1>4. cur'.at = "mark" /\ cur'.row = x /\ cur'.ok = b
  BY <1>3
<1>5. /\ IsFiniteSet(Posts(x)) /\ IsFiniteSet(Acknowledged(x))
      /\ c \in Nat /\ Cardinality(Acknowledged(x)) \in Nat
  BY PostsFinite
<1>6. m \notin log
  <2>1. ASSUME m \in log PROVE FALSE
    <3>1. m.no <= Cardinality(Posts(m.row))
      BY <2>1 DEF LogInv
    <3> QED BY <1>3, <1>5, <3>1
  <2> QED BY <2>1
<1>7. ASSUME NEW y, y # x PROVE Posts(y)' = Posts(y) /\ Acknowledged(y)' = Acknowledged(y)
  <2>1. Posts(y)' = Posts(y)
    BY <1>3, <1>7 DEF Posts
  <2> QED BY <2>1 DEF Acknowledged
<1>8. Posts(x)' = Posts(x) \union {m} /\ m \notin Posts(x)
  <2>1. {k \in log' : k.row = x} = {k \in log : k.row = x} \union {m}
    BY <1>3
  <2>2. Posts(x)' = {k \in log' : k.row = x}
    BY <1>4 DEF Posts
  <2> QED BY <1>6, <2>1, <2>2 DEF Posts
<1>9. Cardinality(Posts(x)') = c + 1
  BY <1>5, <1>8, FS_AddElement
<1>10. Cardinality(Acknowledged(x)') = Cardinality(Acknowledged(x)) + (IF b THEN 1 ELSE 0)
  <2>1. Acknowledged(x)' = {k \in Posts(x)' : k.outcome = "ok"}
    BY DEF Acknowledged
  <2>2. CASE b
    <3>1. Acknowledged(x)' = Acknowledged(x) \union {m} /\ m \notin Acknowledged(x)
      BY <1>3, <1>8, <2>1, <2>2 DEF Acknowledged
    <3> QED BY <1>5, <2>2, <3>1, FS_AddElement
  <2>3. CASE ~b
    <3>1. Acknowledged(x)' = Acknowledged(x)
      BY <1>3, <1>8, <2>1, <2>3 DEF Acknowledged
    <3> QED BY <1>5, <2>3, <3>1
  <2> QED BY <2>2, <2>3
<1>11. \A k \in log' : k \in log \/ (k.row = x /\ k.no = c + 1)
  BY <1>3
<1> QED BY <1>1, <1>3, <1>4, <1>7, <1>9, <1>10, <1>11

LEMMA RetryPost ==
    ASSUME Types, RetryInv, Post
    PROVE  RetryInv'
<1> DEFINE x == cur.row
           P(y) == Cardinality(Posts(y))
           A(y) == Cardinality(Acknowledged(y))
<1>0. /\ faults \in Nat /\ gen \in Nat /\ notifyMaxAttempts \in Nat \ {0}
      /\ \A r \in rows : r.attempts \in Nat
      /\ \A y : P(y) \in Nat /\ A(y) \in Nat
  BY Numbers
<1>1. /\ cur.at = "post" /\ x \in RowIds
      /\ cur'.at = "mark" /\ cur'.row = x /\ cur'.ok \in BOOLEAN
      /\ \A y : y # x => Posts(y)' = Posts(y) /\ Acknowledged(y)' = Acknowledged(y)
      /\ P(x)' = P(x) + 1 /\ A(x)' = A(x) + (IF cur'.ok THEN 1 ELSE 0)
      /\ \A m \in log' : m \in log \/ (m.row = x /\ m.no = P(x) + 1)
  BY PostCounts DEF RetryInv
<1>2. UNCHANGED <<rows, gen, faults, batch>>
  BY DEF Post, handlerVars
<1>3. \A y : y # x => P(y)' = P(y) /\ A(y)' = A(y)
  BY <1>1
<1>4. P(x) < notifyMaxAttempts + faults /\ A(x) <= faults
  BY <1>1 DEF RetryInv, WaitingInv, Waiting
<1>5. x \notin batch
  BY <1>1 DEF RetryInv, OnceInv, Current
<1>6. Current' = {x} /\ Current = {x}
  BY <1>1 DEF Current
<1>7. IdInv' /\ OnceInv'
  BY <1>1, <1>2, <1>6 DEF RetryInv, IdInv, OnceInv, Ids
<1>8. \A y : (Cardinality(Posts(y)))' = IF y = x THEN P(x) + 1 ELSE P(y)
  <2>1. \A y : y = x => (Cardinality(Posts(y)))' = P(x)'
    BY <1>1
  <2> QED BY <1>1, <1>3, <2>1
<1>9. \A y : (Cardinality(Acknowledged(y)))' = IF y = x THEN A(x) + (IF cur'.ok THEN 1 ELSE 0) ELSE A(y)
  <2>1. \A y : y = x => (Cardinality(Acknowledged(y)))' = A(x)'
    BY <1>1
  <2> QED BY <1>1, <1>3, <2>1
<1>10. LogInv'
  <2> SUFFICES ASSUME NEW m \in log' PROVE m.no <= (Cardinality(Posts(m.row)))'
    BY DEF LogInv
  <2>1. CASE m \in log
    <3>1. m.no <= P(m.row) /\ m.no \in Nat
      BY <2>1 DEF RetryInv, LogInv, Types, DispatchInv, Messages
    <3> QED BY <1>0, <1>8, <3>1
  <2>2. CASE m.row = x /\ m.no = P(x) + 1
    BY <1>0, <1>8, <2>2
  <2> QED BY <1>1, <2>1, <2>2
<1>11. UnsentInv'
  <2> SUFFICES ASSUME NEW r \in rows, ~r.sent
               PROVE  /\ (Cardinality(Posts(Id(r))))' <= r.attempts + faults + (IF Id(r) = x THEN 1 ELSE 0)
                      /\ (Cardinality(Acknowledged(Id(r))))' <= faults + (IF Id(r) = x /\ cur'.ok THEN 1 ELSE 0)
    BY <1>1, <1>2 DEF UnsentInv, Unsent, Marking
  <2>1. P(Id(r)) <= r.attempts + faults /\ A(Id(r)) <= faults
    BY <1>0, <1>1 DEF RetryInv, UnsentInv, Unsent, Marking
  <2> QED BY <1>0, <1>1, <1>8, <1>9, <2>1
<1>12. WaitingInv'
  <2> SUFFICES ASSUME NEW y \in RowIds, y \in batch
               PROVE  /\ (Cardinality(Posts(y)))' < notifyMaxAttempts + faults
                      /\ (Cardinality(Acknowledged(y)))' <= faults
    BY <1>1, <1>2 DEF WaitingInv, Waiting
  <2>1. P(y) < notifyMaxAttempts + faults /\ A(y) <= faults
    BY DEF RetryInv, WaitingInv, Waiting
  <2> QED BY <1>5, <1>8, <1>9, <2>1
<1>13. PostedInv'
  <2> SUFFICES ASSUME NEW y \in RowIds
               PROVE  /\ (Cardinality(Posts(y)))' <= notifyMaxAttempts + faults
                      /\ (Cardinality(Acknowledged(y)))' <= 1 + faults
    BY <1>2 DEF PostedInv
  <2>1. P(y) <= notifyMaxAttempts + faults /\ A(y) <= 1 + faults
    BY DEF RetryInv, PostedInv
  <2> QED BY <1>0, <1>1, <1>4, <1>8, <1>9, <2>1
<1> QED BY <1>7, <1>10, <1>11, <1>12, <1>13 DEF RetryInv

LEMMA RetryMark ==
    ASSUME Types, RetryInv, Mark
    PROVE  RetryInv'
<1> DEFINE x == cur.row
<1>0. /\ faults \in Nat /\ gen \in Nat /\ notifyMaxAttempts \in Nat \ {0}
      /\ \A r \in rows : r \in Rows /\ r.attempts \in Nat /\ (~r.sent => r.attempts < notifyMaxAttempts)
      /\ \A y : Cardinality(Posts(y)) \in Nat /\ Cardinality(Acknowledged(y)) \in Nat
  BY Numbers DEF Types, QueueInv, Unsent
<1>1. /\ cur.at = "mark" /\ x \in RowIds /\ cur.ok \in BOOLEAN /\ cur' = Idle /\ cur'.at = "idle"
      /\ UNCHANGED <<gen, batch, log>>
  BY MarkRows DEF handlerVars, Idle
<1>2. CASE Fault /\ UNCHANGED rows
  BY <1>1, <1>2, RetryLost DEF Fault
<1>3. CASE /\ UNCHANGED faults
           /\ \A s \in rows' : \E r \in rows :
                 \/ s = r /\ (Id(r) # x \/ r.sent)
                 \/ Id(r) = x /\ ~r.sent /\ s = Marked(r, cur.ok)
  <2>1. \A y : Posts(y)' = Posts(y) /\ Acknowledged(y)' = Acknowledged(y)
    BY <1>1, LogKept
  <2>2. ASSUME NEW s \in rows'
        PROVE  \E r \in rows :
                  /\ Id(s) = Id(r)
                  /\ \/ s = r /\ (Id(r) # x \/ r.sent)
                     \/ /\ Id(r) = x /\ ~r.sent /\ s = Marked(r, cur.ok)
                        /\ (~s.sent => ~cur.ok /\ s.attempts = r.attempts + 1)
    <3>1. PICK r \in rows : \/ s = r /\ (Id(r) # x \/ r.sent)
                            \/ Id(r) = x /\ ~r.sent /\ s = Marked(r, cur.ok)
      BY <1>3
    <3>2. CASE s = r /\ (Id(r) # x \/ r.sent)
      BY <3>2
    <3>3. CASE Id(r) = x /\ ~r.sent /\ s = Marked(r, cur.ok)
      <4>1. /\ Id(s) = Id(r) /\ (cur.ok => s.sent) /\ (~cur.ok => s.attempts = r.attempts + 1)
        BY <1>0, <1>1, <3>3, MarkedRow
      <4> QED BY <3>3, <4>1
    <3> QED BY <3>1, <3>2, <3>3
  <2>3. \A r, s \in rows : Id(r) = Id(s) => r = s
    BY DEF RetryInv, IdInv
  <2>4. ASSUME NEW r \in rows', NEW s \in rows', Id(r) = Id(s) PROVE r = s
    BY <2>2, <2>3, <2>4
  <2>5. IdInv'
    <3>1. \A y \in Ids(rows)' : y \in Ids(rows)
      BY <2>2 DEF Ids
    <3>2. Current' = {}
      BY <1>1 DEF Current
    <3> QED BY <1>1, <2>4, <3>1, <3>2 DEF RetryInv, IdInv
  <2>6. OnceInv'
    BY <1>1 DEF OnceInv, Current
  <2>7. LogInv' /\ PostedInv'
    BY <1>1, <1>3, <2>1 DEF RetryInv, LogInv, PostedInv
  <2>8. WaitingInv'
    BY <1>1, <1>3, <2>1 DEF RetryInv, WaitingInv, Waiting
  <2>9. UnsentInv'
    <3> SUFFICES ASSUME NEW s \in rows', ~s.sent
                 PROVE  /\ Cardinality(Posts(Id(s))) <= s.attempts + faults
                        /\ Cardinality(Acknowledged(Id(s))) <= faults
      BY <1>0, <1>1, <1>3, <2>1, <2>2 DEF UnsentInv, Unsent, Marking
    <3>1. PICK r \in rows :
                  /\ Id(s) = Id(r)
                  /\ \/ s = r /\ (Id(r) # x \/ r.sent)
                     \/ /\ Id(r) = x /\ ~r.sent /\ s = Marked(r, cur.ok)
                        /\ (~s.sent => ~cur.ok /\ s.attempts = r.attempts + 1)
      BY <2>2
    <3>2. ~r.sent
      BY <3>1
    <3>3. /\ Cardinality(Posts(Id(r))) <= r.attempts + faults + (IF Id(r) = x THEN 1 ELSE 0)
          /\ Cardinality(Acknowledged(Id(r))) <= faults + (IF Id(r) = x /\ cur.ok THEN 1 ELSE 0)
      BY <1>1, <3>2 DEF RetryInv, UnsentInv, Unsent, Marking
    <3> QED BY <1>0, <3>1, <3>2, <3>3
  <2> QED BY <2>5, <2>6, <2>7, <2>8, <2>9 DEF RetryInv
<1> QED BY <1>2, <1>3, MarkRows

LEMMA RetryStep ==
    ASSUME Types, RetryInv, [Next]_vars
    PROVE  RetryInv'
<1>0. faults \in Nat
  BY Numbers
<1>1. ASSUME NEW q \in Requests, Handler(q) PROVE RetryInv'
  <2>1. CASE TxCommit(q)
    BY <2>1, RetryCommit
  <2>2. CASE Save(q) \/ Compute(q) \/ TxDelete(q) \/ Delete(q)
    <3>1. rows' \subseteq rows /\ UNCHANGED <<gen, batch, cur, log>>
      BY <2>2 DEF Save, Compute, TxDelete, Delete, dispatchVars
    <3>2. faults' \in Nat /\ faults' >= faults
      BY <1>0, <2>2 DEF Save, Compute, TxDelete, Delete, Fault
    <3> QED BY <3>1, <3>2, RetryKept
  <2> QED BY <1>1, <2>1, <2>2 DEF Handler
<1>2. CASE Crash
  BY <1>2, RetryLost DEF Crash, Fault
<1>3. CASE Advance \/ UNCHANGED vars
  <2>1. rows' \subseteq rows /\ UNCHANGED <<gen, batch, cur, log, faults>>
    BY <1>3 DEF Advance, vars, handlerVars, dispatchVars
  <2> QED BY <1>0, <2>1, RetryKept
<1> QED BY <1>1, <1>2, <1>3, RetryFetch, RetryLoad, RetryPost, RetryMark DEF Next, Dispatcher

LEMMA RetryHolds == Spec => []RetryInv
<1>1. Init => RetryInv
  <2> SUFFICES ASSUME Init PROVE RetryInv
    OBVIOUS
  <2>1. rows = {} /\ batch = {} /\ log = {} /\ cur.at = "idle" /\ faults = 0
    BY DEF Init, Idle
  <2>2. \A x : Posts(x) = {} /\ Acknowledged(x) = {}
    BY <2>1 DEF Posts, Acknowledged
  <2>3. \A x : Cardinality(Posts(x)) = 0 /\ Cardinality(Acknowledged(x)) = 0
    BY <2>2, FS_EmptySet
  <2>4. notifyMaxAttempts \in Nat \ {0}
    BY NotificationsAssumption DEF NotificationsAssumption
  <2> QED BY <2>1, <2>3, <2>4 DEF RetryInv, IdInv, OnceInv, LogInv, UnsentInv, WaitingInv, PostedInv,
                                 Current, Ids, Unsent, Waiting
<1>2. Types /\ RetryInv /\ [Next]_vars => RetryInv'
  BY RetryStep
<1> QED BY <1>1, <1>2, TypesHold, PTL DEF Spec

\* No row is posted more often than notifyMaxAttempts (notify/scheduler.go, the counter of
\* MarkNotificationSent), however ticks, reschedules and failures interleave; each fault
\* that loses a record adds at most one.
THEOREM NotificationsRetriesBounded == Spec => []RetriesBounded
<1>1. Types /\ RetryInv => RetriesBounded
  <2> SUFFICES ASSUME Types, RetryInv, NEW m \in log
               PROVE  Cardinality(Posts(m.row)) <= notifyMaxAttempts + faults
    BY DEF RetriesBounded
  <2>1. m.row \in RowIds
    BY DEF Types, DispatchInv, Messages
  <2> QED BY <2>1 DEF RetryInv, PostedInv
<1> QED BY <1>1, TypesHold, RetryHolds, PTL

\* A row of the queue that Teams has acknowledged is not posted again (the sent_at filter
\* of PendingNotifications and MarkNotificationSent), except once for each fault.  The
\* message may be: a reschedule between the POST and its record replaces the row by another.
THEOREM NotificationsAcknowledgedOnce == Spec => []AcknowledgedOnce
<1>1. Types /\ RetryInv => AcknowledgedOnce
  <2> SUFFICES ASSUME Types, RetryInv, NEW m \in log
               PROVE  Cardinality(Acknowledged(m.row)) <= 1 + faults
    BY DEF AcknowledgedOnce
  <2>1. m.row \in RowIds
    BY DEF Types, DispatchInv, Messages
  <2> QED BY <2>1 DEF RetryInv, PostedInv
<1> QED BY <1>1, TypesHold, RetryHolds, PTL

-----------------------------------------------------------------------------
(* The queue follows the plan, when one request edits at a time *)

Serial == (\A p, q \in Requests : p = q) /\ MaxFaults = 0

LEMMA NoFault ==
    ASSUME Types, MaxFaults = 0
    PROVE  ~Fault
BY DEF Types, ClockInv, Fault

LEMMA AnnouncesSame ==
    ASSUME NEW r, NEW s, NEW st, r.channel = s.channel, r.fireAt = s.fireAt, Announces(r, st)
    PROVE  Announces(s, st)
BY DEF Announces

\* Recording a row takes only that row, which is due, from the pending ones.
LEMMA MarkPending ==
    ASSUME Types, RetryInv, DueInv, MaxFaults = 0, Mark
    PROVE  /\ cur.row.fireAt <= now
           /\ \A s \in rows' : \E r \in rows :
                 /\ Id(s) = Id(r) /\ s.seq = r.seq /\ s.channel = r.channel /\ s.fireAt = r.fireAt
                 /\ s.sent => r.sent \/ Id(r) = cur.row
                 /\ ~s.sent => ~r.sent
           /\ \A r \in rows : Id(r) # cur.row => r \in rows'
<1>0. \A r \in rows : r \in Rows /\ (~r.sent => r.attempts < notifyMaxAttempts)
  BY DEF Types, QueueInv, Unsent
<1>1. /\ cur.at = "mark" /\ cur.row \in RowIds /\ cur.ok \in BOOLEAN
      /\ \A s \in rows' : \E r \in rows :
             \/ s = r /\ (Id(r) # cur.row \/ r.sent)
             \/ Id(r) = cur.row /\ ~r.sent /\ s = Marked(r, cur.ok)
      /\ \A r \in rows : Id(r) # cur.row \/ r.sent => r \in rows'
  BY MarkRows, NoFault
<1>2. cur.row.fireAt <= now
  BY <1>1 DEF DueInv, Current
<1>3. ASSUME NEW s \in rows'
      PROVE  \E r \in rows :
                 /\ Id(s) = Id(r) /\ s.seq = r.seq /\ s.channel = r.channel /\ s.fireAt = r.fireAt
                 /\ s.sent => r.sent \/ Id(r) = cur.row
                 /\ ~s.sent => ~r.sent
  <2>1. PICK r \in rows : \/ s = r /\ (Id(r) # cur.row \/ r.sent)
                          \/ Id(r) = cur.row /\ ~r.sent /\ s = Marked(r, cur.ok)
    BY <1>1
  <2>2. CASE s = r
    BY <2>2
  <2>3. CASE Id(r) = cur.row /\ ~r.sent /\ s = Marked(r, cur.ok)
    <3>1. Id(s) = Id(r) /\ s.seq = r.seq /\ s.channel = r.channel /\ s.fireAt = r.fireAt
      BY <1>0, <1>1, <2>3, MarkedRow
    <3> QED BY <2>3, <3>1
  <2> QED BY <2>1, <2>2, <2>3
<1> QED BY <1>1, <1>2, <1>3

LEMMA DueStep ==
    ASSUME Types, RetryInv, DueInv, MaxFaults = 0, [Next]_vars
    PROVE  DueInv'
<1>0. now \in Int /\ ~Fault /\ rows \subseteq Rows
  BY NoFault DEF Types, ClockInv, QueueInv
<1>1. \A r \in rows : Id(r).fireAt = r.fireAt /\ r.fireAt \in Int
  BY <1>0, IdType DEF Rows
<1>2. \A x \in batch \union Current : x.fireAt \in Int
  <2>1. batch \union Current \subseteq RowIds
    BY CurrentType DEF Types, DispatchInv
  <2> QED BY <2>1 DEF RowIds
<1>3. ASSUME rows' \subseteq rows, UNCHANGED <<batch, cur>>, now' \in Int, now' >= now
      PROVE  DueInv'
  BY <1>0, <1>1, <1>2, <1>3 DEF DueInv, Current
<1>4. ASSUME NEW q \in Requests, Handler(q) PROVE DueInv'
  <2>1. CASE TxCommit(q)
    <3>1. CASE UNCHANGED rows
      BY <1>0, <1>3, <2>1, <3>1 DEF TxCommit, dispatchVars
    <3>2. CASE /\ rows' = Kept(q) \union Inserted(Kept(q), items[q])
               /\ Kept(q) \subseteq rows /\ items[q] \subseteq Items
      <4>1. \A r \in Inserted(Kept(q), items[q]) : ~r.sent
        BY <3>2, InsertedRows DEF Types, QueueInv
      <4>2. UNCHANGED <<now, batch, cur>>
        BY <2>1 DEF TxCommit, dispatchVars
      <4> QED BY <3>2, <4>1, <4>2 DEF DueInv, Current
    <3> QED BY <2>1, <3>1, <3>2, CommitRows
  <2>2. CASE Save(q) \/ Compute(q) \/ TxDelete(q) \/ Delete(q)
    <3>1. rows' \subseteq rows /\ UNCHANGED <<now, batch, cur>>
      BY <2>2 DEF Save, Compute, TxDelete, Delete, dispatchVars
    <3> QED BY <1>0, <1>3, <3>1
  <2> QED BY <1>4, <2>1, <2>2 DEF Handler
<1>5. CASE Fetch
  <2>1. UNCHANGED <<now, rows, cur>> /\ \A x \in batch' : \E r \in rows : r.fireAt <= now /\ x = Id(r)
    BY <1>5 DEF Fetch, Ids, Due
  <2> QED BY <1>1, <2>1 DEF DueInv, Current
<1>6. CASE Load
  <2>1. PICK n \in batch : batch' = batch \ {n} /\ cur'.row = n
    BY <1>6 DEF Load
  <2>2. UNCHANGED <<now, rows>>
    BY <1>6 DEF Load
  <2> QED BY <2>1, <2>2 DEF DueInv, Current
<1>7. CASE Post
  <2>1. cur.at = "post" /\ cur'.row = cur.row /\ UNCHANGED <<now, rows, batch>>
    BY <1>7 DEF Post
  <2> QED BY <2>1 DEF DueInv, Current
<1>8. CASE Mark
  <2>1. cur'.at = "idle" /\ UNCHANGED <<now, batch>>
    BY <1>8 DEF Mark, Idle
  <2>2. \A s \in rows' : s.sent => s.fireAt <= now
    <3>1. cur.row.fireAt <= now
      BY <1>8, MarkPending
    <3>2. \A s \in rows' : \E r \in rows : s.fireAt = r.fireAt /\ (s.sent => r.sent \/ Id(r) = cur.row)
      BY <1>8, MarkPending
    <3> QED BY <1>1, <3>1, <3>2 DEF DueInv
  <2> QED BY <2>1, <2>2 DEF DueInv, Current
<1>9. CASE Advance \/ UNCHANGED vars
  <2>1. UNCHANGED <<rows, batch, cur>> /\ now' \in Int /\ now' >= now
    BY <1>0, <1>9 DEF Advance, vars, dispatchVars
  <2> QED BY <1>3, <2>1
<1>10. ~Crash
  BY <1>0 DEF Crash
<1> QED BY <1>4, <1>5, <1>6, <1>7, <1>8, <1>9, <1>10 DEF Next, Dispatcher

LEMMA EditStep ==
    ASSUME Types, RetryInv, DueInv, EditInv, Serial, [Next]_vars
    PROVE  EditInv'
<1>0. /\ now \in Nat /\ ~Fault /\ pc \in [Requests -> {"idle", "saved", "computed", "deleted"}]
      /\ items \in [Requests -> SUBSET Items] /\ dels \in [Requests -> SUBSET RowIds]
      /\ \A p, q \in Requests : p = q
  BY NoFault DEF Types, ClockInv, QueueInv, Serial
<1>1. \A q \in Requests :
        /\ pc[q] \in {"computed", "deleted"} => stages # NoPlan /\ Computed(q)
        /\ pc[q] = "deleted" => Ids(Unsent) \subseteq dels[q]
  BY DEF EditInv
<1>2. ASSUME UNCHANGED <<stages, pc, items, dels>>, now' \in Nat, now' >= now,
             Ids(Unsent)' \subseteq Ids(Unsent)
      PROVE  EditInv'
  <2>1. ASSUME NEW q \in Requests, Computed(q) PROVE Computed(q)'
    <3>1. PICK t \in 0 .. now : items[q] = Schedule(stages, t)
      BY <2>1 DEF Computed
    <3>2. t \in 0 .. now'
      BY <1>0, <1>2
    <3> QED BY <1>2, <3>1, <3>2 DEF Computed
  <2> QED BY <1>1, <1>2, <2>1 DEF EditInv
<1>3. ASSUME NEW q \in Requests, pc'[q] \in {"idle", "saved"} PROVE EditInv'
  BY <1>0, <1>3 DEF EditInv
<1>4. ASSUME NEW q \in Requests, Handler(q) PROVE EditInv'
  <2>1. CASE Save(q)
    BY <1>0, <1>3, <2>1 DEF Save
  <2>2. CASE Compute(q)
    <3>1. CASE pc' = [pc EXCEPT ![q] = "idle"]
      BY <1>0, <1>3, <3>1
    <3>2. CASE /\ stages # NoPlan
               /\ items' = [items EXCEPT ![q] = Schedule(stages, now)]
               /\ pc' = [pc EXCEPT ![q] = "computed"]
      <4>1. UNCHANGED <<stages, now>> /\ now \in 0 .. now'
        BY <1>0, <2>2 DEF Compute
      <4>2. items'[q] = Schedule(stages', now)
        BY <1>0, <3>2, <4>1
      <4>3. Computed(q)'
        BY <4>1, <4>2 DEF Computed
      <4>4. pc'[q] = "computed" /\ stages' # NoPlan
        BY <1>0, <3>2, <4>1
      <4>5. \A p \in Requests : p = q
        BY <1>0
      <4> QED BY <4>3, <4>4, <4>5 DEF EditInv
    <3> QED BY <2>2, <3>1, <3>2 DEF Compute
  <2>3. CASE TxDelete(q)
    <3>1. pc[q] = "computed" /\ UNCHANGED <<stages, now, items, rows>>
      BY <2>3 DEF TxDelete
    <3>2. dels'[q] = Ids(Unsent)
      BY <1>0, <2>3 DEF TxDelete
    <3>3. stages # NoPlan /\ Computed(q)
      BY <1>1, <3>1
    <3>4. Computed(q)' /\ stages' # NoPlan
      BY <3>1, <3>3 DEF Computed
    <3>5. Ids(Unsent)' = dels'[q]
      BY <3>1, <3>2 DEF Ids, Unsent
    <3>6. \A p \in Requests : p = q
      BY <1>0
    <3> QED BY <3>4, <3>5, <3>6 DEF EditInv
  <2>4. CASE TxCommit(q)
    BY <1>0, <1>3, <2>4 DEF TxCommit, TxDone
  <2>5. CASE Delete(q)
    BY <1>0, <1>3, <2>5 DEF Delete
  <2> QED BY <1>4, <2>1, <2>2, <2>3, <2>4, <2>5 DEF Handler
<1>5. CASE Mark
  <2>1. UNCHANGED <<stages, pc, items, dels, now>>
    BY <1>5 DEF Mark, handlerVars
  <2>2. \A s \in rows' : \E r \in rows : Id(s) = Id(r) /\ (~s.sent => ~r.sent)
    BY <1>5, MarkPending DEF Serial
  <2>3. Ids(Unsent)' \subseteq Ids(Unsent)
    BY <2>2 DEF Ids, Unsent
  <2> QED BY <1>0, <1>2, <2>1, <2>3
<1>6. CASE Advance \/ Fetch \/ Load \/ Post \/ UNCHANGED vars
  <2>1. UNCHANGED <<stages, pc, items, dels, rows>> /\ now' \in Nat /\ now' >= now
    BY <1>0, <1>6 DEF Advance, Fetch, Load, Post, vars, handlerVars
  <2>2. Ids(Unsent)' = Ids(Unsent)
    BY <2>1 DEF Ids, Unsent
  <2> QED BY <1>2, <2>1, <2>2
<1>7. ~Crash
  BY <1>0 DEF Crash
<1> QED BY <1>4, <1>5, <1>6, <1>7 DEF Next, Dispatcher

\* The pending rows after a commit are those of the plan.
LEMMA PlanCommit ==
    ASSUME Types, DueInv, EditInv, Serial, NEW q \in Requests, TxCommit(q)
    PROVE  ScheduleFollowsPlan'
<1>0. now \in Nat /\ ~Fault /\ rows \subseteq Rows /\ stages \in Plans \union {NoPlan} /\ gen \in Nat
  BY NoFault DEF Types, ClockInv, QueueInv, Serial
<1>1. pc[q] = "deleted" /\ UNCHANGED <<stages, now>>
  BY DEF TxCommit
<1>2. stages # NoPlan /\ Computed(q) /\ Ids(Unsent) \subseteq dels[q]
  BY <1>1 DEF EditInv
<1>3. rows' = Kept(q) \union Inserted(Kept(q), items[q]) /\ items[q] \subseteq Items
  BY <1>0, <1>2 DEF TxCommit, Types, QueueInv
<1>4. \A r \in Kept(q) : r \in rows /\ r.sent /\ r.fireAt <= now
  BY <1>2 DEF Kept, Ids, Unsent, DueInv
<1>5. PICK t \in 0 .. now : items[q] = Schedule(stages, t)
  BY <1>2 DEF Computed
<1>6. /\ \A j \in items[q] : j.seq \in DOMAIN stages /\ Announces(j, stages[j.seq])
      /\ \A i \in DOMAIN stages : \A f \in Windows(stages[i]) : f > t =>
            \E j \in items[q] : j.seq = i /\ j.fireAt = f
  BY <1>0, <1>2, <1>5, ScheduleItems
<1>7. \A r \in rows' : ~r.sent => r \in Inserted(Kept(q), items[q])
  BY <1>3, <1>4
<1>8. ASSUME NEW r \in rows', ~r.sent
      PROVE  r.seq \in DOMAIN stages /\ Announces(r, stages[r.seq])
  <2>1. r \in Inserted(Kept(q), items[q])
    BY <1>7, <1>8
  <2>2. PICK j \in items[q] : r = [gen |-> gen + 1, seq |-> j.seq, channel |-> j.channel,
                                   fireAt |-> j.fireAt, sent |-> FALSE, attempts |-> 0]
    BY <2>1 DEF Inserted
  <2>3. r.seq = j.seq /\ r.channel = j.channel /\ r.fireAt = j.fireAt
    BY <2>2
  <2>4. j.seq \in DOMAIN stages /\ Announces(j, stages[j.seq])
    BY <1>6
  <2>5. Announces(r, stages[j.seq])
    BY <2>3, <2>4, AnnouncesSame
  <2> QED BY <2>3, <2>4, <2>5
<1>9. ASSUME NEW i \in DOMAIN stages, NEW f \in Windows(stages[i]), f > now
      PROVE  \E r \in rows' : ~r.sent /\ r.seq = i /\ r.fireAt = f
  <2>0. f \in Int
    BY <1>0, <1>2, StageType, WindowsType
  <2>1. PICK j \in items[q] : j.seq = i /\ j.fireAt = f
    BY <1>0, <1>6, <1>9, <2>0
  <2>2. \A r \in Kept(q) : Key(r) # j
    <3>1. ASSUME NEW r \in Kept(q), Key(r) = j PROVE FALSE
      <4>1. r.fireAt = f
        BY <2>1, <3>1 DEF Key
      <4> QED BY <1>0, <1>4, <1>9, <2>0, <4>1
    <3> QED BY <3>1
  <2> DEFINE n == [gen |-> gen + 1, seq |-> j.seq, channel |-> j.channel,
                   fireAt |-> j.fireAt, sent |-> FALSE, attempts |-> 0]
  <2>3. n \in Inserted(Kept(q), items[q])
    BY <2>2 DEF Inserted
  <2>4. ~n.sent /\ n.seq = i /\ n.fireAt = f
    BY <2>1
  <2> QED BY <1>3, <2>3, <2>4
<1> QED BY <1>1, <1>8, <1>9 DEF ScheduleFollowsPlan, Unsent

LEMMA PlanStep ==
    ASSUME Types, RetryInv, PlanInv, Serial, [Next]_vars
    PROVE  ScheduleFollowsPlan'
<1>0. /\ now \in Nat /\ ~Fault /\ pc \in [Requests -> {"idle", "saved", "computed", "deleted"}]
      /\ rows \subseteq Rows /\ stages \in Plans \union {NoPlan}
  BY NoFault DEF Types, ClockInv, QueueInv, Serial
<1>1. ASSUME UNCHANGED <<pc, stages, rows>>, now' \in Nat, now' >= now PROVE ScheduleFollowsPlan'
  <2> SUFFICES ASSUME Quiet, stages # NoPlan
               PROVE  /\ \A r \in Unsent : r.seq \in DOMAIN stages /\ Announces(r, stages[r.seq])
                      /\ \A i \in DOMAIN stages : \A f \in Windows(stages[i]) :
                            f > now' => \E r \in Unsent : r.seq = i /\ r.fireAt = f
    BY <1>1 DEF ScheduleFollowsPlan, Quiet, Unsent
  <2>1. \A i \in DOMAIN stages : Windows(stages[i]) \subseteq Int
    BY <1>0, StageType, WindowsType
  <2> QED BY <1>0, <1>1, <2>1 DEF PlanInv, ScheduleFollowsPlan
<1>2. ASSUME NEW q \in Requests, Handler(q) PROVE ScheduleFollowsPlan'
  <2>1. CASE Save(q) \/ TxDelete(q) \/ (Compute(q) /\ pc' = [pc EXCEPT ![q] = "computed"])
    <3>1. pc'[q] # "idle"
      BY <1>0, <2>1 DEF Save, TxDelete
    <3> QED BY <3>1 DEF ScheduleFollowsPlan, Quiet
  <2>2. CASE Delete(q) \/ (Compute(q) /\ pc' # [pc EXCEPT ![q] = "computed"])
    <3>1. stages' = NoPlan
      BY <1>0, <2>2 DEF Delete, Compute
    <3> QED BY <3>1 DEF ScheduleFollowsPlan
  <2>3. CASE TxCommit(q)
    BY <2>3, PlanCommit DEF PlanInv
  <2> QED BY <1>2, <2>1, <2>2, <2>3 DEF Handler
<1>3. CASE Mark
  <2>1. UNCHANGED <<pc, stages, now>>
    BY <1>3 DEF Mark, handlerVars
  <2>2. /\ cur.row.fireAt <= now
        /\ \A s \in rows' : \E r \in rows :
              /\ s.seq = r.seq /\ s.channel = r.channel /\ s.fireAt = r.fireAt
              /\ ~s.sent => ~r.sent
        /\ \A r \in rows : Id(r) # cur.row => r \in rows'
    BY <1>3, MarkPending DEF PlanInv, Serial
  <2> SUFFICES ASSUME Quiet, stages # NoPlan
               PROVE  /\ \A s \in rows' : ~s.sent => s.seq \in DOMAIN stages /\ Announces(s, stages[s.seq])
                      /\ \A i \in DOMAIN stages : \A f \in Windows(stages[i]) :
                            f > now => \E r \in rows' : ~r.sent /\ r.seq = i /\ r.fireAt = f
    BY <2>1 DEF ScheduleFollowsPlan, Quiet, Unsent
  <2>3. /\ \A r \in rows : ~r.sent => r.seq \in DOMAIN stages /\ Announces(r, stages[r.seq])
        /\ \A i \in DOMAIN stages : \A f \in Windows(stages[i]) :
              f > now => \E r \in rows : ~r.sent /\ r.seq = i /\ r.fireAt = f
    BY DEF PlanInv, ScheduleFollowsPlan, Unsent
  <2>4. ASSUME NEW s \in rows', ~s.sent PROVE s.seq \in DOMAIN stages /\ Announces(s, stages[s.seq])
    <3>1. PICK r \in rows : /\ s.seq = r.seq /\ s.channel = r.channel /\ s.fireAt = r.fireAt
                            /\ ~s.sent => ~r.sent
      BY <2>2
    <3>2. r.seq \in DOMAIN stages /\ Announces(r, stages[r.seq])
      BY <2>3, <2>4, <3>1
    <3>3. Announces(s, stages[r.seq])
      BY <3>1, <3>2, AnnouncesSame
    <3> QED BY <3>1, <3>2, <3>3
  <2>5. ASSUME NEW i \in DOMAIN stages, NEW f \in Windows(stages[i]), f > now
        PROVE  \E r \in rows' : ~r.sent /\ r.seq = i /\ r.fireAt = f
    <3>1. PICK r \in rows : ~r.sent /\ r.seq = i /\ r.fireAt = f
      BY <2>3, <2>5
    <3>2. Id(r).fireAt = f /\ f \in Int
      BY <1>0, <3>1, IdType DEF Rows
    <3>3. Id(r) # cur.row
      BY <1>0, <2>2, <2>5, <3>2
    <3> QED BY <2>2, <3>1, <3>3
  <2> QED BY <2>4, <2>5
<1>4. CASE Advance \/ Fetch \/ Load \/ Post \/ UNCHANGED vars
  <2>1. UNCHANGED <<stages, pc, rows>> /\ now' \in Nat /\ now' >= now
    BY <1>0, <1>4 DEF Advance, Fetch, Load, Post, vars, handlerVars
  <2> QED BY <1>1, <2>1
<1>5. ~Crash
  BY <1>0 DEF Crash
<1> QED BY <1>2, <1>3, <1>4, <1>5 DEF Next, Dispatcher

\* When no two requests edit the rollout at the same time and nothing fails, the pending
\* rows between requests are those of the plan in the database, whatever the dispatcher
\* does meanwhile (scheduleNotifications, RescheduleNotifications, MarkNotificationSent).
THEOREM NotificationsFollowPlan == Serial => (Spec => []ScheduleFollowsPlan)
<1> SUFFICES ASSUME Serial PROVE Spec => []ScheduleFollowsPlan
  OBVIOUS
<1>1. Init => PlanInv
  BY DEF Init, PlanInv, DueInv, EditInv, ScheduleFollowsPlan, Current, Idle
<1>2. Types /\ RetryInv /\ PlanInv /\ [Next]_vars => PlanInv'
  BY DueStep, EditStep, PlanStep DEF PlanInv, Serial
<1>3. PlanInv => ScheduleFollowsPlan
  BY DEF PlanInv
<1> QED BY <1>1, <1>2, <1>3, TypesHold, RetryHolds, PTL DEF Spec
=============================================================================
