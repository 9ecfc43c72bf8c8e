---------------------------- MODULE Notifications ----------------------------
(***************************************************************************)
(* Advance-warning notifications of one rollout: the request handlers that *)
(* create, edit and delete it (backend/internal/api/handlers.go), the      *)
(* notifications queue (backend/internal/store/repository.go), the         *)
(* dispatcher (backend/internal/notify/scheduler.go) and the Teams webhook *)
(* (backend/internal/teams/teams.go).                                      *)
(*                                                                         *)
(* A rollout is its plan, a sequence of stages [env, startAt]; stage_seq   *)
(* counts from 1 here.  Time is an integer clock; the code's durations     *)
(* are constants.  A row of the queue is identified by its key             *)
(* (stage_seq, channel, fire_at), unique in the table, and the number of   *)
(* the transaction that inserted it, which stands for the serial id.       *)
(*                                                                         *)
(* PostgreSQL runs the transactions at READ COMMITTED: the DELETE of a     *)
(* reschedule sees and locks the unsent rows committed when it starts, and *)
(* waits for whoever has locked one of them; rows another reschedule       *)
(* commits meanwhile are not seen.                                         *)
(***************************************************************************)
EXTENDS Integers, Sequences, FiniteSets

CONSTANTS
    Requests,           \* request goroutines
    Plans,              \* the plans an admin may save
    NoPlan,             \* stands for a rollout that is not in the database
    SECOND, HOUR, DAY, WEEK,
    BatchLimit,         \* rows per dispatcher tick (100 in the code)
    notifyMaxAttempts,  \* failed sends before a row is dead-lettered (5)
    Outcomes,           \* what a POST may do, a subset of PostOutcomes
    MaxEdits,           \* bound of the model: saves of the rollout
    MaxTime,            \* bound of the model: the clock
    MaxFaults           \* bound of the model: crashes and database errors

PostOutcomes ==
    {"ok",      \* a 2xx answer
     "error",   \* refused, unreachable or a status >= 300
     "lost"}    \* Teams took it, but the answer came after the 10 s timeout

ASSUME NotificationsAssumption ==
    /\ NoPlan \notin Plans
    /\ Plans \subseteq Seq([env : STRING, startAt : Int])
    /\ \A d \in {SECOND, HOUR, DAY, WEEK, BatchLimit, notifyMaxAttempts} :
          d \in Nat \ {0}
    /\ Outcomes \in SUBSET PostOutcomes
    /\ MaxEdits \in Nat /\ MaxTime \in Nat /\ MaxFaults \in Nat

VARIABLES
    now,     \* the clock
    stages,  \* the plan in the database, or NoPlan
    rows,    \* the notifications table
    gen,     \* number of reschedules committed
    edits,   \* saves so far
    pc,      \* pc[q]: where request q is
    items,   \* items[q]: the notifications q has computed
    dels,    \* dels[q]: ids of the rows q's DELETE has locked or waits for
    waits,   \* waits[q]: requests whose locks q's DELETE waits for
    batch,   \* the rows the dispatcher has fetched and not yet handled
    cur,     \* what the dispatcher is doing with the current row
    log,     \* history: the messages Teams was sent, those of a row numbered
    faults   \* faults so far

handlerVars == <<stages, gen, edits, pc, items, dels, waits>>
dispatchVars == <<batch, cur, log>>
vars == <<now, rows, faults, handlerVars, dispatchVars>>

Id(r) == [gen |-> r.gen, seq |-> r.seq, channel |-> r.channel,
          fireAt |-> r.fireAt]
Ids(S) == {Id(r) : r \in S}
Key(r) == [seq |-> r.seq, channel |-> r.channel, fireAt |-> r.fireAt]

Idle == [at |-> "idle"]

Init ==
    /\ now = 0
    /\ stages = NoPlan
    /\ rows = {}
    /\ gen = 0
    /\ edits = 0
    /\ pc = [q \in Requests |-> "idle"]
    /\ items = [q \in Requests |-> {}]
    /\ dels = [q \in Requests |-> {}]
    /\ waits = [q \in Requests |-> {}]
    /\ batch = {}
    /\ cur = Idle
    /\ log = {}
    /\ faults = 0

Fault == faults < MaxFaults /\ faults' = faults + 1

Advance ==
    /\ now < MaxTime
    /\ now' = now + 1
    /\ UNCHANGED <<rows, faults, handlerVars, dispatchVars>>

-----------------------------------------------------------------------------
(* scheduleNotifications *)

ChannelOf(env) == IF env = "non-prod" THEN "TMS_NP" ELSE "TMS_PROD"

Advances(env) ==
    CASE env = "prod1" -> {WEEK, DAY, HOUR}
      [] env = "prod2" -> {2 * WEEK, WEEK, HOUR}
      [] OTHER         -> {HOUR}

Windows(st) == {st.startAt - a : a \in Advances(st.env)}

\* Faulty variant: no catch-up for a stage whose windows are all past.
FireTimes_NoCatchUp(st, t) == {f \in Windows(st) : f > t}

\* The windows still ahead at time t, or else one catch-up a second later.
FireTimes(st, t) ==
    LET ahead == {f \in Windows(st) : f > t}
    IN  IF ahead # {} THEN ahead ELSE {t + SECOND}

Schedule(plan, t) ==
    UNION {{[seq |-> i, channel |-> ChannelOf(plan[i].env), fireAt |-> f] :
               f \in FireTimes(plan[i], t)} : i \in DOMAIN plan}

-----------------------------------------------------------------------------
(* Request handlers *)

\* createRollout or updateRollout: the transaction that replaces the rollout and
\* its stages commits.  An update of a missing rollout is answered 404.
Save(q) ==
    /\ pc[q] = "idle"
    /\ edits < MaxEdits
    /\ edits = 0 \/ stages # NoPlan
    /\ stages' \in Plans
    /\ edits' = edits + 1
    /\ pc' = [pc EXCEPT ![q] = "saved"]
    /\ UNCHANGED <<now, rows, faults, gen, items, dels, waits, dispatchVars>>

\* The row is read back and scheduleNotifications computes the items.  When the
\* rollout is gone by then, or the read fails, the handler returns the error.
Compute(q) ==
    /\ pc[q] = "saved"
    /\ \/ /\ stages # NoPlan
          /\ items' = [items EXCEPT ![q] = Schedule(stages, now)]
          /\ pc' = [pc EXCEPT ![q] = "computed"]
          /\ UNCHANGED faults
       \/ /\ stages = NoPlan
          /\ pc' = [pc EXCEPT ![q] = "idle"]
          /\ UNCHANGED <<items, faults>>
       \/ /\ Fault
          /\ pc' = [pc EXCEPT ![q] = "idle"]
          /\ UNCHANGED items
    /\ UNCHANGED <<now, rows, stages, gen, edits, dels, waits, dispatchVars>>

Unsent == {r \in rows : ~r.sent}

\* RescheduleNotifications, the DELETE of the unsent rows.
TxDelete(q) ==
    /\ pc[q] = "computed"
    /\ pc' = [pc EXCEPT ![q] = "deleted"]
    /\ dels' = [dels EXCEPT ![q] = Ids(Unsent)]
    /\ waits' = [waits EXCEPT ![q] =
                    {p \in Requests : dels[p] \intersect Ids(Unsent) # {}}]
    /\ UNCHANGED <<now, rows, faults, stages, gen, edits, items, dispatchVars>>

\* Faulty variant: the transaction is left open.
TxDone_LeftOpen(q) ==
    /\ pc' = [pc EXCEPT ![q] = "idle"]
    /\ items' = [items EXCEPT ![q] = {}]
    /\ UNCHANGED <<dels, waits>>

\* The transaction of q is over: its locks are released.
TxDone(q) ==
    /\ pc' = [pc EXCEPT ![q] = "idle"]
    /\ items' = [items EXCEPT ![q] = {}]
    /\ dels' = [dels EXCEPT ![q] = {}]
    /\ waits' = [p \in Requests |-> IF p = q THEN {} ELSE waits[p] \ {q}]

\* The rows a transaction inserts: ON CONFLICT DO NOTHING.
Inserted(kept, its) ==
    {[gen |-> gen + 1, seq |-> i.seq, channel |-> i.channel,
      fireAt |-> i.fireAt, sent |-> FALSE, attempts |-> 0] :
        i \in {j \in its : \A r \in kept : Key(r) # j}}

\* Faulty variant: the unsent rows of the old schedule stay.
Kept_All(q) == rows

\* The rows the DELETE of q leaves.
Kept(q) == {r \in rows : r.sent \/ Id(r) \notin dels[q]}

\* RescheduleNotifications, the INSERTs and the commit; the inserts fail on the
\* foreign key when the rollout has been deleted, and the transaction may fail
\* otherwise: handlers only log that.
TxCommit(q) ==
    /\ pc[q] = "deleted"
    /\ waits[q] = {}
    /\ \/ /\ stages # NoPlan
          /\ rows' = Kept(q) \union Inserted(Kept(q), items[q])
          /\ gen' = gen + 1
          /\ UNCHANGED faults
       \/ stages = NoPlan /\ UNCHANGED <<rows, gen, faults>>
       \/ Fault /\ UNCHANGED <<rows, gen>>
    /\ TxDone(q)
    /\ UNCHANGED <<now, stages, edits, dispatchVars>>

\* deleteRollout: the notifications go with the rollout.
Delete(q) ==
    /\ pc[q] = "idle"
    /\ stages # NoPlan
    /\ stages' = NoPlan
    /\ rows' = {}
    /\ UNCHANGED <<now, faults, gen, edits, pc, items, dels, waits, dispatchVars>>

-----------------------------------------------------------------------------
(* The dispatcher *)

\* Faulty variant: the sent_at IS NULL filter is missing.
Due_Resends == {r \in rows : r.fireAt <= now}

\* The rows PendingNotifications selects from.
Due == {r \in rows : ~r.sent /\ r.fireAt <= now}

\* PendingNotifications: the oldest BatchLimit due rows.
OldestOf(S, D) ==
    /\ \A r \in S, d \in D \ S : r.fireAt <= d.fireAt
    /\ IF Cardinality(D) <= BatchLimit
       THEN S = D
       ELSE Cardinality(S) = BatchLimit

\* A tick of the scheduler: dispatch fetches what is due.
Fetch ==
    /\ cur = Idle /\ batch = {} /\ Due # {}
    /\ \E S \in SUBSET Due : OldestOf(S, Due) /\ batch' = Ids(S)
    /\ UNCHANGED <<now, rows, faults, handlerVars, cur, log>>

\* The rollout exists and n.StageSeq < len(r.Stages).
HasStage(i) == IF stages = NoPlan THEN FALSE ELSE i \in DOMAIN stages

\* The next row of the batch: the rollout is read as it is now.
Load ==
    /\ cur = Idle
    /\ \E n \in batch :
        /\ \A m \in batch : n.fireAt <= m.fireAt
        /\ batch' = batch \ {n}
        /\ \/ /\ HasStage(n.seq)
              /\ cur' = [at |-> "post", row |-> n, stage |-> stages[n.seq]]
              /\ UNCHANGED faults
           \/ /\ ~HasStage(n.seq)
              /\ cur' = [at |-> "mark", row |-> n, ok |-> FALSE]
              /\ UNCHANGED faults
           \/ /\ Fault
              /\ cur' = [at |-> "mark", row |-> n, ok |-> FALSE]
    /\ UNCHANGED <<now, rows, handlerVars, log>>

Posts(row) == {m \in log : m.row = row}

\* AnnounceStage posts the card of the stage to the channel of the row.
Post ==
    /\ cur.at = "post"
    /\ \E o \in Outcomes :
        /\ cur' = [at |-> "mark", row |-> cur.row, ok |-> o = "ok"]
        /\ log' = log \union {[no |-> Cardinality(Posts(cur.row)) + 1,
                               row |-> cur.row, stage |-> cur.stage, outcome |-> o]}
    /\ UNCHANGED <<now, rows, faults, handlerVars, batch>>

\* Faulty variant: no dead-lettering.
Marked_Forever(r, ok) ==
    IF ok THEN [r EXCEPT !.sent = TRUE] ELSE [r EXCEPT !.attempts = @ + 1]

\* MarkNotificationSent on a row that is still unsent.
Marked(r, ok) ==
    IF ok THEN [r EXCEPT !.sent = TRUE]
    ELSE [r EXCEPT !.attempts = @ + 1,
                   !.sent = r.attempts + 1 >= notifyMaxAttempts]

\* MarkNotificationSent waits for a reschedule that has locked the row, finds
\* nothing if the row is gone or sent, and its own error is ignored.
Mark ==
    /\ cur.at = "mark"
    /\ \A q \in Requests : cur.row \notin dels[q]
    /\ cur' = Idle
    /\ \/ /\ rows' = {IF Id(r) = cur.row /\ ~r.sent THEN Marked(r, cur.ok) ELSE r :
                       r \in rows}
          /\ UNCHANGED faults
       \/ Fault /\ UNCHANGED rows
    /\ UNCHANGED <<now, handlerVars, batch, log>>

\* The process dies: handlers and dispatcher are gone, open transactions are
\* rolled back.
Crash ==
    /\ Fault
    /\ pc' = [q \in Requests |-> "idle"]
    /\ items' = [q \in Requests |-> {}]
    /\ dels' = [q \in Requests |-> {}]
    /\ waits' = [q \in Requests |-> {}]
    /\ batch' = {}
    /\ cur' = Idle
    /\ UNCHANGED <<now, rows, stages, gen, edits, log>>

Dispatcher == Fetch \/ Load \/ Post \/ Mark

Handler(q) == Save(q) \/ Compute(q) \/ TxDelete(q) \/ TxCommit(q) \/ Delete(q)

Next ==
    \/ Advance
    \/ \E q \in Requests : Handler(q)
    \/ Dispatcher
    \/ Crash

\* The clock goes on, the dispatcher's goroutine runs on every tick, and a
\* request that has saved runs to its end.
Fairness ==
    /\ WF_vars(Advance)
    /\ WF_vars(Dispatcher)
    /\ \A q \in Requests :
          WF_vars(Compute(q)) /\ WF_vars(TxDelete(q)) /\ WF_vars(TxCommit(q))

Spec == Init /\ [][Next]_vars
FairSpec == Spec /\ Fairness

-----------------------------------------------------------------------------
(* Properties *)

RowIds == [gen : Nat, seq : Nat \ {0}, channel : {"TMS_NP", "TMS_PROD"},
           fireAt : Int]

TypeOK ==
    /\ now \in 0 .. MaxTime /\ edits \in 0 .. MaxEdits /\ faults \in 0 .. MaxFaults
    /\ gen \in 0 .. edits
    /\ stages \in Plans \union {NoPlan}
    /\ Ids(rows) \subseteq RowIds
    /\ \A r \in rows : r.sent \in BOOLEAN /\ r.attempts \in 0 .. notifyMaxAttempts
    /\ pc \in [Requests -> {"idle", "saved", "computed", "deleted"}]
    /\ \A q \in Requests : dels[q] \subseteq RowIds /\ waits[q] \subseteq Requests
    /\ batch \subseteq RowIds
    /\ cur.at \in {"idle", "post", "mark"}

Quiet == \A q \in Requests : pc[q] = "idle"

\* Row r announces stage st: at one of its windows, or after all of them.
Announces(r, st) ==
    /\ r.channel = ChannelOf(st.env)
    /\ r.fireAt \in Windows(st) \/ \A f \in Windows(st) : f < r.fireAt

\* Between requests the queue is the schedule of the plan in the database: no
\* pending row is left over from an earlier plan, and every window still ahead
\* has its row (scheduleNotifications and RescheduleNotifications; BLUEPRINT 4:
\* "a shifted stage time never leaves a notification that would fire at the old
\* time").  The dispatcher may run between any two steps of a request.
ScheduleFollowsPlan ==
    Quiet /\ stages # NoPlan =>
        /\ \A r \in Unsent :
              r.seq \in DOMAIN stages /\ Announces(r, stages[r.seq])
        /\ \A i \in DOMAIN stages : \A f \in Windows(stages[i]) :
              f > now => \E r \in Unsent : r.seq = i /\ r.fireAt = f

Acknowledged(row) == {m \in Posts(row) : m.outcome = "ok"}

\* A row is posted at most notifyMaxAttempts times, however dispatcher ticks,
\* reschedules and failures interleave; only a crash or a failed update between
\* the POST and its record adds one.
RetriesBounded ==
    \A m \in log : Cardinality(Posts(m.row)) <= notifyMaxAttempts + faults

\* A row of the queue that Teams has acknowledged is not posted again, short of such a
\* fault.  This is about the row: a reschedule between the POST and its record deletes
\* the row and inserts another for the same window, which is posted as well.
AcknowledgedOnce ==
    \A m \in log : Cardinality(Acknowledged(m.row)) <= 1 + faults

\* A stage whose windows were all past when it was saved is announced by one
\* catch-up message (BLUEPRINT 5.1: "announced exactly once").
CatchUpOnce ==
    \A m, n \in log :
        /\ m.outcome = "ok" /\ n.outcome = "ok"
        /\ m.row.seq = n.row.seq /\ m.stage = n.stage
        /\ m.row.fireAt \notin Windows(m.stage) /\ n.row.fireAt \notin Windows(n.stage)
        => m = n

\* The queue drains even if every POST fails: failing rows are given up and do
\* not keep later rows out of the batch for ever.
QueueDrains == <>[](Due = {})

\* Teams was tried as often as the code allows for this row.
GivenUp(row) == Cardinality(Posts(row) \ Acknowledged(row)) >= notifyMaxAttempts

\* Every stage of the plan that is finally in the database is announced as it
\* stands there, whatever had been announced before, unless the row in question
\* was dead-lettered (rows that fire after the end of the model's clock excepted).
EventuallyAnnounced ==
    <>[](stages # NoPlan /\ (\A r \in Unsent : r.fireAt <= MaxTime) =>
           \A i \in DOMAIN stages : \E m \in log :
               /\ m.row.seq = i /\ m.stage = stages[i]
               /\ m.outcome = "ok" \/ GivenUp(m.row))
=============================================================================
