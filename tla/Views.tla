------------------------------- MODULE Views -------------------------------
(***************************************************************************)
(* What the list, the timeline and the date field of the create dialog     *)
(* show: list-view.component.ts, timeline-view.component.ts, stage.ts and  *)
(* schedule-rules.ts, next to the list and timeline of the design          *)
(* prototype (design/project/list-view.jsx, timeline.jsx) they implement.  *)
(*                                                                         *)
(* The router shows one page at a time and creates its component anew, so  *)
(* only the page on screen has a state.  Times are instants in units of a  *)
(* day of DayLen units; UTC midnight is a multiple of DayLen.  The browser *)
(* is Zone units ahead of UTC, and Shift more in the one summer within the *)
(* horizon, from Spring to Autumn.                                         *)
(* Dates of the create dialog are day numbers of the Gregorian calendar.   *)
(***************************************************************************)
EXTENDS Integers, Sequences, SequencesExt

CONSTANTS
    DayLen,     \* 86400000 ms
    Zone,       \* the browser's distance from UTC in winter
    Shift,      \* what summer time adds to it
    Spring,     \* the instant summer time begins
    Autumn,     \* the instant it ends
    Answers,    \* what GET /api/rollouts may answer
    Locks,      \* the locks, as [startAt, endAt]
    Widths,     \* widths the ResizeObserver may report
    Dates,      \* dates the user may pick
    T0,         \* the instant the browser is opened
    MaxTime,    \* bound: last instant
    MaxOffset,  \* bound: how far the timeline is moved, in days
    None

\* A rollout as the API answers it.
Rollouts == [product : STRING, stages : Seq([startAt : Int, status : STRING])]

HolidayNames == {"Neujahr", "Berchtoldstag", "Karfreitag", "Ostermontag", "Auffahrt",
                 "Pfingstmontag", "Bundesfeier", "Weihnachten", "Stephanstag"}

ASSUME ViewsAssumption ==
    /\ DayLen \in Nat \ {0} /\ Zone \in 0..(DayLen - 1) /\ Shift \in Nat
    /\ Spring \in Nat /\ Autumn \in Nat
    \* Both changes are at one hour of the night (01:00 UTC in Europe): after midnight
    \* UTC, and so that the local hours they skip and repeat lie within one date.
    /\ Spring % DayLen = Autumn % DayLen
    /\ Shift <= Spring % DayLen /\ (Spring % DayLen) + Zone + 3 * Shift <= DayLen
    /\ Answers \subseteq Seq(Rollouts) /\ Locks \subseteq [startAt : Int, endAt : Int]
    /\ Widths \subseteq Nat
    /\ T0 \in Nat /\ MaxTime \in Nat /\ MaxOffset \in Nat
    /\ None \notin HolidayNames /\ None \notin [left : Int, width : Int]

VARIABLES
    page,       \* "list", "timeline" or "create"
    now,        \* the clock
    rollouts,   \* the answer rendered last
    list,       \* ListViewComponent: filters, loaded, when filteredRows ran,
                \* when the template was last rendered
    timeline,   \* TimelineViewComponent: today, offset, days
    picked      \* the date the user gave the create dialog, None before

vars == <<page, now, rollouts, list, timeline, picked>>

-----------------------------------------------------------------------------
(* JavaScript's Date *)

UtcDay(t) == t \div DayLen                      \* dateKey
ZoneAt(t) == IF Spring <= t /\ t < Autumn THEN Zone + Shift ELSE Zone
Local(t) == t + ZoneAt(t)
LocalDay(t) == Local(t) \div DayLen
LocalTime(t) == Local(t) % DayLen

\* The instant of a local time: the first of the two in the hour that is repeated,
\* and in the hour that is skipped the one the clock of winter gives.
Instant(l) ==
    LET summer == l - Zone - Shift
    IN IF Spring <= summer /\ summer < Autumn THEN summer ELSE l - Zone

\* setDate keeps the time of day on the local clock.
addDays(t, n) == Instant(Local(t) + n * DayLen)

Round(a, b) == (2 * a + b) \div (2 * b)         \* Math.round(a / b)
CeilDiv(a, b) == (a + b - 1) \div b             \* Math.ceil(a / b)
Abs(a) == IF a < 0 THEN -a ELSE a

-----------------------------------------------------------------------------
(* List view *)

\* The key of a row is its rollout and stage; ties keep their order.
Rows(rs) ==
    FlattenSeq([i \in DOMAIN rs |->
        [k \in DOMAIN rs[i].stages |->
            [key |-> <<i, k>>, product |-> rs[i].product,
             start |-> rs[i].stages[k].startAt, status |-> rs[i].stages[k].status]]])

Before(r, s) ==
    \/ r.start < s.start
    \/ /\ r.start = s.start
       /\ \/ r.key[1] < s.key[1]
          \/ r.key[1] = s.key[1] /\ r.key[2] <= s.key[2]

RowsAsAnswered(rs) == Rows(rs)

\* The place of a row is the number of rows not after it.
rows(rs) ==
    LET all == Rows(rs)
        Place(i) == Cardinality({j \in DOMAIN all : Before(all[j], all[i])})
    IN [n \in DOMAIN all |-> all[CHOOSE i \in DOMAIN all : Place(i) = n]]

\* The elements of s that are in S, in their order.
Kept(s, S) == FoldLeft(LAMBDA kept, r : IF r \in S THEN Append(kept, r) ELSE kept, <<>>, s)

filteredRows(rs, l) ==
    Kept(rows(rs), {r \in Range(rows(rs)) :
        /\ l.status = "all" \/ r.status = l.status
        /\ l.product = "all" \/ r.product = l.product
        /\ l.window = "upcoming" => r.start >= l.asOf
        /\ l.window = "past" => r.start < l.asOf})

\* A row opens a group when its UTC date differs from that of the row before.
groups(rs) ==
    LET Put(g, r) ==
            IF g # <<>> /\ Last(g).key = UtcDay(r.start)
              THEN Front(g) \o <<[Last(g) EXCEPT !.rows = Append(@, r)]>>
              ELSE Append(g, [key |-> UtcDay(r.start), date |-> r.start, rows |-> <<r>>])
    IN FoldLeft(Put, <<>>, rs)

isToday(t, n) == UtcDay(t) = UtcDay(n)
isPast(t, n) == t < n /\ ~isToday(t, n)

\* The branches are tried in this order; what is left is weeks ago.
Label(today, diff) ==
    CASE today -> [says |-> "today", n |-> 0]
      [] ~today /\ diff = 1 -> [says |-> "tomorrow", n |-> 1]
      [] ~today /\ diff > 1 /\ diff < 7 -> [says |-> "in days", n |-> diff]
      [] ~today /\ diff < 0 /\ diff > -7 -> [says |-> "days ago", n |-> -diff]
      [] ~today /\ diff >= 7 -> [says |-> "in weeks", n |-> CeilDiv(diff, 7)]
      [] OTHER -> [says |-> "weeks ago", n |-> CeilDiv(Abs(diff), 7)]

relDayFloored(t, n) == Label(isToday(t, n), (t - n) \div DayLen)
relDay(t, n) == Label(isToday(t, n), Round(t - n, DayLen))

\* relativeDay of the prototype, whose dates and TODAY are whole days.
relativeDay(diff) == Label(diff = 0, diff)

\* The label of a group in the prototype's list, n an instant of the day TODAY.
dayLabel(t, n) ==
    IF LocalDay(t) < LocalDay(n) THEN [says |-> "past", n |-> 0]
                                 ELSE relativeDay(LocalDay(t) - LocalDay(n))

\* The number on a status button counts the rows of every window and product.
statusCounts(rs, id) ==
    Cardinality({i \in DOMAIN rows(rs) : id = "all" \/ rows(rs)[i].status = id})

NewList(n) ==
    [window |-> "all", status |-> "all", product |-> "all", loaded |-> FALSE,
     asOf |-> n, rendered |-> n]

-----------------------------------------------------------------------------
(* Timeline *)

DAY_W == 56
LABEL_W == 280

start(tl) == addDays(tl.today, tl.offset)
IndexRounded(tl, t) == Round(t - start(tl), DayLen)
Index(tl, t) == (t - start(tl)) \div DayLen
todayIdx(tl) == Index(tl, tl.today)

\* The day columns: local date, and whether it is today (UTC) and a Friday.
dayColumns(tl) ==
    [i \in 0..(tl.days - 1) |->
        LET d == addDays(start(tl), i)
        IN [date |-> LocalDay(d), isToday |-> UtcDay(d) = UtcDay(tl.today),
            isFriday |-> LocalDay(d) % 7 = 5]]

lockOverlay(tl, l) ==
    LET from == Index(tl, l.startAt)
    IN [left |-> from * DAY_W, width |-> (Index(tl, l.endAt) - from + 1) * DAY_W]

pillLeft(idx) == idx * DAY_W + 4

\* The connector between two stages, None when there is no room for it.
cascadeStyle(from, to) ==
    LET left == from * DAY_W + DAY_W \div 2 + 16
        w == to * DAY_W + DAY_W \div 2 - 16 - left
    IN IF w <= 0 THEN None ELSE [left |-> left, width |-> w]

fitDays(width) ==
    LET n == (width - LABEL_W - 2) \div DAY_W IN IF n > 7 THEN n ELSE 7

NewTimeline(n) == [today |-> n, offset |-> -3, days |-> 28]

\* The prototype places a stage by its whole days from TODAY, a midnight.
designIndex(tl, t) == LocalDay(t) - LocalDay(tl.today) - tl.offset

designLockSpan(tl, l) ==
    [left |-> designIndex(tl, l.startAt) * DAY_W,
     width |-> (designIndex(tl, l.endAt) - designIndex(tl, l.startAt) + 1) * DAY_W]

-----------------------------------------------------------------------------
(* Schedule rules.  A date is the number of days since 31 December of the  *)
(* year 0, so that a date divided by 7 leaves its day of the week.         *)

IsLeap(y) == y % 4 = 0 /\ (y % 100 # 0 \/ y % 400 = 0)

DaysBeforeMonth == <<0, 31, 59, 90, 120, 151, 181, 212, 243, 273, 304, 334>>

Date(y, m, d) ==
    365 * (y - 1) + (y - 1) \div 4 - (y - 1) \div 100 + (y - 1) \div 400
        + DaysBeforeMonth[m] + (IF m > 2 /\ IsLeap(y) THEN 1 ELSE 0) + d

getFullYear(n) ==
    CHOOSE y \in (n \div 366)..(n \div 365 + 1) : Date(y, 1, 1) <= n /\ n < Date(y + 1, 1, 1)

getDay(n) == n % 7

\* JavaScript takes a year below 100 for one of the twentieth century.
ASSUME DatesAssumption == \A d \in Dates : d \in Nat /\ Date(100, 1, 1) <= d

easterWithoutCorrection(year) ==
    LET a == year % 19
        b == year \div 100
        c == year % 100
        h == (19 * a + b - (b \div 4) - ((b - ((b + 8) \div 25) + 1) \div 3) + 15) % 30
        s == h + ((32 + 2 * (b % 4) + 2 * (c \div 4) - h - (c % 4)) % 7) + 114
    IN Date(year, s \div 31, (s % 31) + 1)

\* Meeus, Jones and Butcher.
easterSunday(year) ==
    LET a == year % 19
        b == year \div 100
        c == year % 100
        g == (b - ((b + 8) \div 25) + 1) \div 3
        h == (19 * a + b - (b \div 4) - g + 15) % 30
        l == (32 + 2 * (b % 4) + 2 * (c \div 4) - h - (c % 4)) % 7
        m == (a + 11 * h + 22 * l) \div 451
        s == h + l - 7 * m + 114
    IN Date(year, s \div 31, (s % 31) + 1)

\* The holidays of one year; of two on one date the later one stays.
bernHolidays(year) ==
    LET easter == easterSunday(year)
    IN <<[on |-> Date(year, 1, 1), name |-> "Neujahr"],
         [on |-> Date(year, 1, 2), name |-> "Berchtoldstag"],
         [on |-> easter - 2, name |-> "Karfreitag"],
         [on |-> easter + 1, name |-> "Ostermontag"],
         [on |-> easter + 39, name |-> "Auffahrt"],
         [on |-> easter + 50, name |-> "Pfingstmontag"],
         [on |-> Date(year, 8, 1), name |-> "Bundesfeier"],
         [on |-> Date(year, 12, 25), name |-> "Weihnachten"],
         [on |-> Date(year, 12, 26), name |-> "Stephanstag"]>>

HolidayOn(hs, n) ==
    LET hits == {i \in DOMAIN hs : hs[i].on = n}
    IN IF hits = {} THEN None ELSE hs[Max(hits)].name

scheduleWarnings(n) ==
    LET holidays == bernHolidays(getFullYear(n))
    IN [friday |-> getDay(n) = 5, today |-> HolidayOn(holidays, n), next |-> HolidayOn(holidays, n + 1)]

-----------------------------------------------------------------------------
(* Actions *)

Init ==
    /\ page = "list" /\ now = T0
    /\ rollouts = <<>>
    /\ list = NewList(T0)
    /\ timeline = NewTimeline(T0)
    /\ picked = None

\* The router creates the component of the page.
Open(p) ==
    /\ page' = p
    /\ rollouts' = <<>>
    /\ list' = NewList(now)
    /\ timeline' = NewTimeline(now)
    /\ picked' = None
    /\ UNCHANGED now

Tick ==
    /\ now < MaxTime
    /\ now' = now + 1
    /\ UNCHANGED <<page, rollouts, list, timeline, picked>>

\* A refetch is answered, or fails and is taken for an empty answer.
\* filteredRows reads the clock when it is computed and the labels when the template
\* is rendered (OnPush), neither of them when time passes.
Refetch(answer) ==
    /\ page \in {"list", "timeline"}
    /\ rollouts' = answer
    /\ list' = [list EXCEPT !.loaded = page = "list", !.asOf = now, !.rendered = now]
    /\ UNCHANGED <<page, now, timeline, picked>>

RefetchFails == Refetch(<<>>)

SetFilter(field, value) ==
    /\ page = "list" /\ list[field] # value
    /\ list' = [list EXCEPT ![field] = value, !.asOf = now, !.rendered = now]
    /\ UNCHANGED <<page, now, rollouts, timeline, picked>>

\* A click that sets a filter to the value it has, or opens the create dialog,
\* renders the list again and recomputes nothing.
ClickOther ==
    /\ page = "list"
    /\ list' = [list EXCEPT !.rendered = now]
    /\ UNCHANGED <<page, now, rollouts, timeline, picked>>

stepWeek(delta) ==
    /\ page = "timeline"
    /\ Abs(timeline.offset + delta) <= MaxOffset
    /\ timeline' = [timeline EXCEPT !.offset = @ + delta]
    /\ UNCHANGED <<page, now, rollouts, list, picked>>

resetToToday ==
    /\ page = "timeline"
    /\ timeline' = [timeline EXCEPT !.offset = -3]
    /\ UNCHANGED <<page, now, rollouts, list, picked>>

Resize(width) ==
    /\ page = "timeline"
    /\ timeline' = [timeline EXCEPT !.days = fitDays(width)]
    /\ UNCHANGED <<page, now, rollouts, list, picked>>

\* Bound: one date per opening of the dialog; no date depends on another.
Pick(d) ==
    /\ page = "create" /\ picked = None
    /\ picked' = d
    /\ UNCHANGED <<page, now, rollouts, list, timeline>>

Next ==
    \/ \E p \in {"list", "timeline", "create"} : Open(p)
    \/ Tick
    \/ \E answer \in Answers : Refetch(answer)
    \/ RefetchFails
    \/ \E w \in {"upcoming", "all", "past"} : SetFilter("window", w)
    \/ \E s \in {"all", "scheduled", "active", "blocked", "done"} : SetFilter("status", s)
    \/ \E p \in {"all", "operator"} : SetFilter("product", p)
    \/ ClickOther
    \/ stepWeek(-7) \/ stepWeek(7) \/ resetToToday
    \/ \E width \in Widths : Resize(width)
    \/ \E d \in Dates : Pick(d)

Spec == Init /\ [][Next]_vars

-----------------------------------------------------------------------------
(* Properties *)

Shown == filteredRows(rollouts, list)

\* The list groups what the filters leave by date, once per date and in order,
\* although the groups are opened by comparing neighbours only
\* (list-view.component.ts, groups).  A window filter computed in the past errs
\* on one side only: a stage still to come is never missing from "upcoming" and
\* never among "past".  A status button counts what pressing it would show.
ListComplete ==
    page = "list" =>
        LET gs == groups(Shown)
        IN /\ FlattenSeq([i \in DOMAIN gs |-> gs[i].rows]) = Shown
           /\ \A i, j \in DOMAIN gs : i < j => gs[i].key < gs[j].key
           /\ \A i \in DOMAIN gs : \A k \in DOMAIN gs[i].rows :
                 UtcDay(gs[i].rows[k].start) = gs[i].key
           /\ \A i \in DOMAIN Shown : list.window = "past" => Shown[i].start < now
           /\ \A i \in DOMAIN Rows(rollouts) :
                 LET r == Rows(rollouts)[i]
                 IN r.start >= now /\ list.window = "upcoming" /\ list.status = "all"
                       /\ list.product \in {"all", r.product} => r \in Range(Shown)
           /\ list.window = "all" /\ list.product = "all" =>
                 Len(Shown) = statusCounts(rollouts, list.status)

\* What the labels on the screen say of the first stage of a group.  A label is
\* right for the moment the list was rendered: on its side of that moment, and to
\* half a day, except that within half a day but on another UTC date the difference
\* rounds to zero and the label is "0 week ago", before and after the stage alike
\* (the prototype's relativeDay has a branch for zero that relDay lost).  On a list
\* left open "tomorrow" grows stale, but what is said to be past is past, and under
\* "past" no group is announced for the future although filter and label read the
\* clock at different times (list-view.component.ts, relDay, filteredRows).
LabelHonest ==
    page = "list" =>
        LET gs == groups(Shown)
            at == list.rendered
        IN \A i \in DOMAIN gs :
              LET dist == gs[i].date - at
                  label == relDay(gs[i].date, at)
              IN /\ \/ label.says = "today" /\ Abs(dist) < DayLen /\ isToday(gs[i].date, at)
                    \/ /\ label = [says |-> "weeks ago", n |-> 0]
                       /\ 2 * Abs(dist) <= DayLen /\ ~isToday(gs[i].date, at)
                       /\ dayLabel(gs[i].date, at).says \in {"past", "today", "tomorrow"}
                    \/ /\ label.says \in {"tomorrow", "in days"} /\ dist > 0
                       /\ 2 * Abs(dist - label.n * DayLen) <= DayLen
                    \/ /\ label.says = "days ago" /\ dist < 0
                       /\ 2 * Abs(dist + label.n * DayLen) <= DayLen
                    \/ label.says = "in weeks" /\ 2 * dist >= 13 * DayLen
                    \/ label.says = "weeks ago" /\ label.n > 0 /\ 2 * dist <= -13 * DayLen
                 /\ label.says = "days ago" \/ (label.says = "weeks ago" /\ label.n > 0) =>
                       gs[i].date < now
                 /\ list.window = "past" => label.says \notin {"tomorrow", "in days", "in weeks"}

Stages == {r.start : r \in Range(Rows(rollouts))}

marked(tl) == {i \in DOMAIN dayColumns(tl) : dayColumns(tl)[i].isToday}

\* No change of the clock between today and the columns of the window.
Steady(tl) ==
    \A u \in {start(tl)} \union {addDays(start(tl), i) : i \in 0..(tl.days - 1)} :
        ZoneAt(u) = ZoneAt(tl.today) /\ LocalTime(u) = LocalTime(tl.today)

\* The timeline counts columns in days of 24 hours from the time of day at which the
\* page was opened, where the prototype counts them from midnight, and labels them
\* with local dates.  The columns carry consecutive dates from the offset on.  A pill
\* stands in the column of its date, or one to the left when its time of day is
\* before that of the first column; when the clock changes between the two, a stage
\* within that hour of the time of day of the first column stands one column off.  A
\* lock covers the pills of the stages it blocks and a connector runs only to the
\* right.  The column with today's date is marked as today, and the line stands in
\* it, or one to the left when summer time began after the first column; without a
\* change in the window it is the only one marked and carries the line
\* (timeline-view.component.ts, dayColumns, timelineRows, todayIdx, lockOverlays,
\* cascadeStyle against timeline.jsx).
LayoutFollowsDesign ==
    page = "timeline" =>
        /\ \A i \in DOMAIN dayColumns(timeline) :
              dayColumns(timeline)[i].date = LocalDay(timeline.today) + timeline.offset + i
        /\ \A t \in Stages :
              LET drift == Index(timeline, t) - designIndex(timeline, t)
                  later == LocalTime(t) - LocalTime(start(timeline))
                  early == IF later < 0 THEN -1 ELSE 0
              IN \/ drift = early
                 \/ /\ ZoneAt(t) # ZoneAt(start(timeline))
                    /\ Abs(drift - early) = 1
                    /\ Abs(later) <= Shift \/ DayLen - Abs(later) <= Shift
        /\ \A t \in Stages, l \in Locks :
              l.startAt <= t /\ t <= l.endAt =>
                  LET o == lockOverlay(timeline, l)
                  IN o.left < pillLeft(Index(timeline, t)) /\ pillLeft(Index(timeline, t)) < o.left + o.width
        /\ \A column \in {-timeline.offset} \intersect DOMAIN dayColumns(timeline) :
              /\ column \in marked(timeline) /\ marked(timeline) \subseteq (column - 1)..(column + 1)
              /\ \/ todayIdx(timeline) = column
                 \/ /\ todayIdx(timeline) = column - 1
                    /\ start(timeline) < Spring + Shift /\ Spring <= timeline.today
        /\ Steady(timeline) =>
              marked(timeline) = {todayIdx(timeline)} \intersect DOMAIN dayColumns(timeline)
        /\ \A t, u \in Stages :
              LET c == cascadeStyle(Index(timeline, t), Index(timeline, u))
              IN c # None <=> t < u /\ Index(timeline, t) # Index(timeline, u)

\* Easter by the rule of the calendar: the first Sunday after the full moon that
\* the golden number and the epact of the year give.
EasterRule(y) ==
    LET golden == (y % 19) + 1
        sun == ((3 * ((y \div 100) + 1)) \div 4) - 12
        moon == ((8 * ((y \div 100) + 1) + 5) \div 25) - 5
        e == (11 * golden + 20 + moon - sun) % 30
        epact == IF (e = 25 /\ golden > 11) \/ e = 24 THEN e + 1 ELSE e
        full == Date(y, 3, 1) - 1 + (IF epact > 23 THEN 74 - epact ELSE 44 - epact)
    IN CHOOSE n \in (full + 1)..(full + 7) : n % 7 = 0

BernHoliday(n) ==
    \E y \in {getFullYear(n)} :
        \/ n \in {Date(y, 1, 1), Date(y, 1, 2), Date(y, 8, 1), Date(y, 12, 25), Date(y, 12, 26)}
        \/ n - EasterRule(y) \in {-2, 1, 39, 50}

\* The create dialog warns of Fridays, holidays and the days before a holiday, and
\* of nothing else, over whole years with an early, a late and a corrected Easter.
\* 31 December is left out: the holidays looked up are those of the date's own
\* year, so it is not known to be the day before New Year.
WarningsExact ==
    picked # None =>
        LET w == scheduleWarnings(picked)
        IN /\ w.friday <=> (picked - Date(2024, 3, 1)) % 7 = 0
           /\ w.today # None <=> BernHoliday(picked)
           /\ picked # Date(getFullYear(picked), 12, 31) =>
                 (w.next # None <=> BernHoliday(picked + 1))

=============================================================================
