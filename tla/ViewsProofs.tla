---------------------------- MODULE ViewsProofs ----------------------------
(***************************************************************************)
(* What the list, the timeline and the create dialog show, for any answers *)
(* of the API, locks, zone and summer time, length of a day, widths and    *)
(* dates.                                                                  *)
(***************************************************************************)
EXTENDS Views, FiniteSetTheorems, SequenceTheorems, TLAPS

-----------------------------------------------------------------------------
(* The state *)

Statuses == {"all", "scheduled", "active", "blocked", "done"}

Lists == [window : {"all", "upcoming", "past"}, status : Statuses, product : {"all", "operator"},
          loaded : BOOLEAN, asOf : Nat, rendered : Nat]

TypeInv ==
    /\ page \in {"list", "timeline", "create"}
    /\ now \in Nat
    /\ rollouts \in Seq(Rollouts)
    /\ list \in Lists
    /\ timeline \in [today : Nat, offset : Int, days : Nat]
    /\ picked \in Dates \union {None}

\* The filters were computed at a time in the past, and not after the last rendering.
ViewsInv == TypeInv /\ list.asOf <= list.rendered /\ list.rendered <= now

LEMMA NewPage ==
    ASSUME NEW n \in Nat
    PROVE  /\ NewList(n) \in Lists /\ NewList(n).asOf = n /\ NewList(n).rendered = n
           /\ NewTimeline(n) \in [today : Nat, offset : Int, days : Nat]
           /\ <<>> \in Seq(Rollouts)
<1>1. NewList(n) \in Lists /\ NewList(n).asOf = n /\ NewList(n).rendered = n
  BY DEF NewList, Lists, Statuses
<1>2. NewTimeline(n) \in [today : Nat, offset : Int, days : Nat]
  BY DEF NewTimeline
<1> QED BY <1>1, <1>2

LEMMA ViewsInit == Init => ViewsInv
<1> SUFFICES ASSUME Init PROVE ViewsInv
  OBVIOUS
<1>1. now = T0 /\ T0 \in Nat
  BY ViewsAssumption DEF Init, ViewsAssumption
<1>2. list \in Lists /\ list.asOf = now /\ list.rendered = now /\ rollouts \in Seq(Rollouts)
      /\ timeline \in [today : Nat, offset : Int, days : Nat]
  BY <1>1, NewPage DEF Init
<1> QED BY <1>1, <1>2 DEF Init, ViewsInv, TypeInv

LEMMA FitDays ==
    ASSUME NEW w \in Nat
    PROVE  fitDays(w) \in Nat
BY DEF fitDays, LABEL_W, DAY_W

LEMMA ViewsStep ==
    ASSUME ViewsInv, [Next]_vars
    PROVE  ViewsInv'
<1> USE ViewsAssumption DEF ViewsAssumption, ViewsInv, TypeInv
<1>1. ASSUME NEW p \in {"list", "timeline", "create"}, Open(p)
      PROVE  ViewsInv'
  <2>1. list' \in Lists /\ list'.asOf = now /\ list'.rendered = now /\ rollouts' \in Seq(Rollouts)
        /\ timeline' \in [today : Nat, offset : Int, days : Nat]
    BY <1>1, NewPage DEF Open
  <2> QED BY <1>1, <2>1 DEF Open
<1>2. CASE Tick
  BY <1>2 DEF Tick, Lists
<1>3. ASSUME NEW answer \in Seq(Rollouts), Refetch(answer)
      PROVE  ViewsInv'
  <2>1. list' \in Lists /\ list'.asOf = now /\ list'.rendered = now
    BY <1>3 DEF Refetch, Lists
  <2> QED BY <1>3, <2>1 DEF Refetch
<1>4. CASE \E answer \in Answers : Refetch(answer)
  BY <1>3, <1>4
<1>5. CASE RefetchFails
  BY <1>3, <1>5, NewPage DEF RefetchFails
<1>6. CASE \E w \in {"upcoming", "all", "past"} : SetFilter("window", w)
  <2>1. list' \in Lists /\ list'.asOf = now /\ list'.rendered = now
    BY <1>6 DEF SetFilter, Lists, Statuses
  <2>2. UNCHANGED <<page, now, rollouts, timeline, picked>>
    BY <1>6 DEF SetFilter
  <2> QED BY <2>1, <2>2
<1>7. CASE \E s \in {"all", "scheduled", "active", "blocked", "done"} : SetFilter("status", s)
  <2>1. list' \in Lists /\ list'.asOf = now /\ list'.rendered = now
    BY <1>7 DEF SetFilter, Lists, Statuses
  <2>2. UNCHANGED <<page, now, rollouts, timeline, picked>>
    BY <1>7 DEF SetFilter
  <2> QED BY <2>1, <2>2
<1>8. CASE \E p \in {"all", "operator"} : SetFilter("product", p)
  <2>1. list' \in Lists /\ list'.asOf = now /\ list'.rendered = now
    BY <1>8 DEF SetFilter, Lists, Statuses
  <2>2. UNCHANGED <<page, now, rollouts, timeline, picked>>
    BY <1>8 DEF SetFilter
  <2> QED BY <2>1, <2>2
<1>9. CASE stepWeek(-7) \/ stepWeek(7) \/ resetToToday
  <2>1. timeline' \in [today : Nat, offset : Int, days : Nat]
    <3>1. \A o \in Int : [timeline EXCEPT !.offset = o] \in [today : Nat, offset : Int, days : Nat]
      OBVIOUS
    <3>2. timeline.offset - 7 \in Int /\ timeline.offset + 7 \in Int /\ -3 \in Int
      OBVIOUS
    <3>3. \E o \in Int : timeline' = [timeline EXCEPT !.offset = o]
      BY <1>9, <3>2 DEF stepWeek, resetToToday
    <3> QED BY <3>1, <3>3, Zenon
  <2>2. UNCHANGED <<page, now, rollouts, list, picked>>
    BY <1>9 DEF stepWeek, resetToToday
  <2> QED BY <2>1, <2>2
<1>10. CASE \E width \in Widths : Resize(width)
  BY <1>10, FitDays DEF Resize
<1>11. CASE \E d \in Dates : Pick(d)
  BY <1>11 DEF Pick
<1>12. CASE UNCHANGED vars
  BY <1>12 DEF vars
<1>13. CASE ClickOther
  <2>1. list' \in Lists /\ list'.asOf = list.asOf /\ list'.rendered = now
    BY <1>13 DEF ClickOther, Lists
  <2>2. list.asOf \in Nat /\ list.rendered \in Nat
    BY DEF Lists
  <2>3. UNCHANGED <<page, now, rollouts, timeline, picked>>
    BY <1>13 DEF ClickOther
  <2> QED BY <2>1, <2>2, <2>3
<1> QED BY <1>1, <1>2, <1>4, <1>5, <1>6, <1>7, <1>8, <1>9, <1>10, <1>11, <1>12, <1>13 DEF Next

LEMMA ViewsHold == Spec => []ViewsInv
BY ViewsInit, ViewsStep, PTL DEF Spec

-----------------------------------------------------------------------------
(* Recursion over an index, and over the set a fold takes its elements from *)

Below == {p \in Nat \X Nat : p[1] < p[2]}

LEMMA NatMin ==
    ASSUME NEW T, T \subseteq Nat, T # {}
    PROVE  \E m \in T : \A k \in T : m <= k
<1>1. IsWellFoundedOn(Below, Nat)
  <2>1. IsWellFoundedOn(OpToRel(<, Nat), Nat)
    BY NatLessThanWellFounded
  <2>2. OpToRel(<, Nat) = Below
    BY DEF OpToRel, Below
  <2> QED BY <2>1, <2>2
<1>2. PICK m \in T : \A k \in T : ~ (<<k, m>> \in Below)
  BY <1>1, WFMin
<1>3. ASSUME NEW k \in T PROVE m <= k
  <2>1. k \in Nat /\ m \in Nat
    OBVIOUS
  <2>2. <<k, m>> \notin Below
    BY <1>2, Zenon
  <2>3. ~ (k < m)
    BY <2>1, <2>2 DEF Below
  <2> QED BY <2>1, <2>3
<1> QED BY <1>3

\* Induction, for a set of numbers in the place of a predicate.
LEMMA NatInduct ==
    ASSUME NEW T, 0 \in T, \A n \in Nat : n \in T => n + 1 \in T
    PROVE  \A n \in Nat : n \in T
<1> SUFFICES ASSUME NEW n \in Nat, n \notin T PROVE FALSE
  OBVIOUS
<1>1. PICK m \in Nat \ T : \A k \in Nat \ T : m <= k
  BY NatMin
<1>2. m # 0 /\ m - 1 \in Nat /\ ~ (m <= m - 1)
  BY <1>1
<1>3. m - 1 \in T
  BY <1>1, <1>2
<1>4. (m - 1) + 1 \in T /\ (m - 1) + 1 = m
  BY <1>2, <1>3
<1> QED BY <1>1, <1>4

LEMMA MaxOf ==
    ASSUME NEW m \in Nat, NEW q, q \subseteq 1..m, q # {}
    PROVE  Max(q) \in q /\ \A y \in q : y <= Max(q)
<1> DEFINE U == {k \in Nat : \A y \in q : y <= k}
<1>1. PICK k \in U : \A j \in U : k <= j
  <2>1. m \in U
    OBVIOUS
  <2> QED BY <2>1, NatMin
<1>2. k \in q
  <2> SUFFICES ASSUME k \notin q PROVE FALSE
    OBVIOUS
  <2>1. PICK y \in q : y \in 1..m
    OBVIOUS
  <2>2. k - 1 \in U
    BY <1>1, <2>1
  <2> QED BY <1>1, <2>2
<1>3. \E x \in q : \A y \in q : x >= y
  BY <1>1, <1>2
<1>4. Max(q) \in q /\ \A y \in q : Max(q) >= y
  BY <1>3, Zenon DEF Max
<1> QED BY <1>4

LEMMA MaxIs ==
    ASSUME NEW m \in Nat, NEW q, q \subseteq 1..m, m \in q
    PROVE  Max(q) = m
<1>1. Max(q) \in 1..m /\ m <= Max(q)
  BY MaxOf
<1> QED BY <1>1

Iterates(f, n, b, step) == f[0] = b /\ \A i \in 1..n : f[i] = step[<<f[i - 1], i>>]

TakesLargest(g, n, b, step) ==
    \A q \in SUBSET (1..n) : g[q] = IF q = {} THEN b ELSE step[<<g[q \ {Max(q)}], Max(q)>>]

\* A recursion over an index has a solution.
LEMMA IterationExists ==
    ASSUME NEW n \in Nat, NEW S, NEW b \in S, NEW step \in [S \X (1..n) -> S]
    PROVE  \E f \in [0..n -> S] : Iterates(f, n, b, step)
<1> DEFINE Solves(f, m) == f[0] = b /\ \A i \in 1..m : f[i] = step[<<f[i - 1], i>>]
           T == {m \in Nat : m <= n => \E f \in [0..m -> S] : Solves(f, m)}
<1>1. 0 \in T
  <2>1. [i \in 0..0 |-> b] \in [0..0 -> S] /\ Solves([i \in 0..0 |-> b], 0)
    OBVIOUS
  <2> QED BY <2>1
<1>2. ASSUME NEW m \in Nat, m \in T PROVE m + 1 \in T
  <2> SUFFICES ASSUME m + 1 <= n PROVE \E f \in [0..(m + 1) -> S] : Solves(f, m + 1)
    OBVIOUS
  <2>1. PICK f \in [0..m -> S] : Solves(f, m)
    BY <1>2
  <2> DEFINE g == [i \in 0..(m + 1) |-> IF i = m + 1 THEN step[<<f[m], m + 1>>] ELSE f[i]]
  <2>2. <<f[m], m + 1>> \in S \X (1..n)
    OBVIOUS
  <2>3. g \in [0..(m + 1) -> S]
    BY <2>2
  <2>4. g[0] = b /\ \A i \in 0..m : g[i] = f[i]
    BY <2>1
  <2>5. ASSUME NEW i \in 1..(m + 1) PROVE g[i] = step[<<g[i - 1], i>>]
    <3>1. i - 1 \in 0..m /\ g[i - 1] = f[i - 1]
      BY <2>4
    <3>2. CASE i = m + 1
      <4>1. g[m + 1] = step[<<f[m], m + 1>>] /\ g[m] = f[m] /\ i - 1 = m
        BY <3>2
      <4> HIDE DEF g
      <4> QED BY <3>2, <4>1
    <3>3. CASE i \in 1..m
      <4>1. g[i] = f[i] /\ f[i] = step[<<f[i - 1], i>>]
        BY <2>1, <2>4, <3>3
      <4> HIDE DEF g
      <4> QED BY <3>1, <4>1
    <3> QED BY <3>2, <3>3
  <2> QED BY <2>3, <2>4, <2>5
<1> HIDE DEF T
<1>3. n \in T
  BY <1>1, <1>2, NatInduct
<1> QED BY <1>3 DEF T, Iterates

\* So has the recursion of MapThenFoldSet, which takes the largest element of a set.
LEMMA SetFoldExists ==
    ASSUME NEW n \in Nat, NEW S, NEW b \in S, NEW step \in [S \X (1..n) -> S]
    PROVE  \E g \in [SUBSET (1..n) -> S] : TakesLargest(g, n, b, step)
<1> DEFINE Solves(g, m) == \A q \in SUBSET (1..m) :
              g[q] = IF q = {} THEN b ELSE step[<<g[q \ {Max(q)}], Max(q)>>]
           Solvable(m) == \E g \in [SUBSET (1..m) -> S] : Solves(g, m)
           T == {m \in Nat : m <= n => Solvable(m)}
<1>1. Solvable(0)
  <2> DEFINE g == [q \in SUBSET (1..0) |-> b]
  <2>1. g \in [SUBSET (1..0) -> S]
    OBVIOUS
  <2>2. Solves(g, 0)
    <3>1. 1..0 = {}
      OBVIOUS
    <3> QED BY <3>1
  <2> QED BY <2>1, <2>2
<1>2. ASSUME NEW m \in Nat, m + 1 <= n, Solvable(m) PROVE Solvable(m + 1)
  <2>1. PICK g \in [SUBSET (1..m) -> S] : Solves(g, m)
    BY <1>2
  <2> DEFINE h == [q \in SUBSET (1..(m + 1)) |->
                      IF m + 1 \in q THEN step[<<g[q \ {m + 1}], m + 1>>] ELSE g[q]]
  <2>2. \A q \in SUBSET (1..(m + 1)) : q \ {m + 1} \in SUBSET (1..m)
    OBVIOUS
  <2>3. h \in [SUBSET (1..(m + 1)) -> S]
    <3> SUFFICES ASSUME NEW q \in SUBSET (1..(m + 1)) PROVE h[q] \in S
      BY Zenon
    <3>1. CASE m + 1 \in q
      <4>1. g[q \ {m + 1}] \in S /\ m + 1 \in 1..n
        BY <1>2, <2>2
      <4> QED BY <3>1, <4>1
    <3>2. CASE m + 1 \notin q
      <4>1. q \in SUBSET (1..m)
        BY <2>2, <3>2
      <4> QED BY <3>2, <4>1
    <3> QED BY <3>1, <3>2
  <2>4. ASSUME NEW q \in SUBSET (1..m) PROVE q \in SUBSET (1..(m + 1)) /\ h[q] = g[q]
    <3>1. q \in SUBSET (1..(m + 1)) /\ m + 1 \notin q
      OBVIOUS
    <3> QED BY <3>1
  <2>5. ASSUME NEW q \in SUBSET (1..(m + 1))
        PROVE h[q] = IF q = {} THEN b ELSE step[<<h[q \ {Max(q)}], Max(q)>>]
    <3>1. CASE m + 1 \in q
      <4>1. Max(q) = m + 1
        <5>1. m + 1 \in Nat /\ q \subseteq 1..(m + 1)
          OBVIOUS
        <5> QED BY <3>1, <5>1, MaxIs, Zenon
      <4>2. h[q \ {m + 1}] = g[q \ {m + 1}]
        BY <2>2, <2>4
      <4>3. h[q] = step[<<g[q \ {m + 1}], m + 1>>]
        BY <3>1
      <4> HIDE DEF h
      <4> QED BY <3>1, <4>1, <4>2, <4>3
    <3>2. CASE m + 1 \notin q
      <4>1. q \in SUBSET (1..m)
        BY <2>2, <3>2
      <4>2. h[q] = g[q] /\ h[q \ {Max(q)}] = g[q \ {Max(q)}]
        BY <2>4, <4>1
      <4> HIDE DEF h
      <4> QED BY <2>1, <4>1, <4>2
    <3> QED BY <3>1, <3>2
  <2> QED BY <2>3, <2>5
<1> HIDE DEF Solvable
<1>3. 0 \in T /\ \A m \in Nat : m \in T => m + 1 \in T
  BY <1>1, <1>2
<1>4. n \in T
  <2> HIDE DEF T
  <2> QED BY <1>3, NatInduct
<1>5. Solvable(n)
  BY <1>4
<1> QED BY <1>5, Zenon DEF Solvable, TakesLargest

LEMMA Prefix ==
    ASSUME NEW n \in Nat, NEW k \in 1..n
    PROVE  /\ 1..k \in SUBSET (1..n) /\ 1..k # {} /\ Max(1..k) = k
           /\ (1..k) \ {k} = 1..(k - 1)
<1>1. 1..k \in SUBSET (1..n) /\ k \in 1..k
  OBVIOUS
<1>2. Max(1..k) = k
  BY <1>1, MaxIs
<1> QED BY <1>1, <1>2

-----------------------------------------------------------------------------
(* Days: division by the length of a day *)

LEMMA DivDef ==
    ASSUME NEW a \in Int, NEW b \in Nat \ {0}
    PROVE  /\ a \div b \in Int /\ a % b \in Int
           /\ 0 <= a % b /\ a % b < b
           /\ a = (b * (a \div b)) + (a % b)
OBVIOUS

LEMMA TimesMono ==
    ASSUME NEW p \in Int, NEW q \in Int, NEW b \in Nat, p <= q
    PROVE  b * p <= b * q
OBVIOUS

LEMMA DivUnique ==
    ASSUME NEW a \in Int, NEW b \in Nat \ {0}, NEW q \in Int, b * q <= a, a < (b * q) + b
    PROVE  a \div b = q
<1> DEFINE d == a \div b
<1>1. d \in Int /\ b * d <= a /\ a < (b * d) + b
  BY DivDef
<1>2. ~ (d + 1 <= q)
  <2> SUFFICES ASSUME d + 1 <= q PROVE FALSE
    OBVIOUS
  <2>1. b * (d + 1) <= b * q
    BY <1>1, TimesMono
  <2> QED BY <1>1, <2>1
<1>3. ~ (q + 1 <= d)
  <2> SUFFICES ASSUME q + 1 <= d PROVE FALSE
    OBVIOUS
  <2>1. b * (q + 1) <= b * d
    BY <1>1, TimesMono
  <2> QED BY <1>1, <2>1
<1> HIDE DEF d
<1>4. d = q
  BY <1>1, <1>2, <1>3
<1> QED BY <1>4 DEF d

LEMMA DivMono ==
    ASSUME NEW a \in Int, NEW c \in Int, NEW b \in Nat \ {0}, a <= c
    PROVE  a \div b <= c \div b
<1> DEFINE d == a \div b
           e == c \div b
<1>1. d \in Int /\ b * d <= a /\ e \in Int /\ c < (b * e) + b
  BY DivDef
<1>2. ~ (e + 1 <= d)
  <2> SUFFICES ASSUME e + 1 <= d PROVE FALSE
    OBVIOUS
  <2>1. b * (e + 1) <= b * d
    BY <1>1, TimesMono
  <2> QED BY <1>1, <2>1
<1> HIDE DEF d, e
<1>3. d <= e
  BY <1>1, <1>2
<1> QED BY <1>3 DEF d, e

\* Whole days added to a time add to its day.
LEMMA DivDays ==
    ASSUME NEW a \in Int, NEW b \in Nat \ {0}, NEW k \in Int
    PROVE  (a + k * b) \div b = (a \div b) + k
<1> DEFINE d == a \div b
<1>1. d \in Int /\ b * d <= a /\ a < (b * d) + b
  BY DivDef
<1> HIDE DEF d
<1>2. b * (d + k) = (b * d) + (k * b) /\ k * b \in Int
  BY <1>1
<1>3. b * (d + k) <= a + k * b /\ a + k * b < (b * (d + k)) + b
  BY <1>1, <1>2
<1>4. (a + k * b) \div b = d + k
  BY <1>1, <1>2, <1>3, DivUnique
<1> QED BY <1>4 DEF d

LEMMA DayAndZone ==
    /\ DayLen \in Nat \ {0} /\ Zone \in Int /\ 0 <= Zone /\ Zone < DayLen
    /\ Shift \in Nat /\ Spring \in Int /\ Autumn \in Int
    /\ Spring % DayLen = Autumn % DayLen /\ Spring % DayLen \in Int
    /\ Shift <= Spring % DayLen /\ (Spring % DayLen) + Zone + 3 * Shift <= DayLen
<1>1. Spring % DayLen \in Int
  BY ViewsAssumption, DivDef DEF ViewsAssumption
<1> QED BY <1>1, ViewsAssumption DEF ViewsAssumption

LEMMA Bounds ==
    /\ DayLen \in Nat \ {0} /\ Zone \in Int /\ Shift \in Nat /\ Spring \in Int /\ Autumn \in Int
    /\ 0 <= Zone /\ Zone + Shift < DayLen /\ 4 * Shift <= DayLen
<1> DEFINE c == Spring % DayLen
<1>1. c \in Int /\ Shift <= c /\ c + Zone + 3 * Shift <= DayLen
  BY DayAndZone
<1> HIDE DEF c
<1> QED BY <1>1, DayAndZone

LEMMA ZoneIs ==
    ASSUME NEW t \in Int
    PROVE  /\ ZoneAt(t) \in {Zone, Zone + Shift} /\ ZoneAt(t) \in Int /\ Local(t) \in Int
           /\ Zone <= ZoneAt(t) /\ ZoneAt(t) <= Zone + Shift /\ 0 <= ZoneAt(t) /\ ZoneAt(t) < DayLen
           /\ Local(t) = t + ZoneAt(t)
BY Bounds DEF ZoneAt, Local

LEMMA DayOf ==
    ASSUME NEW t \in Int
    PROVE  /\ UtcDay(t) \in Int /\ LocalDay(t) \in Int /\ LocalTime(t) \in 0..(DayLen - 1)
           /\ DayLen * LocalDay(t) \in Int
           /\ t = (DayLen * LocalDay(t)) + LocalTime(t) - ZoneAt(t)
           /\ Local(t) = (DayLen * LocalDay(t)) + LocalTime(t)
<1>1. DayLen \in Nat \ {0} /\ Local(t) \in Int /\ ZoneAt(t) \in Int
  BY DayAndZone, ZoneIs
<1>2. UtcDay(t) \in Int
  BY <1>1, DivDef DEF UtcDay
<1>3. LocalDay(t) \in Int /\ LocalTime(t) \in Int /\ 0 <= LocalTime(t) /\ LocalTime(t) < DayLen
      /\ Local(t) = (DayLen * LocalDay(t)) + LocalTime(t)
  BY <1>1, DivDef DEF LocalDay, LocalTime
<1>4. DayLen * LocalDay(t) \in Int
  BY <1>1, <1>3
<1>5. t = Local(t) - ZoneAt(t)
  BY <1>1 DEF Local
<1> QED BY <1>1, <1>2, <1>3, <1>4, <1>5

\* A date and a time of day determine each other's parts.
LEMMA DayAndTime ==
    ASSUME NEW t \in Int, NEW d \in Int, NEW r \in 0..(DayLen - 1), Local(t) = (DayLen * d) + r
    PROVE  LocalDay(t) = d /\ LocalTime(t) = r
<1>1. DayLen \in Nat \ {0} /\ DayLen * d \in Int /\ Local(t) \in Int
  BY DayAndZone
<1>2. LocalDay(t) = d
  <2>1. DayLen * d <= Local(t) /\ Local(t) < (DayLen * d) + DayLen
    BY <1>1
  <2> QED BY <1>1, <2>1, DivUnique DEF LocalDay
<1>3. Local(t) = (DayLen * LocalDay(t)) + LocalTime(t) /\ LocalTime(t) \in Int
  BY <1>1, DivDef DEF LocalDay, LocalTime
<1> QED BY <1>1, <1>2, <1>3

\* The instant of a local time has it, unless it is in the hour skipped in spring.
Skipped(l) == Spring <= l - Zone /\ l - Zone - Shift < Spring /\ l - Zone < Autumn

LEMMA InstantIs ==
    ASSUME NEW l \in Int
    PROVE  /\ Instant(l) \in Int
           /\ ~Skipped(l) => Local(Instant(l)) = l
           /\ Skipped(l) => /\ Local(Instant(l)) = l + Shift /\ Instant(l) = l - Zone
                            /\ ZoneAt(Instant(l)) = Zone + Shift
<1> USE DayAndZone
<1>1. l - Zone - Shift \in Int /\ l - Zone \in Int
  OBVIOUS
<1> QED BY <1>1 DEF Instant, Local, ZoneAt, Skipped

\* The instant u has the time of day of t, or t names an hour skipped on the date of u.
KeepsTime(t, u) ==
    \/ LocalTime(u) = LocalTime(t)
    \/ /\ LocalTime(u) = LocalTime(t) + Shift /\ ZoneAt(u) = Zone + Shift
       /\ (Spring % DayLen) + Zone <= LocalTime(t) /\ LocalTime(t) < (Spring % DayLen) + Zone + Shift
       /\ Spring <= u /\ u < Spring + Shift

LEMMA AddDays ==
    ASSUME NEW t \in Int, NEW k \in Int
    PROVE  /\ addDays(t, k) \in Int
           /\ LocalDay(addDays(t, k)) = LocalDay(t) + k
           /\ KeepsTime(t, addDays(t, k))
<1> DEFINE D == DayLen
           d == LocalDay(t) + k
           r == LocalTime(t)
           l == Local(t) + k * D
           u == addDays(t, k)
           c == Spring % D
<1>1. D \in Nat \ {0} /\ d \in Int /\ r \in 0..(D - 1) /\ Local(t) \in Int
      /\ Local(t) = (D * LocalDay(t)) + r /\ LocalDay(t) \in Int
  <2>1. D \in Nat \ {0} /\ LocalDay(t) \in Int /\ r \in 0..(D - 1) /\ Local(t) = (D * LocalDay(t)) + r
    BY Bounds, DayOf
  <2>2. Local(t) \in Int
    BY ZoneIs
  <2> HIDE DEF r, D
  <2> QED BY <2>1, <2>2
<1>2. u = Instant(l)
  BY DEF addDays
<1>3. k * D \in Int /\ l \in Int /\ D * d \in Int /\ l = (D * d) + r
  <2> HIDE DEF D, r
  <2>1. k * D \in Int /\ D * (LocalDay(t) + k) = (D * LocalDay(t)) + k * D /\ D * LocalDay(t) \in Int
    BY <1>1
  <2> QED BY <1>1, <2>1
<1> HIDE DEF d, l, u, D
<1>4. u \in Int
  BY <1>2, <1>3, InstantIs
<1>5. CASE ~Skipped(l)
  <2>1. Local(u) = (D * d) + r
    BY <1>2, <1>3, <1>5, InstantIs
  <2>2. LocalDay(u) = d /\ LocalTime(u) = r
    BY <1>1, <1>4, <2>1, DayAndTime DEF D
  <2> QED BY <1>4, <2>2 DEF KeepsTime, d, u
<1>6. CASE Skipped(l)
  <2>1. Local(u) = l + Shift /\ u = l - Zone /\ ZoneAt(u) = Zone + Shift
    BY <1>2, <1>3, <1>6, InstantIs
  <2> DEFINE q == Spring \div D
             y == l - Zone - Spring
             z == c + Zone + y
  <2>2. /\ q \in Int /\ c \in Int /\ D * q \in Int /\ Spring = (D * q) + c
        /\ Shift \in Nat /\ Zone \in Int /\ 0 <= Zone /\ Spring \in Int
        /\ Shift <= c /\ c + Zone + 3 * Shift <= D
    BY DayAndZone, DivDef DEF D
  <2>3. y \in Int /\ 0 <= y /\ y < Shift /\ u = Spring + y
    BY <1>3, <1>6, <2>1, <2>2 DEF Skipped
  <2> HIDE DEF q, c, y
  <2>4. z \in 0..(D - 1) /\ z + Shift \in 0..(D - 1) /\ l = (D * q) + z
    BY <1>1, <1>3, <2>2, <2>3 DEF y
  <2>5. l \div D = q /\ l \div D = d
    <3>1. D * q <= l /\ l < (D * q) + D /\ D * d <= l /\ l < (D * d) + D
      BY <1>1, <1>3, <2>2, <2>4
    <3> QED BY <1>1, <1>3, <2>2, <3>1, DivUnique
  <2>6. q = d /\ r = z
    <3>1. q = d
      BY <2>5
    <3>2. (D * d) + r = (D * d) + z
      BY <1>3, <2>4, <3>1
    <3>3. r \in Int /\ z \in Int
      BY <1>1, <2>4
    <3> HIDE DEF r, z
    <3> QED BY <1>3, <3>1, <3>2, <3>3
  <2>7. Local(u) = (D * d) + (r + Shift)
    BY <1>1, <1>3, <2>1, <2>2
  <2>8. LocalDay(u) = d /\ LocalTime(u) = r + Shift
    BY <1>1, <1>4, <2>4, <2>6, <2>7, DayAndTime DEF D
  <2>9. c + Zone <= r /\ r < c + Zone + Shift /\ Spring <= u /\ u < Spring + Shift
    BY <2>2, <2>3, <2>6
  <2> QED BY <1>4, <2>1, <2>8, <2>9 DEF KeepsTime, d, u, c, D
<1> QED BY <1>5, <1>6

\* The UTC date of an instant is its local date or the day before.
LEMMA UtcOfLocal ==
    ASSUME NEW t \in Int
    PROVE  UtcDay(t) = LocalDay(t) - (IF LocalTime(t) < ZoneAt(t) THEN 1 ELSE 0)
<1> DEFINE D == DayLen
           d == LocalDay(t)
           r == LocalTime(t)
           z == ZoneAt(t)
           e == d - (IF r < z THEN 1 ELSE 0)
<1>1. D \in Nat \ {0} /\ d \in Int /\ r \in 0..(D - 1) /\ z \in Int /\ 0 <= z /\ z < D
      /\ D * d \in Int /\ t = (D * d) + r - z
  BY Bounds, DayOf, ZoneIs
<1> HIDE DEF D, d, r, z
<1>2. e \in Int /\ D * e = (D * d) - (IF r < z THEN D ELSE 0)
  BY <1>1
<1>3. D * e <= t /\ t < (D * e) + D
  BY <1>1, <1>2
<1>4. t \div D = e
  BY <1>1, <1>2, <1>3, DivUnique
<1> QED BY <1>4 DEF UtcDay, D, d, r, z

\* In the hours of the change and the hour after them the two dates agree.
LEMMA UtcAtChange ==
    ASSUME NEW t \in Int, (Spring % DayLen) + Zone <= LocalTime(t),
           LocalTime(t) < (Spring % DayLen) + Zone + 2 * Shift
    PROVE  UtcDay(t) = LocalDay(t)
<1>1. LocalTime(t) \in Int /\ ZoneAt(t) \in Int /\ ZoneAt(t) <= Zone + Shift /\ LocalDay(t) \in Int
  BY DayOf, ZoneIs, Bounds
<1>2. ~ (LocalTime(t) < ZoneAt(t))
  BY <1>1, DayAndZone
<1> QED BY <1>1, <1>2, UtcOfLocal

\* The two instants of a local time repeated in autumn are of one UTC date.
LEMMA UtcOfRepeated ==
    ASSUME NEW t \in Int, NEW u \in Int, LocalDay(t) = LocalDay(u), LocalTime(t) = LocalTime(u)
    PROVE  UtcDay(t) = UtcDay(u)
<1> DEFINE D == DayLen
           c == Autumn % D
           q == Autumn \div D
<1>1. /\ D \in Nat \ {0} /\ c \in Int /\ q \in Int /\ D * q \in Int /\ Autumn = (D * q) + c
      /\ Shift \in Nat /\ Zone \in Int /\ 0 <= Zone /\ Shift <= c /\ c + Zone + 3 * Shift <= D
  <2>1. D \in Nat \ {0} /\ Autumn \in Int /\ Shift \in Nat /\ Zone \in Int /\ 0 <= Zone
    BY Bounds
  <2>2. c = Spring % DayLen
    BY DayAndZone
  <2>3. Shift <= c /\ c + Zone + 3 * Shift <= D
    BY <2>2, DayAndZone
  <2>4. c \in Int /\ q \in Int /\ Autumn = (D * q) + c
    BY <2>1, DivDef
  <2>5. D * q \in Int
    <3> HIDE DEF D, q
    <3> QED BY <2>1, <2>4
  <2> QED BY <2>1, <2>3, <2>4, <2>5
<1>2. t + ZoneAt(t) = u + ZoneAt(u) /\ ZoneAt(t) \in Int /\ ZoneAt(u) \in Int
  BY DayOf, ZoneIs
<1> HIDE DEF D, c, q
<1>3. ASSUME NEW v \in Int, NEW w \in Int, v + ZoneAt(v) = w + ZoneAt(w), ZoneAt(v) = Zone + Shift, ZoneAt(w) = Zone,
             v # w
      PROVE  UtcDay(v) = UtcDay(w)
  <2>1. w = v + Shift /\ v < Autumn /\ Autumn <= w
    BY <1>1, <1>3, DayAndZone DEF ZoneAt
  <2>2. D * q <= v /\ v < (D * q) + D /\ D * q <= w /\ w < (D * q) + D
    BY <1>1, <2>1
  <2>3. v \div D = q /\ w \div D = q
    BY <1>1, <2>2, DivUnique
  <2> QED BY <2>3 DEF UtcDay, D
<1>4. CASE t = u
  BY <1>4
<1>5. CASE t # u
  <2>1. \/ ZoneAt(t) = Zone + Shift /\ ZoneAt(u) = Zone
        \/ ZoneAt(u) = Zone + Shift /\ ZoneAt(t) = Zone
    BY <1>1, <1>2, <1>5, ZoneIs
  <2> QED BY <1>2, <1>3, <1>5, <2>1
<1> QED BY <1>4, <1>5

-----------------------------------------------------------------------------
(* The timeline *)

Timelines == [today : Int, offset : Int, days : Nat]

LEMMA StartIs ==
    ASSUME NEW tl \in Timelines
    PROVE  /\ tl.today \in Int /\ tl.offset \in Int /\ tl.days \in Nat /\ start(tl) \in Int
           /\ LocalDay(start(tl)) = LocalDay(tl.today) + tl.offset
           /\ KeepsTime(tl.today, start(tl))
<1>1. tl.today \in Int /\ tl.offset \in Int /\ tl.days \in Nat
  BY DEF Timelines
<1> QED BY <1>1, AddDays DEF start

\* The column of an instant, measured from the time of day of the first column on a
\* clock that does not change.
Drift(tl, t) ==
    LET x == (LocalTime(t) - LocalTime(start(tl))) - (ZoneAt(t) - ZoneAt(start(tl)))
    IN IF x < -DayLen THEN -2 ELSE IF x < 0 THEN -1 ELSE IF x < DayLen THEN 0 ELSE 1

LEMMA IndexIs ==
    ASSUME NEW tl \in Timelines, NEW t \in Int
    PROVE  /\ Index(tl, t) \in Int /\ designIndex(tl, t) \in Int
           /\ Index(tl, t) = designIndex(tl, t) + Drift(tl, t)
<1> DEFINE D == DayLen
           b == start(tl)
           d == LocalDay(t)
           r == LocalTime(t)
           z == ZoneAt(t)
           e == LocalDay(b)
           s == LocalTime(b)
           y == ZoneAt(b)
           x == (r - s) - (z - y)
           drift == Drift(tl, t)
           i == d - e + drift
<1>1. /\ D \in Nat \ {0} /\ Shift \in Nat /\ 4 * Shift <= D /\ b \in Int
      /\ d \in Int /\ r \in 0..(D - 1) /\ z \in Int /\ D * d \in Int /\ t = (D * d) + r - z
      /\ e \in Int /\ s \in 0..(D - 1) /\ y \in Int /\ D * e \in Int /\ b = (D * e) + s - y
      /\ z - y <= Shift /\ y - z <= Shift
  <2>1. D \in Nat \ {0} /\ Shift \in Nat /\ 4 * Shift <= D /\ Zone \in Int
    BY Bounds
  <2>2. b \in Int
    BY StartIs
  <2>3. d \in Int /\ r \in 0..(D - 1) /\ D * d \in Int /\ t = (D * d) + r - z
    BY DayOf
  <2>4. e \in Int /\ s \in 0..(D - 1) /\ D * e \in Int /\ b = (D * e) + s - y
    BY <2>2, DayOf
  <2>5. z \in Int /\ y \in Int /\ Zone <= z /\ z <= Zone + Shift /\ Zone <= y /\ y <= Zone + Shift
    BY <2>2, ZoneIs
  <2> HIDE DEF D, b, d, r, z, e, s, y
  <2>6. z - y <= Shift /\ y - z <= Shift
    BY <2>1, <2>5
  <2> QED BY <2>1, <2>2, <2>3, <2>4, <2>5, <2>6
<1>2. designIndex(tl, t) = d - e
  <2>1. designIndex(tl, t) = d - LocalDay(tl.today) - tl.offset
    BY DEF designIndex
  <2>2. e = LocalDay(tl.today) + tl.offset /\ LocalDay(tl.today) \in Int /\ tl.offset \in Int
    BY StartIs, DayOf
  <2> HIDE DEF d, e
  <2> QED BY <1>1, <2>1, <2>2
<1>3. Index(tl, t) = (t - b) \div D
  BY DEF Index
<1>4. drift = IF x < -D THEN -2 ELSE IF x < 0 THEN -1 ELSE IF x < D THEN 0 ELSE 1
  BY DEF Drift
<1> HIDE DEF D, b, d, r, z, e, s, y, drift
<1>5. drift \in Int /\ D * drift \in Int /\ D * drift <= x /\ x < (D * drift) + D
  <2>1. x \in Int /\ -(2 * D) <= x /\ x < 2 * D
    BY <1>1
  <2> HIDE DEF x
  <2> QED BY <1>1, <1>4, <2>1
<1>6. i \in Int /\ D * i = (D * d) - (D * e) + (D * drift)
  BY <1>1, <1>5
<1>7. t - b \in Int /\ t - b = ((D * d) - (D * e)) + x
  BY <1>1
<1>8. D * i <= t - b /\ t - b < (D * i) + D
  <2>1. x \in Int
    BY <1>1
  <2> HIDE DEF x, i
  <2> QED BY <1>1, <1>5, <1>6, <1>7, <2>1
<1>9. (t - b) \div D = i
  <2> HIDE DEF i
  <2> QED BY <1>1, <1>6, <1>7, <1>8, DivUnique
<1>10. d - e \in Int
  BY <1>1
<1>11. Index(tl, t) = designIndex(tl, t) + drift /\ Index(tl, t) \in Int /\ designIndex(tl, t) \in Int
  BY <1>2, <1>3, <1>6, <1>9, <1>10
<1> QED BY <1>11 DEF drift

LEMMA IndexMono ==
    ASSUME NEW tl \in Timelines, NEW t \in Int, NEW u \in Int, t <= u
    PROVE  Index(tl, t) <= Index(tl, u)
<1> USE DayAndZone
<1>1. start(tl) \in Int
  BY StartIs
<1>2. t - start(tl) \in Int /\ u - start(tl) \in Int /\ t - start(tl) <= u - start(tl)
  BY <1>1
<1> QED BY <1>2, DivMono DEF Index

LEMMA ColumnOf ==
    ASSUME NEW tl \in Timelines, NEW i \in DOMAIN dayColumns(tl)
    PROVE  LET d == addDays(start(tl), i)
           IN /\ i \in Int /\ i \in 0..(tl.days - 1) /\ d \in Int
              /\ LocalDay(d) = LocalDay(tl.today) + tl.offset + i
              /\ KeepsTime(start(tl), d)
              /\ dayColumns(tl)[i].date = LocalDay(tl.today) + tl.offset + i
              /\ dayColumns(tl)[i].isToday <=> UtcDay(d) = UtcDay(tl.today)
<1> DEFINE d == addDays(start(tl), i)
<1>1. i \in 0..(tl.days - 1) /\ i \in Int /\ tl.today \in Int /\ tl.offset \in Int
      /\ start(tl) \in Int /\ LocalDay(start(tl)) = LocalDay(tl.today) + tl.offset
  BY StartIs DEF dayColumns
<1>2. d \in Int /\ LocalDay(d) = LocalDay(start(tl)) + i /\ KeepsTime(start(tl), d)
  BY <1>1, AddDays
<1>3. dayColumns(tl)[i].date = LocalDay(d)
      /\ dayColumns(tl)[i].isToday = (UtcDay(d) = UtcDay(tl.today))
  BY <1>1, Zenon DEF dayColumns
<1> HIDE DEF d
<1>4. LocalDay(d) = LocalDay(tl.today) + tl.offset + i
  BY <1>1, <1>2, DayOf
<1> QED BY <1>1, <1>2, <1>3, <1>4, Zenon DEF d

LEMMA PillOnDate ==
    ASSUME NEW tl \in Timelines, NEW t \in Int
    PROVE  LET drift == Index(tl, t) - designIndex(tl, t)
               later == LocalTime(t) - LocalTime(start(tl))
               early == IF later < 0 THEN -1 ELSE 0
           IN \/ drift = early
              \/ /\ ZoneAt(t) # ZoneAt(start(tl))
                 /\ Abs(drift - early) = 1
                 /\ Abs(later) <= Shift \/ DayLen - Abs(later) <= Shift
<1> DEFINE D == DayLen
           later == LocalTime(t) - LocalTime(start(tl))
           early == IF later < 0 THEN -1 ELSE 0
           off == ZoneAt(t) - ZoneAt(start(tl))
           drift == Index(tl, t) - designIndex(tl, t)
<1>1. /\ D \in Nat \ {0} /\ Shift \in Nat /\ 4 * Shift <= D
      /\ later \in Int /\ later < D /\ -later < D
      /\ off \in {0, Shift, -Shift} /\ (off = 0 <=> ZoneAt(t) = ZoneAt(start(tl)))
  <2>1. D \in Nat \ {0} /\ Shift \in Nat /\ 4 * Shift <= D /\ Zone \in Int
    BY Bounds
  <2>2. start(tl) \in Int
    BY StartIs
  <2>3. LocalTime(t) \in 0..(D - 1) /\ LocalTime(start(tl)) \in 0..(D - 1)
    BY <2>2, DayOf
  <2>4. ZoneAt(t) \in {Zone, Zone + Shift} /\ ZoneAt(start(tl)) \in {Zone, Zone + Shift}
    BY <2>2, ZoneIs
  <2> HIDE DEF D
  <2>5. later \in Int /\ later < D /\ -later < D
    BY <2>1, <2>3
  <2>6. off \in {0, Shift, -Shift} /\ (off = 0 <=> ZoneAt(t) = ZoneAt(start(tl)))
    BY <2>1, <2>4
  <2> QED BY <2>1, <2>5, <2>6
<1>2. drift = IF later - off < -D THEN -2 ELSE IF later - off < 0 THEN -1
              ELSE IF later - off < D THEN 0 ELSE 1
  <2>1. Drift(tl, t) = IF later - off < -D THEN -2 ELSE IF later - off < 0 THEN -1
                       ELSE IF later - off < D THEN 0 ELSE 1
    BY DEF Drift
  <2>2. Drift(tl, t) \in Int
    <3> HIDE DEF later, off, D
    <3> QED BY <2>1
  <2> HIDE DEF later, off, D
  <2> QED BY <2>1, <2>2, IndexIs
<1> HIDE DEF D, later, off, drift
<1>3. \/ drift = early
      \/ /\ off # 0
         /\ Abs(drift - early) = 1
         /\ Abs(later) <= Shift \/ D - Abs(later) <= Shift
  BY <1>1, <1>2 DEF Abs
<1> QED BY <1>1, <1>3 DEF drift, later, D

LEMMA LockCovers ==
    ASSUME NEW tl \in Timelines, NEW t \in Int, NEW l \in Locks, l.startAt <= t, t <= l.endAt
    PROVE  LET o == lockOverlay(tl, l)
           IN o.left < pillLeft(Index(tl, t)) /\ pillLeft(Index(tl, t)) < o.left + o.width
<1> DEFINE from == Index(tl, l.startAt)
           idx == Index(tl, t)
           to == Index(tl, l.endAt)
<1>1. l.startAt \in Int /\ l.endAt \in Int
  BY ViewsAssumption DEF ViewsAssumption
<1>2. from \in Int /\ idx \in Int /\ to \in Int /\ from <= idx /\ idx <= to
  BY <1>1, IndexIs, IndexMono
<1>3. lockOverlay(tl, l) = [left |-> from * DAY_W, width |-> (to - from + 1) * DAY_W]
  BY DEF lockOverlay
<1> HIDE DEF from, idx, to
<1>4. from * DAY_W < idx * DAY_W + 4 /\ idx * DAY_W + 4 < from * DAY_W + (to - from + 1) * DAY_W
  BY <1>2 DEF DAY_W
<1> QED BY <1>3, <1>4 DEF idx, pillLeft

\* The column with today's date is marked, and no column but its neighbours.
LEMMA TodayMarked ==
    ASSUME NEW tl \in Timelines, NEW column \in {-tl.offset} \intersect DOMAIN dayColumns(tl)
    PROVE  column \in marked(tl) /\ marked(tl) \subseteq (column - 1)..(column + 1)
<1> DEFINE now0 == tl.today
           b == start(tl)
           d == addDays(b, column)
           low == (Spring % DayLen) + Zone
<1>1. /\ tl.offset \in Int /\ column \in Int /\ column \in DOMAIN dayColumns(tl) /\ column = -tl.offset
      /\ now0 \in Int /\ b \in Int /\ KeepsTime(now0, b)
  BY StartIs, ColumnOf
<1>2. /\ d \in Int /\ LocalDay(d) = LocalDay(now0) + tl.offset + column /\ KeepsTime(b, d)
      /\ dayColumns(tl)[column].isToday <=> UtcDay(d) = UtcDay(now0)
  BY <1>1, ColumnOf
<1>3. /\ LocalDay(now0) \in Int /\ LocalTime(now0) \in Int /\ LocalTime(b) \in Int /\ LocalTime(d) \in Int
      /\ low \in Int /\ Shift \in Nat
  BY <1>1, <1>2, DayOf, DayAndZone
<1> HIDE DEF now0, b, d
<1>4. LocalDay(d) = LocalDay(now0)
  BY <1>1, <1>2, <1>3
<1>5. \/ LocalTime(d) = LocalTime(now0)
      \/ /\ low <= LocalTime(now0) /\ LocalTime(now0) < low + 2 * Shift
         /\ low <= LocalTime(d) /\ LocalTime(d) < low + 2 * Shift
  <2> HIDE DEF low
  <2>1. \/ LocalTime(b) = LocalTime(now0)
        \/ LocalTime(b) = LocalTime(now0) + Shift /\ low <= LocalTime(now0) /\ LocalTime(now0) < low + Shift
    BY <1>1 DEF KeepsTime, low
  <2>2. \/ LocalTime(d) = LocalTime(b)
        \/ LocalTime(d) = LocalTime(b) + Shift /\ low <= LocalTime(b) /\ LocalTime(b) < low + Shift
    BY <1>2 DEF KeepsTime, low
  <2> QED BY <1>3, <2>1, <2>2
<1>6. UtcDay(d) = UtcDay(now0)
  <2>1. CASE LocalTime(d) = LocalTime(now0)
    BY <1>1, <1>2, <1>4, <2>1, UtcOfRepeated
  <2>2. CASE /\ low <= LocalTime(now0) /\ LocalTime(now0) < low + 2 * Shift
             /\ low <= LocalTime(d) /\ LocalTime(d) < low + 2 * Shift
    <3>1. UtcDay(now0) = LocalDay(now0)
      BY <1>1, <2>2, UtcAtChange
    <3>2. UtcDay(d) = LocalDay(d)
      BY <1>2, <2>2, UtcAtChange
    <3> QED BY <1>4, <3>1, <3>2
  <2> QED BY <1>5, <2>1, <2>2
<1>7. column \in marked(tl)
  BY <1>1, <1>2, <1>6, Zenon DEF marked
<1>8. ASSUME NEW i \in marked(tl) PROVE i \in (column - 1)..(column + 1)
  <2> DEFINE v == addDays(start(tl), i)
  <2>1. i \in DOMAIN dayColumns(tl) /\ dayColumns(tl)[i].isToday
    BY <1>8, Zenon DEF marked
  <2>2. i \in Int /\ v \in Int /\ LocalDay(v) = LocalDay(now0) + tl.offset + i /\ UtcDay(v) = UtcDay(now0)
    BY <2>1, ColumnOf DEF now0
  <2>3. UtcDay(v) \in {LocalDay(v), LocalDay(v) - 1} /\ LocalDay(v) \in Int
    BY <2>2, UtcOfLocal, DayOf
  <2>4. UtcDay(now0) \in {LocalDay(now0), LocalDay(now0) - 1}
    BY <1>1, <1>3, UtcOfLocal
  <2> HIDE DEF v
  <2> QED BY <1>1, <1>3, <2>2, <2>3, <2>4
<1> QED BY <1>7, <1>8

\* A window that shows today begins no later than it.
LEMMA StartBefore ==
    ASSUME NEW tl \in Timelines, tl.offset <= 0
    PROVE  start(tl) <= tl.today
<1> DEFINE D == DayLen
           n == tl.today
           b == start(tl)
           o == tl.offset
<1>1. n \in Int /\ b \in Int /\ o \in Int /\ o <= 0 /\ LocalDay(b) = LocalDay(n) + o /\ KeepsTime(n, b)
  BY StartIs
<1>2. /\ D \in Nat \ {0} /\ Shift \in Nat /\ 4 * Shift <= D
      /\ LocalDay(n) \in Int /\ LocalTime(n) \in Int /\ ZoneAt(n) \in Int /\ D * LocalDay(n) \in Int
      /\ n = (D * LocalDay(n)) + LocalTime(n) - ZoneAt(n)
      /\ LocalTime(b) \in Int /\ ZoneAt(b) \in Int /\ b = (D * LocalDay(b)) + LocalTime(b) - ZoneAt(b)
      /\ ZoneAt(n) - ZoneAt(b) <= Shift
  <2> HIDE DEF n, b
  <2>1. D \in Nat \ {0} /\ Shift \in Nat /\ 4 * Shift <= D /\ Zone \in Int
    BY Bounds
  <2>2. LocalDay(n) \in Int /\ LocalTime(n) \in Int /\ D * LocalDay(n) \in Int
        /\ n = (D * LocalDay(n)) + LocalTime(n) - ZoneAt(n)
    BY <1>1, DayOf
  <2>3. LocalTime(b) \in Int /\ b = (D * LocalDay(b)) + LocalTime(b) - ZoneAt(b)
    BY <1>1, DayOf
  <2>4. ZoneAt(n) \in Int /\ ZoneAt(b) \in Int /\ ZoneAt(n) <= Zone + Shift /\ Zone <= ZoneAt(b)
    BY <1>1, ZoneIs
  <2>5. ZoneAt(n) - ZoneAt(b) <= Shift
    BY <2>1, <2>4
  <2> HIDE DEF D
  <2> QED BY <2>1, <2>2, <2>3, <2>4, <2>5
<1>3. LocalTime(b) <= LocalTime(n) + Shift
  BY <1>1, <1>2 DEF KeepsTime
<1>4. CASE o = 0
  <2>1. b = Instant(Local(n) + 0 * D)
    BY <1>4 DEF start, addDays
  <2>2. Local(n) \in Int /\ Local(n) + 0 * D = Local(n)
    BY <1>1, <1>2, ZoneIs
  <2>3. Instant(Local(n)) <= n
    BY <1>1, DayAndZone DEF Instant, Local, ZoneAt
  <2> QED BY <2>1, <2>2, <2>3
<1>5. CASE o # 0
  <2> HIDE DEF D, n, b, o
  <2>1. D * LocalDay(b) = (D * LocalDay(n)) + (D * o) /\ D * o \in Int /\ D * o <= -D
    <3>1. o <= -1
      BY <1>1, <1>5
    <3>2. D * o <= D * (-1)
      BY <1>1, <1>2, <3>1, TimesMono
    <3> QED BY <1>1, <1>2, <3>2
  <2>2. b <= n
    BY <1>1, <1>2, <1>3, <2>1
  <2> QED BY <2>2 DEF b, n
<1> QED BY <1>4, <1>5

LEMMA TodayLine ==
    ASSUME NEW tl \in Timelines, tl.offset <= 0
    PROVE  \/ todayIdx(tl) = -tl.offset
           \/ /\ todayIdx(tl) = -tl.offset - 1
              /\ start(tl) < Spring + Shift /\ Spring <= tl.today
<1> DEFINE D == DayLen
           n == tl.today
           b == start(tl)
           later == LocalTime(n) - LocalTime(b)
           off == ZoneAt(n) - ZoneAt(b)
           x == later - off
<1>1. n \in Int /\ b \in Int /\ tl.offset \in Int /\ KeepsTime(n, b) /\ b <= n
  BY StartIs, StartBefore
<1>2. /\ D \in Nat \ {0} /\ Shift \in Nat /\ 4 * Shift <= D /\ Spring \in Int /\ Autumn \in Int
      /\ LocalTime(n) \in Int /\ LocalTime(b) \in Int /\ ZoneAt(n) \in Int /\ ZoneAt(b) \in Int
      /\ Zone \in Int /\ ZoneAt(n) \in {Zone, Zone + Shift} /\ ZoneAt(b) \in {Zone, Zone + Shift}
      /\ LocalDay(n) \in Int
  <2> HIDE DEF n, b
  <2>1. /\ D \in Nat \ {0} /\ Shift \in Nat /\ 4 * Shift <= D /\ Spring \in Int /\ Autumn \in Int
        /\ Zone \in Int
    BY Bounds
  <2>2. LocalTime(n) \in Int /\ LocalTime(b) \in Int /\ LocalDay(n) \in Int
    BY <1>1, DayOf
  <2>3. /\ ZoneAt(n) \in Int /\ ZoneAt(b) \in Int
        /\ ZoneAt(n) \in {Zone, Zone + Shift} /\ ZoneAt(b) \in {Zone, Zone + Shift}
    BY <1>1, ZoneIs
  <2> HIDE DEF D
  <2> QED BY <2>1, <2>2, <2>3
<1>3. designIndex(tl, n) = -tl.offset
  BY <1>1, <1>2 DEF designIndex
<1>4. Drift(tl, n) = IF x < -D THEN -2 ELSE IF x < 0 THEN -1 ELSE IF x < D THEN 0 ELSE 1
  BY DEF Drift
<1>5. todayIdx(tl) = -tl.offset + Drift(tl, n)
  BY <1>1, <1>3, IndexIs DEF todayIdx
<1> HIDE DEF D, n, b
<1>6. later \in {0, -Shift} /\ off \in {0, Shift, -Shift} /\ (later # 0 => ZoneAt(b) = Zone + Shift)
  BY <1>1, <1>2 DEF KeepsTime
<1>7. CASE x >= 0
  <2>1. x < D
    BY <1>2, <1>6, <1>7
  <2>2. Drift(tl, n) = 0
    BY <1>2, <1>4, <1>7, <2>1
  <2> QED BY <1>1, <1>5, <2>2
<1>8. CASE x < 0
  <2>1. x >= -D
    BY <1>2, <1>6
  <2>2. Drift(tl, n) = -1
    BY <1>2, <1>4, <1>8, <2>1
  <2>3. Shift > 0 /\ ZoneAt(n) = Zone + Shift
    BY <1>2, <1>6, <1>8
  <2>4. Spring <= n /\ n < Autumn
    BY <1>2, <2>3 DEF ZoneAt
  <2>5. b < Spring + Shift
    <3>1. CASE later = 0
      <4>1. ZoneAt(b) = Zone
        BY <1>2, <1>8, <2>3, <3>1
      <4> QED BY <1>1, <1>2, <2>3, <2>4, <4>1 DEF ZoneAt
    <3>2. CASE later # 0
      BY <1>1, <1>2, <3>2 DEF KeepsTime
    <3> QED BY <3>1, <3>2
  <2> QED BY <1>1, <1>5, <2>2, <2>4, <2>5 DEF n, b
<1> QED BY <1>1, <1>2, <1>6, <1>7, <1>8

LEMMA SteadyLine ==
    ASSUME NEW tl \in Timelines, Steady(tl)
    PROVE  marked(tl) = {todayIdx(tl)} \intersect DOMAIN dayColumns(tl)
<1> DEFINE D == DayLen
           n == tl.today
           b == start(tl)
<1>1. n \in Int /\ b \in Int /\ tl.offset \in Int
  BY StartIs
<1>2. ZoneAt(b) = ZoneAt(n) /\ LocalTime(b) = LocalTime(n)
  BY Zenon DEF Steady
<1>3. D \in Nat \ {0} /\ LocalTime(n) \in Int /\ ZoneAt(n) \in Int /\ LocalDay(n) \in Int
  <2> HIDE DEF n
  <2>1. D \in Nat \ {0}
    BY Bounds
  <2>2. LocalTime(n) \in Int /\ LocalDay(n) \in Int
    BY <1>1, DayOf
  <2>3. ZoneAt(n) \in Int
    BY <1>1, ZoneIs
  <2> QED BY <2>1, <2>2, <2>3
<1>4. todayIdx(tl) = -tl.offset
  <2>1. (LocalTime(n) - LocalTime(b)) - (ZoneAt(n) - ZoneAt(b)) = 0
    BY <1>2, <1>3
  <2>2. Drift(tl, n) = 0
    BY <1>3, <2>1 DEF Drift
  <2>3. designIndex(tl, n) = -tl.offset
    BY <1>1, <1>3 DEF designIndex
  <2> QED BY <1>1, <2>2, <2>3, IndexIs DEF todayIdx
<1>5. ASSUME NEW i \in DOMAIN dayColumns(tl)
      PROVE  dayColumns(tl)[i].isToday <=> i = todayIdx(tl)
  <2> DEFINE v == addDays(b, i)
  <2>1. /\ i \in Int /\ i \in 0..(tl.days - 1) /\ v \in Int /\ LocalDay(v) = LocalDay(n) + tl.offset + i
        /\ dayColumns(tl)[i].isToday <=> UtcDay(v) = UtcDay(n)
    BY ColumnOf
  <2>2. ZoneAt(v) = ZoneAt(n) /\ LocalTime(v) = LocalTime(n)
    BY <2>1, Zenon DEF Steady
  <2>3. UtcDay(v) = LocalDay(v) - (IF LocalTime(v) < ZoneAt(v) THEN 1 ELSE 0)
        /\ UtcDay(n) = LocalDay(n) - (IF LocalTime(n) < ZoneAt(n) THEN 1 ELSE 0)
    BY <1>1, <2>1, UtcOfLocal
  <2> HIDE DEF v, n, b
  <2>4. UtcDay(v) = UtcDay(n) <=> i = -tl.offset
    BY <1>1, <1>3, <2>1, <2>2, <2>3
  <2> QED BY <1>4, <2>1, <2>4, Zenon
<1> QED BY <1>5, Zenon DEF marked

LEMMA ConnectorRight ==
    ASSUME NEW tl \in Timelines, NEW t \in Int, NEW u \in Int
    PROVE  LET c == cascadeStyle(Index(tl, t), Index(tl, u))
           IN c # None <=> t < u /\ Index(tl, t) # Index(tl, u)
<1> DEFINE from == Index(tl, t)
           to == Index(tl, u)
           left == from * DAY_W + DAY_W \div 2 + 16
           w == to * DAY_W + DAY_W \div 2 - 16 - left
<1>1. from \in Int /\ to \in Int
  BY IndexIs
<1>2. from < to <=> t < u /\ from # to
  <2>1. t <= u => from <= to
    BY IndexMono
  <2>2. u <= t => to <= from
    BY IndexMono
  <2> HIDE DEF from, to
  <2> QED BY <1>1, <2>1, <2>2
<1>3. cascadeStyle(from, to) = IF w <= 0 THEN None ELSE [left |-> left, width |-> w]
  BY DEF cascadeStyle
<1> HIDE DEF from, to
<1>4. left \in Int /\ w \in Int /\ (w <= 0 <=> ~ (from < to))
  BY <1>1 DEF DAY_W
<1> HIDE DEF left, w
<1>5. [left |-> left, width |-> w] # None
  <2>1. [left |-> left, width |-> w] \in [left : Int, width : Int]
    BY <1>4
  <2> QED BY <2>1, ViewsAssumption, Zenon DEF ViewsAssumption
<1>6. cascadeStyle(from, to) # None <=> from < to
  BY <1>3, <1>4, <1>5, Zenon
<1> QED BY <1>2, <1>6, Zenon DEF from, to

-----------------------------------------------------------------------------
(* FlattenSeq, Kept and groups, one element at a time *)

LEMMA FlattenSteps ==
    ASSUME NEW S, NEW s \in Seq(Seq(S))
    PROVE  \E p \in [0..Len(s) -> Seq(S)] :
              /\ p[0] = <<>> /\ \A i \in 1..Len(s) : p[i] = p[i - 1] \o s[i]
              /\ FlattenSeq(s) = p[Len(s)]
<1> DEFINE n == Len(s)
           step == [z \in Seq(S) \X (1..n) |-> z[1] \o s[z[2]]]
           Solves(f) == f = [i \in 1..n |-> IF i = 1 THEN s[i] ELSE f[i - 1] \o s[i]]
           c == CHOOSE flatten : flatten = [i \in 1..Len(s) |-> IF i = 1 THEN s[i] ELSE flatten[i - 1] \o s[i]]
<1>1. n \in Nat /\ <<>> \in Seq(S) /\ \A i \in 1..n : s[i] \in Seq(S)
  OBVIOUS
<1>2. \A z \in Seq(S) \X (1..n) : z[1] \o s[z[2]] \in Seq(S)
  BY <1>1, ConcatProperties
<1>3. step \in [Seq(S) \X (1..n) -> Seq(S)]
  BY <1>2, Zenon
<1>4. PICK p \in [0..n -> Seq(S)] : p[0] = <<>> /\ \A i \in 1..n : p[i] = step[<<p[i - 1], i>>]
  <2> DEFINE A == Seq(S)
             b == <<>>
  <2>1. n \in Nat /\ b \in A /\ step \in [A \X (1..n) -> A]
    BY <1>1, <1>3
  <2> HIDE DEF step, n, A, b
  <2>2. \E p \in [0..n -> A] : Iterates(p, n, b, step)
    BY <2>1, IterationExists
  <2> QED BY <2>2 DEF A, b, Iterates
<1>5. ASSUME NEW i \in 1..n PROVE p[i] = p[i - 1] \o s[i]
  <2>1. p[i - 1] \in Seq(S)
    <3>1. i - 1 \in 0..n
      BY <1>1
    <3> QED BY <3>1
  <2>2. <<p[i - 1], i>> \in Seq(S) \X (1..n)
    BY <2>1
  <2>3. step[<<p[i - 1], i>>] = p[i - 1] \o s[i]
    BY <2>2
  <2> HIDE DEF step
  <2> QED BY <1>4, <2>3
<1>8. ASSUME 1 \in 1..n PROVE p[1] = s[1]
  <2>1. p[1] = p[1 - 1] \o s[1]
    BY <1>5, <1>8, Zenon
  <2>2. p[1 - 1] = <<>> /\ s[1] \in Seq(S)
    BY <1>1, <1>4, <1>8
  <2> QED BY <2>1, <2>2, ConcatEmptySeq
<1>6. CASE n = 0
  <2>1. s = <<>> /\ FlattenSeq(s) = s
    BY <1>6, Zenon, EmptySeq DEF FlattenSeq
  <2> QED BY <1>4, <1>5, <1>6, <2>1
<1>7. CASE n # 0
  <2>1. FlattenSeq(s) = c[n]
    BY <1>7 DEF FlattenSeq
  <2>2. \E f : Solves(f)
    <3> DEFINE q == [i \in 1..n |-> p[i]]
    <3>1. ASSUME NEW i \in 1..n PROVE p[i] = IF i = 1 THEN s[i] ELSE q[i - 1] \o s[i]
      <4>1. CASE i = 1
        BY <4>1, <1>8
      <4>2. CASE i # 1
        <5>1. i - 1 \in 1..n
          BY <4>2
        <5>2. q[i - 1] = p[i - 1]
          BY <5>1
        <5> HIDE DEF q
        <5> QED BY <1>5, <4>2, <5>2
      <4> QED BY <4>1, <4>2
    <3>2. q = [i \in 1..n |-> IF i = 1 THEN s[i] ELSE q[i - 1] \o s[i]]
      BY <3>1, Zenon
    <3> QED BY <3>2, Zenon
  <2>3. Solves(c)
    BY <2>2, Zenon
  <2> DEFINE T == {i \in Nat : i \in 1..n => c[i] = p[i]}
  <2>4. \A i \in 1..n : c[i] = IF i = 1 THEN s[i] ELSE c[i - 1] \o s[i]
    BY <2>3, Zenon
  <2> HIDE DEF c
  <2>5. 0 \in T
    OBVIOUS
  <2>6. ASSUME NEW i \in Nat, i \in T PROVE i + 1 \in T
    <3> SUFFICES ASSUME i + 1 \in 1..n PROVE c[i + 1] = p[i + 1]
      OBVIOUS
    <3>1. CASE i = 0
      BY <1>8, <2>4, <3>1
    <3>2. CASE i # 0
      <4>1. c[i] = p[i] /\ (i + 1) - 1 = i /\ i + 1 # 1
        BY <2>6, <3>2
      <4>2. c[i + 1] = c[i] \o s[i + 1]
        BY <2>4, <4>1
      <4>3. p[i + 1] = p[i] \o s[i + 1]
        BY <1>5, <4>1
      <4> QED BY <4>1, <4>2, <4>3
    <3> QED BY <3>1, <3>2
  <2> HIDE DEF T
  <2>7. n \in T
    BY <1>1, <2>5, <2>6, NatInduct
  <2>8. c[n] = p[n]
    BY <1>1, <1>7, <2>7 DEF T
  <2> QED BY <1>4, <1>5, <2>1, <2>8
<1> QED BY <1>6, <1>7

KeepsOne(p, s, S) ==
    /\ p[0] = <<>>
    /\ \A i \in 1..Len(s) : p[i] = IF s[i] \in S THEN Append(p[i - 1], s[i]) ELSE p[i - 1]

LEMMA KeptSteps ==
    ASSUME NEW R, NEW s \in Seq(R), NEW S
    PROVE  \E p \in [0..Len(s) -> Seq(R)] : KeepsOne(p, s, S) /\ Kept(s, S) = p[Len(s)]
<1> DEFINE n == Len(s)
           step == [z \in Seq(R) \X (1..n) |-> IF s[z[2]] \in S THEN Append(z[1], s[z[2]]) ELSE z[1]]
           c == CHOOSE iter : iter = [q \in SUBSET (DOMAIN s) |->
                   IF q = {} THEN <<>>
                   ELSE IF s[Max(q)] \in S THEN Append(iter[q \ {Max(q)}], s[Max(q)])
                                           ELSE iter[q \ {Max(q)}]]
           Solves(f) == f = [q \in SUBSET (DOMAIN s) |->
                   IF q = {} THEN <<>>
                   ELSE IF s[Max(q)] \in S THEN Append(f[q \ {Max(q)}], s[Max(q)])
                                           ELSE f[q \ {Max(q)}]]
<1>1. n \in Nat /\ <<>> \in Seq(R) /\ DOMAIN s = 1..n /\ \A i \in 1..n : s[i] \in R
  OBVIOUS
<1>2. step \in [Seq(R) \X (1..n) -> Seq(R)]
  <2>1. \A z \in Seq(R) \X (1..n) :
           (IF s[z[2]] \in S THEN Append(z[1], s[z[2]]) ELSE z[1]) \in Seq(R)
    BY <1>1, AppendProperties
  <2> QED BY <2>1, Zenon
<1>3. \A x \in Seq(R), i \in 1..n :
         step[<<x, i>>] = IF s[i] \in S THEN Append(x, s[i]) ELSE x
  OBVIOUS
<1>4. \A q \in SUBSET (1..n) : q # {} => Max(q) \in 1..n
  BY <1>1, MaxOf
<1>5. Kept(s, S) = c[DOMAIN s]
  BY DEF Kept, FoldLeft, MapThenFoldSet
<1> HIDE DEF step
<1>6. PICK g \in [SUBSET (1..n) -> Seq(R)] : \A q \in SUBSET (1..n) :
         g[q] = IF q = {} THEN <<>> ELSE step[<<g[q \ {Max(q)}], Max(q)>>]
  <2> DEFINE A == Seq(R)
             b == <<>>
  <2>1. n \in Nat /\ b \in A /\ step \in [A \X (1..n) -> A]
    BY <1>1, <1>2
  <2> HIDE DEF n, A, b
  <2>2. \E g \in [SUBSET (1..n) -> A] : TakesLargest(g, n, b, step)
    BY <2>1, SetFoldExists
  <2> QED BY <2>2, Zenon DEF A, b, TakesLargest
<1>7. Solves(g)
  <2>1. ASSUME NEW q \in SUBSET (1..n)
        PROVE  g[q] = IF q = {} THEN <<>>
                      ELSE IF s[Max(q)] \in S THEN Append(g[q \ {Max(q)}], s[Max(q)])
                                              ELSE g[q \ {Max(q)}]
    <3>1. g[q \ {Max(q)}] \in Seq(R)
      OBVIOUS
    <3> QED BY <1>3, <1>4, <1>6, <3>1, Zenon
  <2>2. g = [q \in SUBSET (1..n) |-> g[q]]
    OBVIOUS
  <2> QED BY <1>1, <2>1, <2>2, Zenon
<1>8. Solves(c)
  BY <1>7, Zenon
<1>9. /\ c[{}] = <<>>
      /\ \A i \in 1..n : c[1..i] = IF s[i] \in S THEN Append(c[1..(i - 1)], s[i]) ELSE c[1..(i - 1)]
  <2> HIDE DEF c
  <2>1. \A q \in SUBSET (1..n) :
           c[q] = IF q = {} THEN <<>>
                  ELSE IF s[Max(q)] \in S THEN Append(c[q \ {Max(q)}], s[Max(q)])
                                          ELSE c[q \ {Max(q)}]
    BY <1>1, <1>8, Zenon
  <2>2. c[{}] = <<>>
    BY <2>1
  <2>3. ASSUME NEW i \in 1..n
        PROVE  c[1..i] = IF s[i] \in S THEN Append(c[1..(i - 1)], s[i]) ELSE c[1..(i - 1)]
    <3>1. 1..i \in SUBSET (1..n) /\ 1..i # {} /\ Max(1..i) = i /\ (1..i) \ {i} = 1..(i - 1)
      BY <1>1, Prefix
    <3> QED BY <2>1, <3>1, Zenon
  <2> QED BY <2>2, <2>3
<1> DEFINE T == {i \in Nat : i \in 0..n => c[1..i] \in Seq(R)}
           p == [i \in 0..n |-> c[1..i]]
<1>10. \A i \in Nat : i \in T
  <2> HIDE DEF c
  <2>1. 0 \in T
    <3>1. 1..0 = {}
      OBVIOUS
    <3>2. c[1..0] \in Seq(R)
      BY <1>1, <1>9, <3>1
    <3> QED BY <3>2
  <2>2. ASSUME NEW i \in Nat, i \in T PROVE i + 1 \in T
    <3> SUFFICES ASSUME i + 1 \in 1..n PROVE c[1..(i + 1)] \in Seq(R)
      OBVIOUS
    <3>1. c[1..i] \in Seq(R) /\ (i + 1) - 1 = i
      BY <2>2
    <3>2. c[1..(i + 1)] = IF s[i + 1] \in S THEN Append(c[1..i], s[i + 1]) ELSE c[1..i]
      BY <1>9, <3>1
    <3> QED BY <1>1, <3>1, <3>2
  <2> HIDE DEF T
  <2> QED BY <2>1, <2>2, NatInduct
<1> HIDE DEF c
<1>11. p \in [0..n -> Seq(R)] /\ p[0] = <<>> /\ c[1..n] = p[n]
  BY <1>1, <1>9, <1>10
<1>12. ASSUME NEW i \in 1..n
       PROVE  p[i] = IF s[i] \in S THEN Append(p[i - 1], s[i]) ELSE p[i - 1]
  <2>1. p[i] = c[1..i] /\ p[i - 1] = c[1..(i - 1)]
    BY <1>1
  <2> HIDE DEF p
  <2> QED BY <1>9, <2>1
<1> HIDE DEF p
<1>13. KeepsOne(p, s, S)
  BY <1>11, <1>12 DEF KeepsOne
<1> QED BY <1>1, <1>5, <1>11, <1>13

Row == [key : Nat \X Nat, product : STRING, start : Int, status : STRING]
Group == [key : Int, date : Int, rows : Seq(Row)]

\* The step of groups.
Put(g, r) ==
    IF g # <<>> /\ Last(g).key = UtcDay(r.start)
      THEN Front(g) \o <<[Last(g) EXCEPT !.rows = Append(@, r)]>>
      ELSE Append(g, [key |-> UtcDay(r.start), date |-> r.start, rows |-> <<r>>])

LEMMA PutInLast ==
    ASSUME NEW g \in Seq(Group), NEW r \in Row, g # <<>>, Last(g).key = UtcDay(r.start)
    PROVE  /\ Front(g) \in Seq(Group) /\ Last(g) \in Group /\ g = Append(Front(g), Last(g))
           /\ [Last(g) EXCEPT !.rows = Append(@, r)]
                = [key |-> Last(g).key, date |-> Last(g).date, rows |-> Append(Last(g).rows, r)]
           /\ Put(g, r) = Append(Front(g), [Last(g) EXCEPT !.rows = Append(@, r)])
           /\ Put(g, r) \in Seq(Group)
<1>1. Len(g) \in Nat \ {0} /\ Last(g) = g[Len(g)] /\ Front(g) = SubSeq(g, 1, Len(g) - 1)
  BY EmptySeq DEF Last, Front
<1>2. Last(g) \in Group /\ Front(g) \in Seq(Group)
  BY <1>1
<1>3. g = Append(Front(g), Last(g))
  <2>1. g = SubSeq(g, 1, Len(g)) /\ Len(g) \in 1..Len(g) /\ 1 \in 1..Len(g)
    BY <1>1, SubSeqFull
  <2>2. SubSeq(g, 1, Len(g)) = SubSeq(g, 1, Len(g) - 1) \o <<g[Len(g)]>>
    BY <2>1, SubSeqRecursiveSecond
  <2>3. Append(Front(g), Last(g)) = Front(g) \o <<Last(g)>>
    BY <1>2, AppendIsConcat
  <2> QED BY <1>1, <2>1, <2>2, <2>3
<1> DEFINE grown == [Last(g) EXCEPT !.rows = Append(@, r)]
<1>4. Append(Last(g).rows, r) \in Seq(Row)
  BY <1>2 DEF Group
<1>5. grown = [key |-> Last(g).key, date |-> Last(g).date, rows |-> Append(Last(g).rows, r)]
  <2>1. \A e \in Group : \A x : [e EXCEPT !.rows = x] = [key |-> e.key, date |-> e.date, rows |-> x]
    BY DEF Group
  <2> QED BY <1>2, <2>1, Zenon
<1>6. grown \in Group
  BY <1>2, <1>4, <1>5 DEF Group
<1>7. Put(g, r) = Front(g) \o <<grown>>
  BY DEF Put
<1> HIDE DEF grown
<1>8. Front(g) \o <<grown>> = Append(Front(g), grown)
  BY <1>2, <1>6, AppendIsConcat
<1>9. Append(Front(g), grown) \in Seq(Group)
  BY <1>2, <1>6, AppendProperties
<1> QED BY <1>2, <1>3, <1>5, <1>7, <1>8, <1>9 DEF grown

LEMMA PutNew ==
    ASSUME NEW g \in Seq(Group), NEW r \in Row, ~ (g # <<>> /\ Last(g).key = UtcDay(r.start))
    PROVE  LET new == [key |-> UtcDay(r.start), date |-> r.start, rows |-> <<r>>]
           IN /\ new \in Group /\ Put(g, r) = Append(g, new) /\ Put(g, r) \in Seq(Group)
<1> DEFINE new == [key |-> UtcDay(r.start), date |-> r.start, rows |-> <<r>>]
<1>1. r.start \in Int /\ UtcDay(r.start) \in Int /\ <<r>> \in Seq(Row)
  BY DayOf DEF Row
<1>2. new \in Group
  BY <1>1 DEF Group
<1>3. Put(g, r) = Append(g, new)
  BY DEF Put
<1> HIDE DEF new
<1>4. Append(g, new) \in Seq(Group)
  BY <1>2
<1> QED BY <1>2, <1>3, <1>4 DEF new

LEMMA PutType ==
    ASSUME NEW g \in Seq(Group), NEW r \in Row
    PROVE  Put(g, r) \in Seq(Group)
BY PutInLast, PutNew

LEMMA GroupsSteps ==
    ASSUME NEW s \in Seq(Row)
    PROVE  \E p \in [0..Len(s) -> Seq(Group)] :
              /\ p[0] = <<>> /\ \A i \in 1..Len(s) : p[i] = Put(p[i - 1], s[i])
              /\ groups(s) = p[Len(s)]
<1> DEFINE n == Len(s)
           step == [z \in Seq(Group) \X (1..n) |-> Put(z[1], s[z[2]])]
           Solves(f) == f = [q \in SUBSET (DOMAIN s) |->
                   IF q = {} THEN <<>> ELSE Put(f[q \ {Max(q)}], s[Max(q)])]
           c == CHOOSE iter : iter = [q \in SUBSET (DOMAIN s) |->
                   IF q = {} THEN <<>> ELSE Put(iter[q \ {Max(q)}], s[Max(q)])]
<1>1. n \in Nat /\ <<>> \in Seq(Group) /\ DOMAIN s = 1..n /\ \A i \in 1..n : s[i] \in Row
  OBVIOUS
<1>2. step \in [Seq(Group) \X (1..n) -> Seq(Group)]
  <2>1. \A z \in Seq(Group) \X (1..n) : Put(z[1], s[z[2]]) \in Seq(Group)
    BY <1>1, PutType
  <2> QED BY <2>1, Zenon
<1>3. \A x \in Seq(Group), i \in 1..n : step[<<x, i>>] = Put(x, s[i])
  OBVIOUS
<1>4. \A q \in SUBSET (1..n) : q # {} => Max(q) \in 1..n
  BY <1>1, MaxOf
<1>5. groups(s) = c[DOMAIN s]
  BY DEF groups, Put, FoldLeft, MapThenFoldSet
<1> HIDE DEF step
<1>6. PICK g \in [SUBSET (1..n) -> Seq(Group)] : \A q \in SUBSET (1..n) :
         g[q] = IF q = {} THEN <<>> ELSE step[<<g[q \ {Max(q)}], Max(q)>>]
  <2> DEFINE A == Seq(Group)
             b == <<>>
  <2>1. n \in Nat /\ b \in A /\ step \in [A \X (1..n) -> A]
    BY <1>1, <1>2
  <2> HIDE DEF n, A, b
  <2>2. \E g \in [SUBSET (1..n) -> A] : TakesLargest(g, n, b, step)
    BY <2>1, SetFoldExists
  <2> QED BY <2>2, Zenon DEF A, b, TakesLargest
<1>7. Solves(g)
  <2>1. ASSUME NEW q \in SUBSET (1..n)
        PROVE  g[q] = IF q = {} THEN <<>> ELSE Put(g[q \ {Max(q)}], s[Max(q)])
    <3>1. g[q \ {Max(q)}] \in Seq(Group)
      OBVIOUS
    <3> QED BY <1>3, <1>4, <1>6, <3>1, Zenon
  <2>2. g = [q \in SUBSET (1..n) |-> g[q]]
    OBVIOUS
  <2> QED BY <1>1, <2>1, <2>2, Zenon
<1>8. Solves(c)
  BY <1>7, Zenon
<1>9. c[{}] = <<>> /\ \A i \in 1..n : c[1..i] = Put(c[1..(i - 1)], s[i])
  <2> HIDE DEF c
  <2>1. \A q \in SUBSET (1..n) :
           c[q] = IF q = {} THEN <<>> ELSE Put(c[q \ {Max(q)}], s[Max(q)])
    BY <1>1, <1>8, Zenon
  <2>2. c[{}] = <<>>
    BY <2>1
  <2>3. ASSUME NEW i \in 1..n PROVE c[1..i] = Put(c[1..(i - 1)], s[i])
    <3>1. 1..i \in SUBSET (1..n) /\ 1..i # {} /\ Max(1..i) = i /\ (1..i) \ {i} = 1..(i - 1)
      BY <1>1, Prefix
    <3> QED BY <2>1, <3>1, Zenon
  <2> QED BY <2>2, <2>3
<1> DEFINE T == {i \in Nat : i \in 0..n => c[1..i] \in Seq(Group)}
           p == [i \in 0..n |-> c[1..i]]
<1>10. \A i \in Nat : i \in T
  <2> HIDE DEF c
  <2>1. 0 \in T
    <3>1. 1..0 = {}
      OBVIOUS
    <3>2. c[1..0] \in Seq(Group)
      BY <1>1, <1>9, <3>1
    <3> QED BY <3>2
  <2>2. ASSUME NEW i \in Nat, i \in T PROVE i + 1 \in T
    <3> SUFFICES ASSUME i + 1 \in 1..n PROVE c[1..(i + 1)] \in Seq(Group)
      OBVIOUS
    <3>1. c[1..i] \in Seq(Group) /\ (i + 1) - 1 = i
      BY <2>2
    <3>2. c[1..(i + 1)] = Put(c[1..i], s[i + 1])
      BY <1>9, <3>1
    <3> QED BY <1>1, <3>1, <3>2, PutType
  <2> HIDE DEF T
  <2> QED BY <2>1, <2>2, NatInduct
<1> HIDE DEF c
<1>11. p \in [0..n -> Seq(Group)] /\ p[0] = <<>> /\ c[1..n] = p[n]
  BY <1>1, <1>9, <1>10
<1>12. ASSUME NEW i \in 1..n PROVE p[i] = Put(p[i - 1], s[i])
  <2>1. p[i] = c[1..i] /\ p[i - 1] = c[1..(i - 1)]
    BY <1>1
  <2> HIDE DEF p
  <2> QED BY <1>9, <2>1
<1> HIDE DEF p
<1> QED BY <1>1, <1>5, <1>11, <1>12

LEMMA FlattenAppend ==
    ASSUME NEW S, NEW s \in Seq(Seq(S)), NEW x \in Seq(S)
    PROVE  /\ FlattenSeq(s) \in Seq(S)
           /\ FlattenSeq(Append(s, x)) = FlattenSeq(s) \o x
<1> DEFINE n == Len(s)
           t == Append(s, x)
<1>1. n \in Nat /\ t \in Seq(Seq(S)) /\ Len(t) = n + 1 /\ t[n + 1] = x
      /\ \A i \in 1..n : t[i] = s[i]
  BY AppendProperties
<1>2. PICK p \in [0..n -> Seq(S)] :
         /\ p[0] = <<>> /\ \A i \in 1..n : p[i] = p[i - 1] \o s[i]
         /\ FlattenSeq(s) = p[n]
  BY FlattenSteps
<1> HIDE DEF t
<1>3. PICK q \in [0..Len(t) -> Seq(S)] :
         /\ q[0] = <<>> /\ \A i \in 1..Len(t) : q[i] = q[i - 1] \o t[i]
         /\ FlattenSeq(t) = q[Len(t)]
  BY <1>1, FlattenSteps
<1> HIDE DEF n
<1> DEFINE T == {i \in Nat : i \in 0..n => q[i] = p[i]}
<1>4. \A i \in Nat : i \in T
  <2>1. 0 \in T
    BY <1>2, <1>3
  <2>2. ASSUME NEW i \in Nat, i \in T PROVE i + 1 \in T
    <3> SUFFICES ASSUME i + 1 \in 1..n PROVE q[i + 1] = p[i + 1]
      BY <1>1
    <3>1. q[i] = p[i] /\ (i + 1) - 1 = i /\ i + 1 \in 1..Len(t) /\ t[i + 1] = s[i + 1]
      BY <1>1, <2>2
    <3>2. q[i + 1] = q[i] \o t[i + 1]
      BY <1>3, <3>1
    <3>3. p[i + 1] = p[i] \o s[i + 1]
      BY <1>2, <3>1
    <3> QED BY <3>1, <3>2, <3>3
  <2> HIDE DEF T
  <2> QED BY <2>1, <2>2, NatInduct
<1>5. q[n] = p[n]
  <2>1. n \in Nat
    BY <1>1
  <2>2. n \in 0..n
    BY <2>1
  <2>3. n \in T
    BY <1>4, <2>1, Zenon
  <2> QED BY <2>2, <2>3
<1>6. q[n + 1] = q[n] \o t[n + 1]
  <2>1. n + 1 \in 1..Len(t) /\ (n + 1) - 1 = n
    BY <1>1
  <2> QED BY <1>3, <2>1
<1>7. p[n] \in Seq(S)
  BY <1>1
<1> QED BY <1>1, <1>2, <1>3, <1>5, <1>6, <1>7 DEF t

-----------------------------------------------------------------------------
(* The rows of the list, in the order of their starts *)

Keyed(q, m) ==
    /\ \A a \in DOMAIN q : q[a].key[1] \in 1..m
    /\ \A a, b \in DOMAIN q : a # b => q[a].key # q[b].key

RowOf(rs, i, k) ==
    [key |-> <<i, k>>, product |-> rs[i].product,
     start |-> rs[i].stages[k].startAt, status |-> rs[i].stages[k].status]

LEMMA RowsKeyed ==
    ASSUME NEW rs \in Seq(Rollouts)
    PROVE  /\ Rows(rs) \in Seq(Row)
           /\ \A a, b \in DOMAIN Rows(rs) : a # b => Rows(rs)[a].key # Rows(rs)[b].key
<1> DEFINE n == Len(rs)
           s == [i \in DOMAIN rs |-> [k \in DOMAIN rs[i].stages |-> RowOf(rs, i, k)]]
<1>1. n \in Nat /\ DOMAIN rs = 1..n
  OBVIOUS
<1>2. ASSUME NEW i \in 1..n
      PROVE  /\ s[i] \in Seq(Row)
             /\ \A k \in 1..Len(s[i]) : s[i][k].key = <<i, k>>
  <2>1. rs[i].stages \in Seq([startAt : Int, status : STRING]) /\ rs[i].product \in STRING
    <3>1. rs[i] \in Rollouts
      BY <1>1
    <3> QED BY <3>1 DEF Rollouts
  <2>2. ASSUME NEW k \in 1..Len(rs[i].stages)
        PROVE  RowOf(rs, i, k) \in Row /\ RowOf(rs, i, k).key = <<i, k>>
    <3>1. rs[i].stages[k] \in [startAt : Int, status : STRING]
      BY <2>1, ElementOfSeq
    <3>3. i \in Nat /\ k \in Nat
      BY <1>1, <2>1
    <3>2. rs[i].stages[k].startAt \in Int /\ rs[i].stages[k].status \in STRING
      BY <3>1
    <3> QED BY <2>1, <3>2, <3>3 DEF RowOf, Row
  <2>3. s[i] = [k \in 1..Len(rs[i].stages) |-> RowOf(rs, i, k)]
    BY <1>1, <2>1
  <2>4. Len(rs[i].stages) \in Nat
    BY <2>1
  <2> HIDE DEF s
  <2> QED BY <2>2, <2>3, <2>4
<1>3. s \in Seq(Seq(Row)) /\ Len(s) = n
  <2>1. s = [i \in 1..n |-> s[i]]
    BY <1>1
  <2> HIDE DEF s
  <2> QED BY <1>1, <1>2, <2>1
<1>4. Rows(rs) = FlattenSeq(s)
  BY DEF Rows, RowOf
<1> HIDE DEF s, n
<1>5. PICK p \in [0..n -> Seq(Row)] :
         /\ p[0] = <<>> /\ \A i \in 1..n : p[i] = p[i - 1] \o s[i]
         /\ FlattenSeq(s) = p[n]
  BY <1>3, FlattenSteps
<1> DEFINE T == {m \in Nat : m \in 0..n => Keyed(p[m], m)}
<1>6. \A m \in Nat : m \in T
  <2>1. 0 \in T
    BY <1>5 DEF Keyed
  <2>2. ASSUME NEW m \in Nat, m \in T PROVE m + 1 \in T
    <3> SUFFICES ASSUME m + 1 \in 1..n PROVE Keyed(p[m + 1], m + 1)
      BY <1>1
    <3> DEFINE q == p[m]
               z == s[m + 1]
    <3>1. Keyed(q, m) /\ q \in Seq(Row) /\ z \in Seq(Row)
          /\ \A k \in 1..Len(z) : z[k].key = <<m + 1, k>>
      BY <1>1, <1>2, <2>2
    <3>2. p[m + 1] = q \o z
      <4>1. (m + 1) - 1 = m
        OBVIOUS
      <4> QED BY <1>5, <4>1
    <3> HIDE DEF q, z
    <3>3. ASSUME NEW a \in DOMAIN (q \o z)
          PROVE  \/ a \in 1..Len(q) /\ (q \o z)[a] = q[a] /\ q[a].key[1] \in 1..m
                 \/ a \in (Len(q) + 1)..(Len(q) + Len(z))
                    /\ (q \o z)[a].key = <<m + 1, a - Len(q)>>
      BY <3>1, ConcatProperties DEF Keyed
    <3>4. ASSUME NEW a \in DOMAIN (q \o z) PROVE (q \o z)[a].key[1] \in 1..(m + 1)
      BY <3>3
    <3>5. ASSUME NEW a \in DOMAIN (q \o z), NEW b \in DOMAIN (q \o z), a # b
          PROVE  (q \o z)[a].key # (q \o z)[b].key
      <4>1. CASE a \in 1..Len(q) /\ b \in 1..Len(q)
        BY <3>1, <3>3, <3>5, <4>1 DEF Keyed
      <4>2. CASE ~ (a \in 1..Len(q)) /\ ~ (b \in 1..Len(q))
        <5>1. (q \o z)[a].key = <<m + 1, a - Len(q)>> /\ (q \o z)[b].key = <<m + 1, b - Len(q)>>
          BY <3>3, <4>2
        <5>2. a \in Int /\ b \in Int /\ Len(q) \in Int
          BY <3>1, <3>3
        <5> QED BY <3>5, <5>1, <5>2
      <4>3. CASE a \in 1..Len(q) /\ ~ (b \in 1..Len(q))
        BY <3>3, <4>3
      <4>4. CASE ~ (a \in 1..Len(q)) /\ b \in 1..Len(q)
        BY <3>3, <4>4
      <4> QED BY <4>1, <4>2, <4>3, <4>4
    <3> QED BY <3>2, <3>4, <3>5 DEF Keyed
  <2> HIDE DEF T
  <2> QED BY <2>1, <2>2, NatInduct
<1>7. Keyed(p[n], n) /\ p[n] \in Seq(Row)
  BY <1>1, <1>6
<1> QED BY <1>4, <1>5, <1>7 DEF Keyed

LEMMA BeforeOrder ==
    ASSUME NEW r \in Row, NEW s \in Row, NEW t \in Row
    PROVE  /\ Before(r, r)
           /\ Before(r, s) \/ Before(s, r)
           /\ Before(r, s) /\ Before(s, t) => Before(r, t)
           /\ Before(r, s) /\ Before(s, r) => r.key = s.key
           /\ Before(r, s) => r.start <= s.start
<1>1. \A x \in Row : x.start \in Int /\ x.key = <<x.key[1], x.key[2]>>
                     /\ x.key[1] \in Nat /\ x.key[2] \in Nat
  BY DEF Row
<1> QED BY <1>1 DEF Before

LEMMA Permutes ==
    ASSUME NEW n \in Nat, NEW f \in [1..n -> 1..n],
           \A i, j \in 1..n : f[i] = f[j] => i = j
    PROVE  \A k \in 1..n : \E i \in 1..n : f[i] = k
<1>1. IsFiniteSet(1..n)
  BY FS_Interval
<1>2. f \in Injection(1..n, 1..n)
  BY DEF Injection, IsInjective
<1>3. f \in Surjection(1..n, 1..n)
  BY <1>1, <1>2, FS_Injection
<1> QED BY <1>3 DEF Surjection

\* The list is in the order of the starts and leaves no row out.
LEMMA RowsSorted ==
    ASSUME NEW rs \in Seq(Rollouts)
    PROVE  /\ rows(rs) \in Seq(Row)
           /\ \A a, b \in DOMAIN rows(rs) : a < b => rows(rs)[a].start <= rows(rs)[b].start
           /\ \A i \in DOMAIN Rows(rs) : \E a \in DOMAIN rows(rs) : rows(rs)[a] = Rows(rs)[i]
<1> DEFINE all == Rows(rs)
           n == Len(all)
           Notafter(i) == {j \in DOMAIN all : Before(all[j], all[i])}
           Place(i) == Cardinality({j \in DOMAIN all : Before(all[j], all[i])})
           f == [i \in 1..n |-> Place(i)]
           at(k) == CHOOSE i \in DOMAIN all : Place(i) = k
<1>1. /\ all \in Seq(Row) /\ n \in Nat /\ DOMAIN all = 1..n
      /\ \A i \in 1..n : all[i] \in Row
      /\ \A i, j \in 1..n : i # j => all[i].key # all[j].key
  BY RowsKeyed
<1>2. rows(rs) = [k \in DOMAIN all |-> all[at(k)]]
  BY DEF rows
<1> HIDE DEF all, n
<1>3. ASSUME NEW i \in 1..n
      PROVE  IsFiniteSet(Notafter(i)) /\ Place(i) \in 1..n /\ i \in Notafter(i)
  <2>1. i \in Notafter(i)
    BY <1>1, BeforeOrder
  <2>2. Notafter(i) \in SUBSET (1..n)
    BY <1>1
  <2>3. IsFiniteSet(1..n) /\ Cardinality(1..n) = n
    BY <1>1, FS_Interval
  <2>4. IsFiniteSet(Notafter(i)) /\ Cardinality(Notafter(i)) <= n
    BY <2>2, <2>3, FS_Subset
  <2>5. Cardinality(Notafter(i)) \in Nat /\ Cardinality(Notafter(i)) # 0
    BY <2>1, <2>4, FS_CardinalityType, FS_EmptySet
  <2>6. Place(i) = Cardinality(Notafter(i))
    OBVIOUS
  <2> HIDE DEF Notafter, Place
  <2> QED BY <1>1, <2>1, <2>4, <2>5, <2>6
<1>4. ASSUME NEW i \in 1..n, NEW j \in 1..n, i # j, Before(all[i], all[j])
      PROVE  Place(i) < Place(j)
  <2>1. all[i] \in Row /\ all[j] \in Row /\ all[i].key # all[j].key
    BY <1>1, <1>4
  <2>2. ~ Before(all[j], all[i])
    BY <1>4, <2>1, BeforeOrder
  <2>3. j \notin Notafter(i) /\ j \in Notafter(j)
    BY <1>3, <2>2
  <2>4. Notafter(i) \subseteq Notafter(j)
    BY <1>1, <1>4, BeforeOrder
  <2>5. Place(i) = Cardinality(Notafter(i)) /\ Place(j) = Cardinality(Notafter(j))
    OBVIOUS
  <2>8. Place(i) \in 1..n /\ Place(j) \in 1..n
    BY <1>3, Zenon
  <2>6. IsFiniteSet(Notafter(j))
    BY <1>3
  <2> HIDE DEF Notafter, Place
  <2>7. Cardinality(Notafter(i)) <= Cardinality(Notafter(j))
        /\ Cardinality(Notafter(i)) # Cardinality(Notafter(j))
    BY <2>3, <2>4, <2>6, FS_Subset
  <2> QED BY <2>5, <2>7, <2>8
<1> HIDE DEF Place
<1>5. f \in [1..n -> 1..n] /\ \A i, j \in 1..n : f[i] = f[j] => i = j
  <2>1. \A i \in 1..n : f[i] = Place(i) /\ Place(i) \in 1..n
    BY <1>3
  <2>2. f \in [1..n -> 1..n]
    BY <1>3
  <2>3. ASSUME NEW i \in 1..n, NEW j \in 1..n, f[i] = f[j], i # j PROVE FALSE
    <3>1. Place(i) = Place(j) /\ Place(i) \in Int
      BY <2>1, <2>3
    <3>2. all[i] \in Row /\ all[j] \in Row
      BY <1>1
    <3>3. Before(all[i], all[j]) \/ Before(all[j], all[i])
      BY <3>2, BeforeOrder
    <3> QED BY <1>4, <2>3, <3>1, <3>3
  <2> QED BY <2>2, <2>3
<1>6. ASSUME NEW k \in 1..n PROVE at(k) \in 1..n /\ Place(at(k)) = k
  <2>1. \E i \in 1..n : f[i] = k
    <3>1. n \in Nat
      BY <1>1
    <3> HIDE DEF f
    <3> QED BY <3>1, <1>5, Permutes, Zenon
  <2>2. \E i \in DOMAIN all : Place(i) = k
    BY <1>1, <2>1
  <2>3. at(k) \in DOMAIN all /\ Place(at(k)) = k
    BY <2>2, Zenon
  <2> QED BY <1>1, <2>3, Zenon
<1> HIDE DEF at
<1>7. rows(rs) \in Seq(Row) /\ DOMAIN rows(rs) = 1..n
  <2>1. rows(rs) = [k \in 1..n |-> all[at(k)]]
    BY <1>1, <1>2, Zenon
  <2>2. \A k \in 1..n : all[at(k)] \in Row
    BY <1>1, <1>6
  <2> QED BY <1>1, <2>1, <2>2
<1>8. ASSUME NEW a \in 1..n, NEW b \in 1..n, a < b
      PROVE  rows(rs)[a].start <= rows(rs)[b].start
  <2>1. all[at(a)] \in Row /\ all[at(b)] \in Row /\ at(a) \in 1..n /\ at(b) \in 1..n
    BY <1>1, <1>6
  <2>2. Place(at(a)) = a /\ Place(at(b)) = b
    BY <1>6
  <2>3. ~ Before(all[at(b)], all[at(a)])
    <3>1. at(a) # at(b) /\ ~ (Place(at(b)) < Place(at(a)))
      BY <1>8, <2>2
    <3> QED BY <1>4, <2>1, <3>1, Zenon
  <2>4. all[at(a)].start <= all[at(b)].start
    BY <2>1, <2>3, BeforeOrder
  <2> QED BY <1>1, <1>2, <2>4
<1>9. ASSUME NEW i \in 1..n PROVE \E a \in 1..n : rows(rs)[a] = all[i]
  <2>1. Place(i) \in 1..n
    BY <1>3
  <2>2. at(Place(i)) \in 1..n /\ Place(at(Place(i))) = Place(i)
    BY <1>6, <2>1
  <2>3. at(Place(i)) = i
    <3> DEFINE j == at(Place(i))
    <3>1. f[j] = f[i] /\ j \in 1..n
      BY <2>2
    <3> HIDE DEF f, j
    <3>2. j = i
      BY <1>5, <3>1
    <3> QED BY <3>2 DEF j
  <2>4. rows(rs)[Place(i)] = all[i]
    BY <1>1, <1>2, <2>1, <2>3
  <2> QED BY <2>1, <2>4
<1> QED BY <1>1, <1>7, <1>8, <1>9 DEF all

InOrder(s) == \A a, b \in DOMAIN s : a < b => s[a].start <= s[b].start

\* q are the elements in S of the first m of s.
Filters(q, s, S, m) ==
    /\ \A a \in DOMAIN q : q[a] \in S /\ \E j \in 1..m : q[a] = s[j]
    /\ \A j \in 1..m : s[j] \in S => \E a \in DOMAIN q : q[a] = s[j]
    /\ InOrder(s) => InOrder(q)
    /\ Len(q) = Cardinality({j \in 1..m : s[j] \in S})

LEMMA KeptFilters ==
    ASSUME NEW s \in Seq(Row), NEW S
    PROVE  Kept(s, S) \in Seq(Row) /\ Filters(Kept(s, S), s, S, Len(s))
<1> DEFINE n == Len(s)
<1>1. n \in Nat /\ DOMAIN s = 1..n /\ \A i \in 1..n : s[i] \in Row
  OBVIOUS
<1>2. PICK p \in [0..n -> Seq(Row)] :
         /\ p[0] = <<>>
         /\ \A i \in 1..n : p[i] = IF s[i] \in S THEN Append(p[i - 1], s[i]) ELSE p[i - 1]
         /\ Kept(s, S) = p[n]
  <2>1. PICK p \in [0..n -> Seq(Row)] : KeepsOne(p, s, S) /\ Kept(s, S) = p[n]
    BY KeptSteps
  <2> QED BY <2>1, Zenon DEF KeepsOne
<1> HIDE DEF n
<1> DEFINE T == {m \in Nat : m \in 0..n => Filters(p[m], s, S, m)}
<1>3. \A m \in Nat : m \in T
  <2>1. 0 \in T
    <3>1. p[0] = <<>> /\ DOMAIN p[0] = {} /\ Len(p[0]) = 0 /\ 1..0 = {}
      BY <1>2
    <3>2. Cardinality({j \in 1..0 : s[j] \in S}) = 0
      BY <3>1, FS_EmptySet
    <3> QED BY <3>1, <3>2 DEF Filters, InOrder
  <2>2. ASSUME NEW m \in Nat, m \in T PROVE m + 1 \in T
    <3> SUFFICES ASSUME m + 1 \in 1..n PROVE Filters(p[m + 1], s, S, m + 1)
      BY <1>1
    <3> DEFINE q == p[m]
               r == s[m + 1]
               hits == {j \in 1..m : s[j] \in S}
    <3>1. q \in Seq(Row) /\ r \in Row /\ Filters(q, s, S, m)
      BY <1>1, <2>2
    <3>2. p[m + 1] = IF r \in S THEN Append(q, r) ELSE q
      <4>1. (m + 1) - 1 = m
        OBVIOUS
      <4> QED BY <1>2, <4>1
    <3>3. IsFiniteSet(hits) /\ m + 1 \notin hits /\ Len(q) = Cardinality(hits)
      <4>1. IsFiniteSet(1..m)
        BY FS_Interval
      <4>2. hits \in SUBSET (1..m) /\ m + 1 \notin 1..m
        OBVIOUS
      <4>3. Len(q) = Cardinality(hits)
        BY <3>1 DEF Filters
      <4> HIDE DEF hits
      <4> QED BY <4>1, <4>2, <4>3, FS_Subset
    <3>4. {j \in 1..(m + 1) : s[j] \in S} = IF r \in S THEN hits \union {m + 1} ELSE hits
      OBVIOUS
    <3> HIDE DEF q, hits
    <3>5. CASE r \notin S
      <4>1. \A a \in DOMAIN q : q[a] \in S /\ \E j \in 1..(m + 1) : q[a] = s[j]
        BY <3>1 DEF Filters
      <4>2. \A j \in 1..(m + 1) : s[j] \in S => \E a \in DOMAIN q : q[a] = s[j]
        <5> SUFFICES ASSUME NEW j \in 1..(m + 1), s[j] \in S PROVE \E a \in DOMAIN q : q[a] = s[j]
          OBVIOUS
        <5>1. j \in 1..m
          BY <3>5
        <5> QED BY <3>1, <5>1 DEF Filters
      <4>3. p[m + 1] = q /\ (InOrder(s) => InOrder(q))
            /\ Len(q) = Cardinality({j \in 1..(m + 1) : s[j] \in S})
        BY <3>1, <3>2, <3>3, <3>4, <3>5, Zenon DEF Filters
      <4> QED BY <4>1, <4>2, <4>3, Zenon DEF Filters
    <3>6. CASE r \in S
      <4> DEFINE z == Append(q, r)
      <4>1. /\ z \in Seq(Row) /\ Len(z) = Len(q) + 1 /\ DOMAIN q = 1..Len(q)
            /\ DOMAIN z = 1..(Len(q) + 1) /\ Len(q) \in Nat
            /\ z[Len(q) + 1] = r /\ \A a \in 1..Len(q) : z[a] = q[a]
        BY <3>1, AppendProperties
      <4> HIDE DEF z
      <4>2. ASSUME NEW a \in DOMAIN z PROVE z[a] \in S /\ \E j \in 1..(m + 1) : z[a] = s[j]
        <5>1. CASE a = Len(q) + 1
          BY <3>6, <4>1, <5>1
        <5>2. CASE a \in 1..Len(q)
          BY <3>1, <4>1, <5>2 DEF Filters
        <5> QED BY <4>1, <5>1, <5>2
      <4>3. ASSUME NEW j \in 1..(m + 1), s[j] \in S PROVE \E a \in DOMAIN z : z[a] = s[j]
        <5>1. CASE j = m + 1
          BY <4>1, <5>1
        <5>2. CASE j \in 1..m
          <6>1. PICK a \in DOMAIN q : q[a] = s[j]
            BY <3>1, <4>3, <5>2 DEF Filters
          <6> QED BY <4>1, <6>1
        <5> QED BY <5>1, <5>2
      <4>4. ASSUME InOrder(s) PROVE InOrder(z)
        <5> SUFFICES ASSUME NEW a \in DOMAIN z, NEW b \in DOMAIN z, a < b
                     PROVE  z[a].start <= z[b].start
          BY DEF InOrder
        <5>1. a \in 1..Len(q) /\ z[a] = q[a]
          BY <4>1
        <5>2. CASE b = Len(q) + 1
          <6>1. PICK j \in 1..m : q[a] = s[j]
            BY <3>1, <4>1, <5>1 DEF Filters
          <6>2. s[j].start <= s[m + 1].start
            <7>1. j \in DOMAIN s /\ m + 1 \in DOMAIN s /\ j < m + 1
              BY <1>1
            <7> QED BY <4>4, <7>1 DEF InOrder
          <6> QED BY <4>1, <5>1, <5>2, <6>1, <6>2
        <5>3. CASE b \in 1..Len(q)
          <6>1. q[a].start <= q[b].start
            BY <3>1, <4>1, <4>4, <5>1, <5>3 DEF Filters, InOrder
          <6> QED BY <4>1, <5>1, <5>3, <6>1
        <5> QED BY <4>1, <5>2, <5>3
      <4>5. Len(z) = Cardinality({j \in 1..(m + 1) : s[j] \in S})
        BY <3>3, <3>4, <3>6, <4>1, FS_AddElement
      <4>6. p[m + 1] = z
        BY <3>2, <3>6 DEF z
      <4> QED BY <4>2, <4>3, <4>4, <4>5, <4>6, Zenon DEF Filters
    <3> QED BY <3>5, <3>6
  <2> HIDE DEF T
  <2> QED BY <2>1, <2>2, NatInduct
<1>4. n \in 0..n /\ n \in T
  BY <1>1, <1>3
<1> QED BY <1>2, <1>4 DEF n

RowsOf(g) == [i \in DOMAIN g |-> g[i].rows]

\* g groups the first m of s.
Gathers(g, s, m) ==
    /\ FlattenSeq(RowsOf(g)) = SubSeq(s, 1, m)
    /\ \A i, j \in DOMAIN g : i < j => g[i].key < g[j].key
    /\ \A i \in DOMAIN g : \A k \in DOMAIN g[i].rows : UtcDay(g[i].rows[k].start) = g[i].key
    /\ g # <<>> => m > 0 /\ g[Len(g)].key = UtcDay(s[m].start)

LEMMA GroupType ==
    ASSUME NEW g \in Seq(Group), NEW i \in 1..Len(g)
    PROVE  g[i] \in Group /\ g[i].key \in Int /\ g[i].date \in Int /\ g[i].rows \in Seq(Row)
<1>1. \A e \in Group : e.key \in Int /\ e.date \in Int /\ e.rows \in Seq(Row)
  BY DEF Group
<1>2. g[i] \in Group
  BY ElementOfSeq
<1> QED BY <1>1, <1>2

LEMMA RowsOfAppend ==
    ASSUME NEW g \in Seq(Group), NEW x \in Group
    PROVE  /\ RowsOf(g) \in Seq(Seq(Row)) /\ RowsOf(Append(g, x)) = Append(RowsOf(g), x.rows)
           /\ FlattenSeq(RowsOf(g)) \in Seq(Row)
           /\ FlattenSeq(RowsOf(Append(g, x))) = FlattenSeq(RowsOf(g)) \o x.rows
<1>1. \A i \in 1..Len(g) : g[i] \in Group /\ g[i].rows \in Seq(Row)
  BY GroupType
<1>2. x.rows \in Seq(Row)
  BY DEF Group
<1>3. RowsOf(g) = [i \in 1..Len(g) |-> g[i].rows] /\ Len(g) \in Nat
  BY DEF RowsOf
<1>4. RowsOf(g) \in Seq(Seq(Row)) /\ Len(RowsOf(g)) = Len(g)
  BY <1>1, <1>3
<1> DEFINE h == Append(g, x)
<1>5. h \in Seq(Group) /\ DOMAIN h = 1..(Len(g) + 1) /\ h[Len(g) + 1] = x
      /\ \A i \in 1..Len(g) : h[i] = g[i]
  BY AppendProperties
<1> HIDE DEF h
<1>6. RowsOf(h) = [i \in 1..(Len(g) + 1) |-> h[i].rows]
  BY <1>5 DEF RowsOf
<1>7. Append(RowsOf(g), x.rows) = [i \in 1..(Len(g) + 1) |-> h[i].rows]
  <2> DEFINE w == Append(RowsOf(g), x.rows)
             v == [i \in 1..(Len(g) + 1) |-> h[i].rows]
  <2>1. w \in Seq(Seq(Row)) /\ Len(w) = Len(g) + 1 /\ w[Len(g) + 1] = x.rows
        /\ \A i \in 1..Len(g) : w[i] = g[i].rows
    BY <1>2, <1>3, <1>4, AppendProperties
  <2>2. \A i \in 1..(Len(g) + 1) : h[i].rows \in Seq(Row) /\ w[i] = h[i].rows
    BY <1>1, <1>2, <1>5, <2>1
  <2>3. v \in Seq(Seq(Row)) /\ Len(v) = Len(g) + 1
    BY <1>3, <2>2
  <2>4. \A i \in 1..(Len(g) + 1) : v[i] = w[i]
    BY <2>2
  <2> HIDE DEF v, w
  <2>5. v = w
    BY <2>1, <2>3, <2>4, SeqEqual
  <2> QED BY <2>5 DEF v, w
<1>8. FlattenSeq(RowsOf(g)) \in Seq(Row)
      /\ FlattenSeq(Append(RowsOf(g), x.rows)) = FlattenSeq(RowsOf(g)) \o x.rows
  BY <1>2, <1>4, FlattenAppend
<1> QED BY <1>4, <1>6, <1>7, <1>8 DEF h

LEMMA UtcDayMono ==
    ASSUME NEW t \in Int, NEW u \in Int, t <= u
    PROVE  UtcDay(t) <= UtcDay(u)
BY DivMono, DayAndZone DEF UtcDay

LEMMA PutGathers ==
    ASSUME NEW s \in Seq(Row), InOrder(s), NEW g \in Seq(Group), NEW m \in Nat,
           m + 1 \in DOMAIN s, Gathers(g, s, m)
    PROVE  Gathers(Put(g, s[m + 1]), s, m + 1)
<1> DEFINE r == s[m + 1]
<1>1. r \in Row /\ r.start \in Int /\ UtcDay(r.start) \in Int /\ m + 1 \in 1..Len(s) /\ 1 \in 1..Len(s)
  <2>1. r \in Row /\ m + 1 \in 1..Len(s) /\ 1 \in 1..Len(s)
    OBVIOUS
  <2> QED BY <2>1, DayOf DEF Row
<1>2. SubSeq(s, 1, m + 1) = SubSeq(s, 1, m) \o <<r>> /\ SubSeq(s, 1, m) \in Seq(Row)
  <2>1. SubSeq(s, 1, m + 1) = SubSeq(s, 1, (m + 1) - 1) \o <<s[m + 1]>> /\ (m + 1) - 1 = m
    BY <1>1, SubSeqRecursiveSecond
  <2>2. \A i \in 1..m : s[i] \in Row
    BY <1>1
  <2> QED BY <2>1, <2>2, SubSeqProperties
<1>3. CASE g # <<>> /\ Last(g).key = UtcDay(r.start)
  <2> DEFINE f == Front(g)
             e == Last(g)
             x == [e EXCEPT !.rows = Append(@, r)]
             h == Append(f, x)
  <2>1. /\ f \in Seq(Group) /\ e \in Group /\ g = Append(f, e) /\ Put(g, r) = h
        /\ x = [key |-> e.key, date |-> e.date, rows |-> Append(e.rows, r)]
    BY <1>1, <1>3, PutInLast
  <2> HIDE DEF f, e, x
  <2>2. e.rows \in Seq(Row) /\ e.key \in Int /\ e.date \in Int
    BY <2>1 DEF Group
  <2>3. Append(e.rows, r) \in Seq(Row) /\ Append(e.rows, r) = e.rows \o <<r>> /\ <<r>> \in Seq(Row)
    <3>1. <<r>> \in Seq(Row)
      BY <1>1
    <3> HIDE DEF r
    <3> QED BY <1>1, <2>2, <3>1, AppendIsConcat, AppendProperties
  <2>4. x \in Group /\ x.rows = e.rows \o <<r>> /\ x.key = e.key
    BY <2>1, <2>2, <2>3 DEF Group
  <2>5. FlattenSeq(RowsOf(h)) = SubSeq(s, 1, m + 1)
    <3>1. FlattenSeq(RowsOf(h)) = FlattenSeq(RowsOf(f)) \o (e.rows \o <<r>>)
      BY <2>1, <2>4, RowsOfAppend
    <3>2. FlattenSeq(RowsOf(g)) = FlattenSeq(RowsOf(f)) \o e.rows /\ FlattenSeq(RowsOf(f)) \in Seq(Row)
      BY <2>1, RowsOfAppend
    <3>3. (FlattenSeq(RowsOf(f)) \o e.rows) \o <<r>> = FlattenSeq(RowsOf(f)) \o (e.rows \o <<r>>)
      <4>1. FlattenSeq(RowsOf(f)) \in Seq(Row) /\ e.rows \in Seq(Row) /\ <<r>> \in Seq(Row)
        BY <2>2, <2>3, <3>2
      <4>2. \A a, b, c \in Seq(Row) : (a \o b) \o c = a \o (b \o c)
        BY ConcatAssociative
      <4> HIDE DEF r
      <4> QED BY <4>1, <4>2, Zenon
    <3> QED BY <1>2, <3>1, <3>2, <3>3 DEF Gathers
  <2>6. /\ DOMAIN h = DOMAIN g /\ Len(h) = Len(f) + 1 /\ Len(g) = Len(f) + 1 /\ Len(f) \in Nat
        /\ DOMAIN g = 1..(Len(f) + 1)
        /\ g[Len(f) + 1] = e /\ h[Len(f) + 1] = x /\ \A i \in 1..Len(f) : h[i] = g[i]
    BY <2>1, <2>4, AppendProperties
  <2> HIDE DEF h
  <2>7. \A i \in DOMAIN g : h[i].key = g[i].key
    BY <2>4, <2>6
  <2>8. \A i, j \in DOMAIN h : i < j => h[i].key < h[j].key
    BY <2>6, <2>7 DEF Gathers
  <2>9. ASSUME NEW i \in DOMAIN h, NEW k \in DOMAIN h[i].rows
        PROVE  UtcDay(h[i].rows[k].start) = h[i].key
    <3>1. CASE i \in 1..Len(f)
      BY <2>6, <2>9, <3>1 DEF Gathers
    <3>2. CASE i = Len(f) + 1
      <4>1. h[i] = x /\ g[i] = e /\ i \in DOMAIN g
        BY <2>6, <3>2
      <4>2. k \in 1..(Len(e.rows) + 1) /\ x.rows[k] = IF k <= Len(e.rows) THEN e.rows[k] ELSE r
        <5>1. x.rows = Append(e.rows, r) /\ k \in DOMAIN x.rows
          BY <2>3, <2>4, <2>9, <4>1
        <5>2. e.rows \in Seq(Row) /\ r \in Row
          BY <1>1, <2>2
        <5> HIDE DEF r
        <5>3. Append(e.rows, r) \in Seq(Row) /\ Len(Append(e.rows, r)) = Len(e.rows) + 1
              /\ Len(e.rows) \in Nat /\ Append(e.rows, r)[Len(e.rows) + 1] = r
              /\ \A j \in 1..Len(e.rows) : Append(e.rows, r)[j] = e.rows[j]
          BY <5>2, AppendProperties
        <5> QED BY <5>1, <5>3
      <4>3. CASE k <= Len(e.rows)
        <5>1. k \in DOMAIN e.rows
          BY <2>2, <4>2, <4>3
        <5>2. UtcDay(e.rows[k].start) = e.key
          BY <4>1, <5>1 DEF Gathers
        <5> QED BY <2>4, <4>1, <4>2, <4>3, <5>2
      <4>4. CASE ~ (k <= Len(e.rows))
        BY <1>3, <2>4, <4>1, <4>2, <4>4 DEF e
      <4> QED BY <4>3, <4>4
    <3> QED BY <2>6, <3>1, <3>2
  <2>10. h[Len(h)].key = UtcDay(r.start)
    BY <1>3, <2>4, <2>6 DEF e
  <2> QED BY <2>1, <2>5, <2>8, <2>9, <2>10 DEF Gathers
<1>4. CASE ~ (g # <<>> /\ Last(g).key = UtcDay(r.start))
  <2> DEFINE new == [key |-> UtcDay(r.start), date |-> r.start, rows |-> <<r>>]
             h == Append(g, new)
  <2>1. new \in Group /\ Put(g, r) = h /\ new.key = UtcDay(r.start) /\ new.rows = <<r>>
    BY <1>1, <1>4, PutNew
  <2> HIDE DEF new
  <2>2. FlattenSeq(RowsOf(h)) = SubSeq(s, 1, m + 1)
    BY <1>2, <2>1, RowsOfAppend DEF Gathers
  <2>3. /\ DOMAIN h = 1..(Len(g) + 1) /\ Len(h) = Len(g) + 1 /\ Len(g) \in Nat /\ DOMAIN g = 1..Len(g)
        /\ h[Len(g) + 1] = new /\ \A i \in 1..Len(g) : h[i] = g[i]
    BY <2>1, AppendProperties
  <2> HIDE DEF h
  <2>4. ASSUME NEW i \in 1..Len(g) PROVE g[i].key < UtcDay(r.start)
    <3>1. g # <<>> /\ Len(g) \in 1..Len(g) /\ g[i].key \in Int /\ g[Len(g)].key \in Int
      <4>1. g # <<>> /\ Len(g) \in 1..Len(g)
        BY <2>3
      <4> QED BY <4>1, GroupType
    <3>2. g[Len(g)].key # UtcDay(r.start)
      BY <1>4, <3>1 DEF Last
    <3>3. m > 0 /\ g[Len(g)].key = UtcDay(s[m].start)
      BY <3>1 DEF Gathers
    <3>4. s[m].start \in Int /\ s[m].start <= r.start
      <4>1. m \in DOMAIN s /\ m < m + 1 /\ s[m] \in Row
        BY <1>1, <3>3
      <4> QED BY <4>1 DEF InOrder, Row
    <3>5. UtcDay(s[m].start) <= UtcDay(r.start)
      BY <1>1, <3>4, UtcDayMono
    <3>6. i < Len(g) => g[i].key < g[Len(g)].key
      BY <2>3, <3>1 DEF Gathers
    <3> HIDE DEF r
    <3> QED BY <1>1, <2>3, <3>1, <3>2, <3>3, <3>5, <3>6
  <2>5. \A i, j \in DOMAIN h : i < j => h[i].key < h[j].key
    <3> SUFFICES ASSUME NEW i \in DOMAIN h, NEW j \in DOMAIN h, i < j PROVE h[i].key < h[j].key
      OBVIOUS
    <3>1. i \in 1..Len(g) /\ h[i] = g[i]
      BY <2>3
    <3>2. CASE j \in 1..Len(g)
      BY <2>3, <3>1, <3>2 DEF Gathers
    <3>3. CASE j = Len(g) + 1
      BY <2>1, <2>3, <2>4, <3>1, <3>3
    <3> QED BY <2>3, <3>2, <3>3
  <2>6. ASSUME NEW i \in DOMAIN h, NEW k \in DOMAIN h[i].rows
        PROVE  UtcDay(h[i].rows[k].start) = h[i].key
    <3>1. CASE i \in 1..Len(g)
      BY <2>3, <2>6, <3>1 DEF Gathers
    <3>2. CASE i = Len(g) + 1
      <4>1. h[i] = new /\ k = 1 /\ <<r>>[k] = r
        BY <2>1, <2>3, <2>6, <3>2
      <4> QED BY <2>1, <4>1
    <3> QED BY <2>3, <3>1, <3>2
  <2>7. h[Len(h)].key = UtcDay(r.start)
    BY <2>1, <2>3
  <2> QED BY <2>1, <2>2, <2>5, <2>6, <2>7 DEF Gathers
<1> QED BY <1>3, <1>4

LEMMA GroupsGather ==
    ASSUME NEW s \in Seq(Row)
    PROVE  groups(s) \in Seq(Group) /\ (InOrder(s) => Gathers(groups(s), s, Len(s)))
<1> DEFINE n == Len(s)
<1>1. n \in Nat /\ DOMAIN s = 1..n /\ \A i \in 1..n : s[i] \in Row
  OBVIOUS
<1>2. PICK p \in [0..n -> Seq(Group)] :
         /\ p[0] = <<>> /\ \A i \in 1..n : p[i] = Put(p[i - 1], s[i])
         /\ groups(s) = p[n]
  BY GroupsSteps
<1> HIDE DEF n
<1> DEFINE T == {m \in Nat : m \in 0..n => Gathers(p[m], s, m)}
<1>3. ASSUME InOrder(s) PROVE \A m \in Nat : m \in T
  <2>1. 0 \in T
    <3>1. RowsOf(<<>>) = <<>> /\ FlattenSeq(<<>>) = <<>> /\ DOMAIN <<>> = {}
      BY DEF RowsOf, FlattenSeq
    <3>2. SubSeq(s, 1, 0) = <<>>
      BY SubSeqEmpty
    <3>3. Gathers(<<>>, s, 0)
      BY <3>1, <3>2 DEF Gathers
    <3> QED BY <1>2, <3>3
  <2>2. ASSUME NEW m \in Nat, m \in T PROVE m + 1 \in T
    <3> SUFFICES ASSUME m + 1 \in 1..n PROVE Gathers(p[m + 1], s, m + 1)
      BY <1>1
    <3>1. p[m] \in Seq(Group) /\ Gathers(p[m], s, m) /\ m + 1 \in DOMAIN s
      BY <1>1, <2>2
    <3>2. p[m + 1] = Put(p[m], s[m + 1])
      <4>1. (m + 1) - 1 = m
        OBVIOUS
      <4> QED BY <1>2, <4>1
    <3> QED BY <1>3, <3>1, <3>2, PutGathers
  <2> HIDE DEF T
  <2> QED BY <2>1, <2>2, NatInduct
<1>4. n \in 0..n
  BY <1>1
<1>5. InOrder(s) => Gathers(p[n], s, n)
  BY <1>1, <1>3, <1>4
<1> QED BY <1>2, <1>4, <1>5 DEF n

\* A group has the date of one of its rows.
LEMMA GroupDates ==
    ASSUME NEW s \in Seq(Row), NEW j \in DOMAIN groups(s)
    PROVE  \E k \in DOMAIN s : groups(s)[j].date = s[k].start
<1> DEFINE n == Len(s)
           Dated(g) == \A i \in DOMAIN g : \E k \in DOMAIN s : g[i].date = s[k].start
<1>1. n \in Nat /\ DOMAIN s = 1..n /\ \A i \in 1..n : s[i] \in Row
  OBVIOUS
<1>2. PICK p \in [0..n -> Seq(Group)] :
         /\ p[0] = <<>> /\ \A i \in 1..n : p[i] = Put(p[i - 1], s[i])
         /\ groups(s) = p[n]
  BY GroupsSteps
<1> HIDE DEF n
<1>3. ASSUME NEW g \in Seq(Group), Dated(g), NEW m \in DOMAIN s PROVE Dated(Put(g, s[m]))
  <2>1. s[m] \in Row
    BY <1>1
  <2>2. CASE g # <<>> /\ Last(g).key = UtcDay(s[m].start)
    <3> DEFINE x == [Last(g) EXCEPT !.rows = Append(@, s[m])]
               f == Front(g)
    <3>1. /\ f \in Seq(Group) /\ Last(g) \in Group /\ g = Append(f, Last(g)) /\ Put(g, s[m]) = Append(f, x)
          /\ x = [key |-> Last(g).key, date |-> Last(g).date, rows |-> Append(Last(g).rows, s[m])]
      BY <2>1, <2>2, PutInLast
    <3>2. x.date = Last(g).date
      BY <3>1
    <3> DEFINE y == Last(g)
    <3> HIDE DEF x, f, y
    <3>3. /\ DOMAIN Append(f, x) = 1..(Len(f) + 1) /\ DOMAIN Append(f, y) = 1..(Len(f) + 1)
          /\ \A i \in 1..Len(f) : Append(f, x)[i] = Append(f, y)[i]
          /\ Append(f, x)[Len(f) + 1] = x /\ Append(f, y)[Len(f) + 1] = y /\ Len(f) \in Nat
      BY <3>1
    <3>4. \A i \in DOMAIN Append(f, x) : Append(f, x)[i].date = Append(f, y)[i].date
      BY <3>2, <3>3 DEF y
    <3>5. \A i \in DOMAIN Append(f, y) : \E k \in DOMAIN s : Append(f, y)[i].date = s[k].start
      BY <1>3, <3>1, Zenon DEF y
    <3>6. \A i \in DOMAIN Append(f, x) : \E k \in DOMAIN s : Append(f, x)[i].date = s[k].start
      BY <3>3, <3>4, <3>5
    <3> QED BY <3>1, <3>6, Zenon
  <2>3. CASE ~ (g # <<>> /\ Last(g).key = UtcDay(s[m].start))
    <3> DEFINE x == [key |-> UtcDay(s[m].start), date |-> s[m].start, rows |-> <<s[m]>>]
    <3>1. Put(g, s[m]) = Append(g, x) /\ x.date = s[m].start
      BY <2>1, <2>3, PutNew
    <3> HIDE DEF x
    <3>2. /\ DOMAIN Append(g, x) = 1..(Len(g) + 1) /\ DOMAIN g = 1..Len(g) /\ Len(g) \in Nat
          /\ \A i \in 1..Len(g) : Append(g, x)[i] = g[i]
          /\ Append(g, x)[Len(g) + 1] = x
      OBVIOUS
    <3> QED BY <1>3, <3>1, <3>2
  <2> QED BY <2>2, <2>3
<1> DEFINE T == {m \in Nat : m \in 0..n => Dated(p[m])}
<1>4. 0 \in T
  BY <1>2
<1>5. ASSUME NEW m \in Nat, m \in T PROVE m + 1 \in T
  <2> SUFFICES ASSUME m + 1 \in 1..n PROVE Dated(p[m + 1])
    BY <1>1
  <2> HIDE DEF Dated
  <2>1. p[m] \in Seq(Group) /\ Dated(p[m]) /\ m + 1 \in DOMAIN s
    BY <1>1, <1>5
  <2>2. p[m + 1] = Put(p[m], s[m + 1])
    <3>1. (m + 1) - 1 = m
      OBVIOUS
    <3> QED BY <1>2, <3>1
  <2> QED BY <1>3, <2>1, <2>2
<1>6. n \in T
  <2> HIDE DEF T
  <2> QED BY <1>1, <1>4, <1>5, NatInduct
<1>7. Dated(groups(s))
  BY <1>1, <1>2, <1>6
<1> QED BY <1>7

-----------------------------------------------------------------------------
(* The label of a group *)

LEMMA Says ==
    ASSUME NEW x, NEW w, NEW m, x = [says |-> w, n |-> m]
    PROVE  x.says = w /\ x.n = m
OBVIOUS

LEMMA LabelIs ==
    ASSUME NEW k \in Int, NEW today \in BOOLEAN
    PROVE  /\ today => Label(today, k) = [says |-> "today", n |-> 0]
           /\ ~today /\ k = 0 => Label(today, k) = [says |-> "weeks ago", n |-> 0]
           /\ ~today /\ k = 1 => Label(today, k) = [says |-> "tomorrow", n |-> 1]
           /\ ~today /\ k > 1 /\ k < 7 => Label(today, k) = [says |-> "in days", n |-> k]
           /\ ~today /\ k < 0 /\ k > -7 => Label(today, k) = [says |-> "days ago", n |-> -k]
           /\ ~today /\ k >= 7 => Label(today, k).says = "in weeks"
           /\ ~today /\ k <= -7 => Label(today, k).says = "weeks ago" /\ Label(today, k).n > 0
<1>1. today => Label(today, k) = [says |-> "today", n |-> 0]
  BY DEF Label
<1>2. ~today /\ k = 0 => Label(today, k) = [says |-> "weeks ago", n |-> 0]
  BY DEF Label, CeilDiv, Abs
<1>3. ~today /\ k = 1 => Label(today, k) = [says |-> "tomorrow", n |-> 1]
  BY DEF Label
<1>4. ASSUME ~today, k > 1, k < 7 PROVE Label(today, k) = [says |-> "in days", n |-> k]
  <2>1. ~ (k = 1) /\ ~ (k < 0) /\ ~ (k >= 7)
    BY <1>4
  <2> QED BY <1>4, <2>1, Zenon DEF Label
<1>5. ASSUME ~today, k < 0, k > -7 PROVE Label(today, k) = [says |-> "days ago", n |-> -k]
  <2>1. ~ (k = 1) /\ ~ (k > 1) /\ ~ (k >= 7)
    BY <1>5
  <2> QED BY <1>5, <2>1, Zenon DEF Label
<1>6. ~today /\ k >= 7 => Label(today, k).says = "in weeks"
  BY DEF Label
<1>7. ASSUME ~today, k <= -7 PROVE Label(today, k).says = "weeks ago" /\ Label(today, k).n > 0
  <2>1. Label(today, k) = [says |-> "weeks ago", n |-> CeilDiv(Abs(k), 7)]
    <3>1. ~ (k = 1) /\ ~ (k > 1) /\ ~ (k > -7) /\ ~ (k >= 7)
      BY <1>7
    <3> QED BY <1>7, <3>1, Zenon DEF Label
  <2>2. CeilDiv(Abs(k), 7) > 0
    BY <1>7 DEF CeilDiv, Abs
  <2>3. Label(today, k).says = "weeks ago" /\ Label(today, k).n = CeilDiv(Abs(k), 7)
    BY <2>1, Says, Zenon
  <2> QED BY <2>2, <2>3, Zenon
<1> QED BY <1>1, <1>2, <1>3, <1>4, <1>5, <1>6, <1>7

LEMMA DesignLabels == relativeDay(0).says = "today" /\ relativeDay(1).says = "tomorrow"
<1>1. relativeDay(0) = Label(TRUE, 0) /\ relativeDay(1) = Label(FALSE, 1)
  <2>1. (0 = 0) = TRUE /\ (1 = 0) = FALSE
    OBVIOUS
  <2> QED BY <2>1, Zenon DEF relativeDay
<1>2. Label(TRUE, 0) = [says |-> "today", n |-> 0] /\ Label(FALSE, 1) = [says |-> "tomorrow", n |-> 1]
  <2>1. 0 \in Int /\ 1 \in Int /\ TRUE \in BOOLEAN /\ FALSE \in BOOLEAN
    OBVIOUS
  <2> QED BY <2>1, LabelIs, Zenon
<1> QED BY <1>1, <1>2, Says, Zenon

LEMMA RoundIs ==
    ASSUME NEW a \in Int
    PROVE  /\ Round(a, DayLen) \in Int /\ Round(a, DayLen) * DayLen \in Int
           /\ 2 * (Round(a, DayLen) * DayLen) <= 2 * a + DayLen
           /\ 2 * a < 2 * (Round(a, DayLen) * DayLen) + DayLen
<1> DEFINE k == Round(a, DayLen)
           D == DayLen
<1>1. D \in Nat \ {0} /\ 2 * D \in Nat \ {0} /\ 2 * a + D \in Int
  BY DayAndZone
<1>2. k = (2 * a + D) \div (2 * D)
  BY DEF Round
<1>3. /\ (2 * a + D) \div (2 * D) \in Int
      /\ (2 * D) * ((2 * a + D) \div (2 * D)) <= 2 * a + D
      /\ 2 * a + D < ((2 * D) * ((2 * a + D) \div (2 * D))) + 2 * D
  <2> DEFINE x == 2 * a + D
             y == 2 * D
  <2>1. x \in Int /\ y \in Nat \ {0}
    BY <1>1
  <2> HIDE DEF x, y
  <2>2. x \div y \in Int /\ x % y \in Int /\ 0 <= x % y /\ x % y < y /\ x = (y * (x \div y)) + (x % y)
    BY <2>1, DivDef
  <2>3. y * (x \div y) \in Int
    BY <2>1, <2>2
  <2>4. y * (x \div y) <= x /\ x < (y * (x \div y)) + y
    BY <2>1, <2>2, <2>3
  <2> QED BY <2>2, <2>4 DEF x, y
<1>4. k \in Int /\ (2 * D) * k <= 2 * a + D /\ 2 * a + D < ((2 * D) * k) + 2 * D
  BY <1>2, <1>3
<1> HIDE DEF k, D
<1>5. k * D \in Int /\ (2 * D) * k = 2 * (k * D)
  BY <1>1, <1>4
<1> QED BY <1>1, <1>4, <1>5 DEF k, D

LEMMA DaysApart ==
    ASSUME NEW t \in Int, NEW n \in Int, 2 * (t - n) <= DayLen, 2 * (n - t) <= DayLen
    PROVE  LocalDay(t) - LocalDay(n) \in -1..1
<1> DEFINE d == LocalDay(t)
           e == LocalDay(n)
           r == LocalTime(t)
           s == LocalTime(n)
           y == ZoneAt(t)
           z == ZoneAt(n)
           D == DayLen
<1>1. D \in Nat \ {0} /\ Shift \in Nat /\ 4 * Shift <= D /\ Zone \in Int
      /\ 2 * (t - n) <= D /\ 2 * (n - t) <= D
  BY Bounds
<1>2. d \in Int /\ r \in 0..(D - 1) /\ D * d \in Int /\ t = (D * d) + r - y
  BY DayOf
<1>3. e \in Int /\ s \in 0..(D - 1) /\ D * e \in Int /\ n = (D * e) + s - z
  BY DayOf
<1>4. y \in Int /\ z \in Int /\ Zone <= y /\ y <= Zone + Shift /\ Zone <= z /\ z <= Zone + Shift
  BY ZoneIs
<1> HIDE DEF d, e, r, s, y, z, D
<1>5. ~ (e + 2 <= d)
  <2> SUFFICES ASSUME e + 2 <= d PROVE FALSE
    OBVIOUS
  <2>1. D * (e + 2) <= D * d /\ D * (e + 2) = (D * e) + 2 * D
    BY <1>1, <1>2, <1>3
  <2> QED BY <1>1, <1>2, <1>3, <1>4, <2>1
<1>6. ~ (d + 2 <= e)
  <2> SUFFICES ASSUME d + 2 <= e PROVE FALSE
    OBVIOUS
  <2>1. D * (d + 2) <= D * e /\ D * (d + 2) = (D * d) + 2 * D
    BY <1>1, <1>2, <1>3
  <2> QED BY <1>1, <1>2, <1>3, <1>4, <2>1
<1>7. d - e \in -1..1
  BY <1>2, <1>3, <1>5, <1>6
<1> QED BY <1>7 DEF d, e

LEMMA SameUtcDay ==
    ASSUME NEW t \in Int, NEW n \in Int, UtcDay(t) = UtcDay(n)
    PROVE  t - n < DayLen /\ n - t < DayLen
<1> DEFINE d == t \div DayLen
           D == DayLen
<1>1. D \in Nat \ {0} /\ d = n \div D
  BY DayAndZone DEF UtcDay
<1>2. d \in Int /\ t = (D * d) + (t % D) /\ t % D \in 0..(D - 1)
  BY <1>1, DivDef
<1>3. n = (D * d) + (n % D) /\ n % D \in 0..(D - 1)
  BY <1>1, DivDef
<1> HIDE DEF d, D
<1>4. D * d \in Int
  BY <1>1, <1>2
<1>5. t - n < D /\ n - t < D
  BY <1>1, <1>2, <1>3, <1>4
<1> QED BY <1>5 DEF D

HonestLabel(t, n) ==
    LET dist == t - n
        label == relDay(t, n)
    IN \/ label.says = "today" /\ Abs(dist) < DayLen /\ isToday(t, n)
       \/ /\ label = [says |-> "weeks ago", n |-> 0]
          /\ 2 * Abs(dist) <= DayLen /\ ~isToday(t, n)
          /\ dayLabel(t, n).says \in {"past", "today", "tomorrow"}
       \/ /\ label.says \in {"tomorrow", "in days"} /\ dist > 0
          /\ 2 * Abs(dist - label.n * DayLen) <= DayLen
       \/ /\ label.says = "days ago" /\ dist < 0
          /\ 2 * Abs(dist + label.n * DayLen) <= DayLen
       \/ label.says = "in weeks" /\ 2 * dist >= 13 * DayLen
       \/ label.says = "weeks ago" /\ label.n > 0 /\ 2 * dist <= -13 * DayLen

LEMMA LabelsHonest ==
    ASSUME NEW t \in Int, NEW n \in Int
    PROVE  HonestLabel(t, n)
<1> DEFINE dist == t - n
           k == Round(dist, DayLen)
           D == DayLen
           w == k * D
           label == relDay(t, n)
<1>1. label = Label(isToday(t, n), k) /\ isToday(t, n) \in BOOLEAN
  BY DEF relDay, isToday
<1>2. dist \in Int /\ k \in Int /\ w \in Int /\ 2 * w <= 2 * dist + D /\ 2 * dist < 2 * w + D
      /\ D \in Nat \ {0}
  BY RoundIs, Bounds
<1>9. LET today == isToday(t, n)
      IN /\ today => label = [says |-> "today", n |-> 0]
         /\ ~today /\ k = 0 => label = [says |-> "weeks ago", n |-> 0]
         /\ ~today /\ k = 1 => label = [says |-> "tomorrow", n |-> 1]
         /\ ~today /\ k > 1 /\ k < 7 => label = [says |-> "in days", n |-> k]
         /\ ~today /\ k < 0 /\ k > -7 => label = [says |-> "days ago", n |-> -k]
         /\ ~today /\ k >= 7 => label.says = "in weeks"
         /\ ~today /\ k <= -7 => label.says = "weeks ago" /\ label.n > 0
  <2> HIDE DEF k, label
  <2> QED BY <1>1, <1>2, LabelIs, Zenon
<1>3. CASE isToday(t, n)
  <2>1. dist < D /\ -dist < D
    BY <1>3, SameUtcDay DEF isToday
  <2>2. label.says = "today"
    <3> HIDE DEF k, label
    <3> QED BY <1>3, <1>9
  <2> QED BY <1>2, <1>3, <2>1, <2>2 DEF HonestLabel, Abs
<1> HIDE DEF k, D
<1>4. CASE ~isToday(t, n) /\ k = 0
  <2>1. label = [says |-> "weeks ago", n |-> 0]
    BY <1>4, <1>9
  <2>2. 2 * Abs(dist) <= D /\ dist < D /\ -dist < D
    BY <1>2, <1>4 DEF Abs
  <2>3. dayLabel(t, n).says \in {"past", "today", "tomorrow"}
    <3>1. LocalDay(t) - LocalDay(n) \in -1..1 /\ LocalDay(t) \in Int /\ LocalDay(n) \in Int
      <4>1. 2 * (t - n) <= DayLen /\ 2 * (n - t) <= DayLen
        BY <1>2, <1>4 DEF D
      <4> QED BY <4>1, DaysApart, DayOf
    <3>2. CASE LocalDay(t) < LocalDay(n)
      BY <3>2 DEF dayLabel
    <3>3. CASE LocalDay(t) - LocalDay(n) = 0
      <4>1. ~ (LocalDay(t) < LocalDay(n))
        BY <3>1, <3>3
      <4>2. dayLabel(t, n) = relativeDay(0)
        BY <3>3, <4>1, Zenon DEF dayLabel
      <4> QED BY <4>2, DesignLabels
    <3>4. CASE LocalDay(t) - LocalDay(n) = 1
      <4>1. ~ (LocalDay(t) < LocalDay(n))
        BY <3>1, <3>4
      <4>2. dayLabel(t, n) = relativeDay(1)
        BY <3>4, <4>1, Zenon DEF dayLabel
      <4> QED BY <4>2, DesignLabels
    <3> QED BY <3>1, <3>2, <3>3, <3>4
  <2> HIDE DEF dist, label
  <2> QED BY <1>4, <2>1, <2>2, <2>3 DEF HonestLabel, dist, label, D
<1>5. CASE ~isToday(t, n) /\ k > 0 /\ k < 7
  <2>1. label.says \in {"tomorrow", "in days"} /\ label.n = k
    <3>1. CASE k = 1
      BY <1>5, <1>9, <3>1, Says, Zenon
    <3>2. CASE k # 1
      <4>1. k > 1
        BY <1>2, <1>5, <3>2
      <4> QED BY <1>5, <1>9, <4>1, Says, Zenon
    <3> QED BY <3>1, <3>2
  <2>2. D <= w
    BY <1>2, <1>5
  <2>3. dist > 0 /\ 2 * Abs(dist - w) <= D
    BY <1>2, <2>2 DEF Abs
  <2> HIDE DEF dist, label
  <2> QED BY <2>1, <2>3 DEF HonestLabel, dist, label, D
<1>6. CASE ~isToday(t, n) /\ k < 0 /\ k > -7
  <2>1. label.says = "days ago" /\ label.n = -k
    BY <1>6, <1>9, Says, Zenon
  <2>2. w <= -D /\ (-k) * D = -w
    BY <1>2, <1>6
  <2>3. dist < 0 /\ 2 * Abs(dist + (-k) * D) <= D
    BY <1>2, <2>2 DEF Abs
  <2> HIDE DEF dist, label
  <2> QED BY <2>1, <2>3 DEF HonestLabel, dist, label, D
<1>7. CASE ~isToday(t, n) /\ k >= 7
  <2>1. label.says = "in weeks"
    BY <1>2, <1>7, <1>9
  <2>2. 7 * D <= w
    BY <1>2, <1>7
  <2>3. 2 * dist >= 13 * D
    BY <1>2, <2>2
  <2> HIDE DEF dist, label
  <2> QED BY <2>1, <2>3 DEF HonestLabel, dist, label, D
<1>8. CASE ~isToday(t, n) /\ k <= -7
  <2>1. label.says = "weeks ago" /\ label.n > 0
    BY <1>2, <1>8, <1>9
  <2>2. w <= -7 * D
    BY <1>2, <1>8
  <2>3. 2 * dist <= -13 * D
    BY <1>2, <2>2
  <2> HIDE DEF dist, label
  <2> QED BY <2>1, <2>3 DEF HonestLabel, dist, label, D
<1> QED BY <1>2, <1>3, <1>4, <1>5, <1>6, <1>7, <1>8

-----------------------------------------------------------------------------
(* The list *)

Passes(l, r) ==
    /\ l.status = "all" \/ r.status = l.status
    /\ l.product = "all" \/ r.product = l.product
    /\ l.window = "upcoming" => r.start >= l.asOf
    /\ l.window = "past" => r.start < l.asOf

LEMMA ShownFilters ==
    ASSUME TypeInv
    PROVE  LET S == {r \in Range(rows(rollouts)) : Passes(list, r)}
           IN /\ Shown \in Seq(Row) /\ InOrder(Shown)
              /\ rows(rollouts) \in Seq(Row)
              /\ Filters(Shown, rows(rollouts), S, Len(rows(rollouts)))
<1> DEFINE S == {r \in Range(rows(rollouts)) : Passes(list, r)}
<1>1. rows(rollouts) \in Seq(Row) /\ InOrder(rows(rollouts))
  BY RowsSorted DEF TypeInv, InOrder
<1>2. Shown = Kept(rows(rollouts), S)
  BY DEF Shown, filteredRows, Passes
<1> HIDE DEF S
<1>3. Shown \in Seq(Row) /\ Filters(Shown, rows(rollouts), S, Len(rows(rollouts)))
  BY <1>1, <1>2, KeptFilters
<1>4. InOrder(Shown)
  BY <1>1, <1>3 DEF Filters
<1> QED BY <1>1, <1>3, <1>4 DEF S

LEMMA AllShown ==
    ASSUME TypeInv, list.window = "all", list.product = "all"
    PROVE  Len(Shown) = statusCounts(rollouts, list.status)
<1> DEFINE s == rows(rollouts)
           S == {r \in Range(s) : Passes(list, r)}
<1>1. s \in Seq(Row) /\ Len(Shown) = Cardinality({j \in 1..Len(s) : s[j] \in S})
  BY ShownFilters DEF Filters
<1>2. DOMAIN s = 1..Len(s) /\ \A j \in 1..Len(s) : s[j] \in Range(s)
  BY <1>1 DEF Range
<1>3. \A r : Passes(list, r) <=> list.status = "all" \/ r.status = list.status
  <2>1. "all" # "upcoming" /\ "all" # "past"
    OBVIOUS
  <2> QED BY <2>1, Zenon DEF Passes
<1> HIDE DEF s
<1>4. {j \in 1..Len(s) : s[j] \in S} = {j \in DOMAIN s : list.status = "all" \/ s[j].status = list.status}
  BY <1>2, <1>3
<1> QED BY <1>1, <1>4, Zenon DEF statusCounts, s

LEMMA ListStep ==
    ASSUME ViewsInv
    PROVE  ListComplete
<1> SUFFICES ASSUME page = "list" PROVE ListComplete
  BY DEF ListComplete
<1> DEFINE gs == groups(Shown)
           s == rows(rollouts)
           S == {r \in Range(s) : Passes(list, r)}
<1>1. /\ Shown \in Seq(Row) /\ InOrder(Shown) /\ s \in Seq(Row)
      /\ Filters(Shown, s, S, Len(s)) /\ TypeInv
  BY ShownFilters DEF ViewsInv
<1>2. gs \in Seq(Group) /\ Gathers(gs, Shown, Len(Shown))
  BY <1>1, GroupsGather
<1>3. FlattenSeq([i \in DOMAIN gs |-> gs[i].rows]) = Shown
  <2>1. SubSeq(Shown, 1, Len(Shown)) = Shown
    BY <1>1, SubSeqFull
  <2> QED BY <1>2, <2>1, Zenon DEF Gathers, RowsOf
<1>4. \A i, j \in DOMAIN gs : i < j => gs[i].key < gs[j].key
  BY <1>2 DEF Gathers
<1>5. \A i \in DOMAIN gs : \A k \in DOMAIN gs[i].rows : UtcDay(gs[i].rows[k].start) = gs[i].key
  BY <1>2, Zenon DEF Gathers
<1>6. list.asOf \in Int /\ now \in Int /\ list.asOf <= now
  <2>1. list.asOf \in Int /\ list.rendered \in Int /\ now \in Int
    BY DEF ViewsInv, TypeInv, Lists
  <2> QED BY <2>1 DEF ViewsInv
<1>7. ASSUME NEW i \in DOMAIN Shown, list.window = "past" PROVE Shown[i].start < now
  <2>1. Shown[i] \in S /\ Shown[i] \in Row
    BY <1>1 DEF Filters
  <2>2. Shown[i].start < list.asOf
    BY <1>7, <2>1, Zenon DEF Passes
  <2>3. Shown[i].start \in Int
    BY <2>1 DEF Row
  <2> QED BY <1>6, <2>2, <2>3
<1>8. ASSUME NEW i \in DOMAIN Rows(rollouts),
             Rows(rollouts)[i].start >= now, list.window = "upcoming", list.status = "all",
             list.product \in {"all", Rows(rollouts)[i].product}
      PROVE  Rows(rollouts)[i] \in Range(Shown)
  <2> DEFINE r == Rows(rollouts)[i]
  <2>1. rollouts \in Seq(Rollouts)
    BY <1>1 DEF TypeInv
  <2>2. PICK a \in DOMAIN s : s[a] = r
    BY <2>1, RowsSorted
  <2>3. a \in 1..Len(s) /\ r \in Row /\ r.start \in Int
    <3> HIDE DEF s, r, S
    <3>1. a \in 1..Len(s) /\ s[a] \in Row
      BY <1>1, <2>2
    <3>2. \A x \in Row : x.start \in Int
      BY DEF Row
    <3> QED BY <2>2, <3>1, <3>2
  <2>4. r.start >= list.asOf
    BY <1>6, <1>8, <2>3
  <2>5. list.product = "all" \/ r.product = list.product
    BY <1>8
  <2>6. "upcoming" # "past"
    OBVIOUS
  <2>7. Passes(list, r)
    BY <1>8, <2>4, <2>5, <2>6, Zenon DEF Passes
  <2>8. r \in S
    BY <2>2, <2>7, Zenon DEF Range
  <2> HIDE DEF s, r, S
  <2>9. \E b \in DOMAIN Shown : Shown[b] = s[a]
    BY <1>1, <2>2, <2>3, <2>8 DEF Filters
  <2>10. r \in Range(Shown)
    BY <2>2, <2>9, Zenon DEF Range
  <2> QED BY <2>10 DEF r
<1>9. list.window = "all" /\ list.product = "all" => Len(Shown) = statusCounts(rollouts, list.status)
  BY <1>1, AllShown
<1> HIDE DEF gs
<1>10. \A i \in DOMAIN Rows(rollouts) :
          LET r == Rows(rollouts)[i]
          IN r.start >= now /\ list.window = "upcoming" /\ list.status = "all"
                /\ list.product \in {"all", r.product} => r \in Range(Shown)
  BY <1>8, Zenon
<1>11. \A i \in DOMAIN Shown : list.window = "past" => Shown[i].start < now
  BY <1>7, Zenon
<1> QED BY <1>3, <1>4, <1>5, <1>9, <1>10, <1>11, Zenon DEF ListComplete, gs

LEMMA ShownPast ==
    ASSUME TypeInv, list.window = "past", NEW k \in DOMAIN Shown
    PROVE  Shown[k].start < list.asOf
<1> DEFINE s == rows(rollouts)
           S == {r \in Range(s) : Passes(list, r)}
<1>1. Shown \in Seq(Row) /\ Filters(Shown, s, S, Len(s))
  BY ShownFilters
<1>2. Shown[k] \in S
  BY <1>1 DEF Filters
<1> QED BY <1>2, Zenon DEF Passes

LEMMA LabelStep ==
    ASSUME ViewsInv
    PROVE  LabelHonest
<1> DEFINE gs == groups(Shown)
           at == list.rendered
<1>1. TypeInv /\ list.asOf \in Int /\ at \in Int /\ now \in Int /\ list.asOf <= at /\ at <= now
  BY DEF ViewsInv, TypeInv, Lists
<1>2. Shown \in Seq(Row) /\ gs \in Seq(Group)
  BY <1>1, ShownFilters, GroupsGather
<1>3. ASSUME NEW i \in DOMAIN gs
      PROVE  LET label == relDay(gs[i].date, at)
             IN /\ HonestLabel(gs[i].date, at)
                /\ label.says = "days ago" \/ (label.says = "weeks ago" /\ label.n > 0) => gs[i].date < now
                /\ list.window = "past" => label.says \notin {"tomorrow", "in days", "in weeks"}
  <2> DEFINE date == gs[i].date
             label == relDay(date, at)
             dist == date - at
  <2>1. PICK k \in DOMAIN Shown : date = Shown[k].start
    BY <1>2, <1>3, GroupDates, Zenon
  <2>2. date \in Int
    <3>1. i \in 1..Len(gs)
      BY <1>2, <1>3
    <3> HIDE DEF gs
    <3> QED BY <1>2, <3>1, GroupType
  <2>3. list.window = "past" => date < list.asOf
    BY <1>1, <2>1, ShownPast, Zenon
  <2>4. HonestLabel(date, at)
    BY <1>1, <2>2, LabelsHonest
  <2>5. DayLen \in Nat \ {0} /\ dist \in Int
    BY <1>1, <2>2, Bounds
  <2>6. /\ label.says = "days ago" \/ (label.says = "weeks ago" /\ label.n > 0) => dist < 0
        /\ label.says \in {"tomorrow", "in days", "in weeks"} => dist > 0
    <3>1. (2 * dist >= 13 * DayLen => dist > 0) /\ (2 * dist <= -13 * DayLen => dist < 0)
      <4> HIDE DEF dist
      <4> QED BY <2>5
    <3>2. label = [says |-> "weeks ago", n |-> 0] => label.says = "weeks ago" /\ label.n = 0
      <4> HIDE DEF label
      <4> QED BY Says, Zenon
    <3>3. \/ label.says = "today"
          \/ label = [says |-> "weeks ago", n |-> 0]
          \/ label.says \in {"tomorrow", "in days"} /\ dist > 0
          \/ label.says = "days ago" /\ dist < 0
          \/ label.says = "in weeks" /\ 2 * dist >= 13 * DayLen
          \/ label.says = "weeks ago" /\ label.n > 0 /\ 2 * dist <= -13 * DayLen
      <4> HIDE DEF gs, date, at
      <4> QED BY <2>4, Zenon DEF HonestLabel
    <3> DEFINE says == label.says
               many == label.n > 0
    <3>4. label.n = 0 => ~many
      <4>1. ~ (0 > 0)
        OBVIOUS
      <4> HIDE DEF label
      <4> QED BY <4>1, Zenon
    <3>5. \/ says = "today"
          \/ says = "weeks ago" /\ ~many
          \/ says \in {"tomorrow", "in days"} /\ dist > 0
          \/ says = "days ago" /\ dist < 0
          \/ says = "in weeks" /\ dist > 0
          \/ says = "weeks ago" /\ many /\ dist < 0
      <4> HIDE DEF dist, label, many
      <4> QED BY <3>1, <3>2, <3>3, <3>4, Zenon DEF many
    <3> HIDE DEF gs, date, at, label, dist, says, many
    <3>6. (says = "days ago" \/ (says = "weeks ago" /\ many) => dist < 0)
          /\ (says \in {"tomorrow", "in days", "in weeks"} => dist > 0)
      BY <3>5
    <3> QED BY <3>6, Zenon DEF says, many
  <2> HIDE DEF gs, at, date, label
  <2>7. dist < 0 => date < now
    BY <1>1, <2>2
  <2>8. list.window = "past" => ~ (dist > 0)
    BY <1>1, <2>2, <2>3
  <2> QED BY <2>4, <2>6, <2>7, <2>8, Zenon DEF date, label
<1> QED BY <1>3, Zenon DEF LabelHonest, HonestLabel

LEMMA LayoutStep ==
    ASSUME TypeInv
    PROVE  LayoutFollowsDesign
<1>1. timeline \in Timelines
  BY DEF TypeInv, Timelines
<1>2. ASSUME NEW t \in Stages PROVE t \in Int
  <2>1. Rows(rollouts) \in Seq(Row)
    BY RowsKeyed DEF TypeInv
  <2>2. PICK i \in DOMAIN Rows(rollouts) : t = Rows(rollouts)[i].start
    BY Zenon DEF Stages, Range
  <2>3. Rows(rollouts)[i] \in Row
    BY <2>1
  <2> QED BY <2>2, <2>3 DEF Row
<1> HIDE DEF Stages
<1>3. \A t \in Stages :
         LET drift == Index(timeline, t) - designIndex(timeline, t)
             later == LocalTime(t) - LocalTime(start(timeline))
             early == IF later < 0 THEN -1 ELSE 0
         IN \/ drift = early
            \/ /\ ZoneAt(t) # ZoneAt(start(timeline))
               /\ Abs(drift - early) = 1
               /\ Abs(later) <= Shift \/ DayLen - Abs(later) <= Shift
  BY <1>1, <1>2, PillOnDate, Zenon
<1>4. \A t \in Stages, l \in Locks :
         l.startAt <= t /\ t <= l.endAt =>
             LET o == lockOverlay(timeline, l)
             IN o.left < pillLeft(Index(timeline, t)) /\ pillLeft(Index(timeline, t)) < o.left + o.width
  BY <1>1, <1>2, LockCovers, Zenon
<1>5. \A column \in {-timeline.offset} \intersect DOMAIN dayColumns(timeline) :
         /\ column \in marked(timeline) /\ marked(timeline) \subseteq (column - 1)..(column + 1)
         /\ \/ todayIdx(timeline) = column
            \/ /\ todayIdx(timeline) = column - 1
               /\ start(timeline) < Spring + Shift /\ Spring <= timeline.today
  <2> SUFFICES ASSUME NEW column \in {-timeline.offset} \intersect DOMAIN dayColumns(timeline)
               PROVE  /\ column \in marked(timeline) /\ marked(timeline) \subseteq (column - 1)..(column + 1)
                      /\ \/ todayIdx(timeline) = column
                         \/ /\ todayIdx(timeline) = column - 1
                            /\ start(timeline) < Spring + Shift /\ Spring <= timeline.today
    BY Zenon
  <2>1. column = -timeline.offset /\ timeline.offset \in Int /\ timeline.offset <= 0
    <3>1. column = -timeline.offset /\ column \in 0..(timeline.days - 1) /\ timeline.offset \in Int
          /\ timeline.days \in Nat
      BY <1>1, StartIs DEF dayColumns
    <3> QED BY <3>1
  <2>2. column \in marked(timeline) /\ marked(timeline) \subseteq (column - 1)..(column + 1)
    BY <1>1, TodayMarked
  <2> QED BY <1>1, <2>1, <2>2, TodayLine
<1>7. Steady(timeline) => marked(timeline) = {todayIdx(timeline)} \intersect DOMAIN dayColumns(timeline)
  BY <1>1, SteadyLine, Zenon
<1>8. \A i \in DOMAIN dayColumns(timeline) :
         dayColumns(timeline)[i].date = LocalDay(timeline.today) + timeline.offset + i
  BY <1>1, ColumnOf, Zenon
<1>6. \A t, u \in Stages :
         LET c == cascadeStyle(Index(timeline, t), Index(timeline, u))
         IN c # None <=> t < u /\ Index(timeline, t) # Index(timeline, u)
  BY <1>1, <1>2, ConnectorRight, Zenon
<1> QED BY <1>3, <1>4, <1>5, <1>6, <1>7, <1>8, Zenon DEF LayoutFollowsDesign

-----------------------------------------------------------------------------
(* The calendar *)

LEMMA DaysBefore ==
    /\ DaysBeforeMonth[1] = 0 /\ DaysBeforeMonth[3] = 59 /\ DaysBeforeMonth[4] = 90
    /\ DaysBeforeMonth[8] = 212 /\ DaysBeforeMonth[12] = 334
BY DEF DaysBeforeMonth

LeapDays(y) == y \div 4 - y \div 100 + y \div 400

LEMMA LeapYear ==
    ASSUME NEW y \in Nat \ {0}
    PROVE  LeapDays(y) = LeapDays(y - 1) + (IF IsLeap(y) THEN 1 ELSE 0)
BY DEF IsLeap, LeapDays

LEMMA January ==
    ASSUME NEW y \in Nat \ {0}, NEW d \in Int
    PROVE  Date(y, 1, d) = 365 * (y - 1) + LeapDays(y - 1) + d
BY DaysBefore DEF Date, LeapDays

LEMMA March ==
    ASSUME NEW y \in Nat \ {0}, NEW d \in Int
    PROVE  /\ Date(y, 3, d) = 365 * (y - 1) + LeapDays(y) + 59 + d
           /\ Date(y, 4, d) = 365 * (y - 1) + LeapDays(y) + 90 + d
           /\ Date(y, 8, d) = 365 * (y - 1) + LeapDays(y) + 212 + d
           /\ Date(y, 12, d) = 365 * (y - 1) + LeapDays(y) + 334 + d
<1> DEFINE leap == IF IsLeap(y) THEN 1 ELSE 0
<1>1. LeapDays(y) = LeapDays(y - 1) + leap
  BY LeapYear
<1>2. LeapDays(y - 1) \in Int /\ leap \in Int
  BY DEF LeapDays
<1>3. ASSUME NEW m \in {3, 4, 8, 12}
      PROVE  Date(y, m, d) = 365 * (y - 1) + LeapDays(y - 1) + DaysBeforeMonth[m] + leap + d
  BY DaysBefore DEF Date, LeapDays
<1> HIDE DEF leap
<1> QED BY <1>1, <1>2, <1>3, DaysBefore

LEMMA FirstOfMarch ==
    ASSUME NEW y \in Nat \ {0}
    PROVE  /\ Date(y, 3, 1) = 365 * (y - 1) + LeapDays(y) + 60
           /\ Date(y, 3, 1) \in Int
           /\ \A d \in Int : Date(y, 3, d) = Date(y, 3, 1) + d - 1 /\ Date(y, 4, d) = Date(y, 3, 1) + d + 30
<1>1. LeapDays(y) \in Int
  BY DEF LeapDays
<1>2. Date(y, 3, 1) = 365 * (y - 1) + LeapDays(y) + 59 + 1
  BY March
<1>3. ASSUME NEW d \in Int
      PROVE  Date(y, 3, d) = Date(y, 3, 1) + d - 1 /\ Date(y, 4, d) = Date(y, 3, 1) + d + 30
  <2>1. Date(y, 3, d) = 365 * (y - 1) + LeapDays(y) + 59 + d
    BY March
  <2>2. Date(y, 4, d) = 365 * (y - 1) + LeapDays(y) + 90 + d
    BY March
  <2> QED BY <1>1, <1>2, <2>1, <2>2
<1> QED BY <1>1, <1>2, <1>3

LEMMA YearEnd ==
    ASSUME NEW y \in Nat \ {0}
    PROVE  Date(y + 1, 1, 1) = Date(y, 12, 31) + 1 /\ Date(y + 1, 1, 1) \in Int
<1>1. Date(y + 1, 1, 1) = 365 * y + LeapDays(y) + 1
  <2>1. y + 1 \in Nat \ {0} /\ (y + 1) - 1 = y
    OBVIOUS
  <2> QED BY <2>1, January
<1>2. Date(y, 12, 31) = 365 * (y - 1) + LeapDays(y) + 334 + 31
  BY March
<1>3. LeapDays(y) \in Int
  BY DEF LeapDays
<1> QED BY <1>1, <1>2, <1>3

LEMMA LeapMono ==
    ASSUME NEW x \in Nat, NEW y \in Nat, x <= y
    PROVE  LeapDays(x) <= LeapDays(y) /\ 0 <= LeapDays(x) /\ LeapDays(x) <= x
<1>1. \A z \in Nat : /\ z \div 100 = (z \div 4) \div 25 /\ z \div 400 = (z \div 4) \div 100
                     /\ z \div 4 \in Nat /\ z \div 4 <= z
  OBVIOUS
<1>2. x \div 4 <= y \div 4
  OBVIOUS
<1>3. \A u, v \in Nat : u <= v => u - u \div 25 <= v - v \div 25 /\ u \div 100 <= v \div 100
  OBVIOUS
<1>4. \A u \in Nat : 0 <= u - u \div 25 /\ 0 <= u \div 100 /\ u \div 100 <= u \div 25
  OBVIOUS
<1> QED BY <1>1, <1>2, <1>3, <1>4 DEF LeapDays

LEMMA YearsApart ==
    ASSUME NEW y \in Nat \ {0}, NEW z \in Nat \ {0}, y < z
    PROVE  Date(y + 1, 1, 1) <= Date(z, 1, 1)
<1>1. Date(y + 1, 1, 1) = 365 * y + LeapDays(y) + 1
  <2>1. y + 1 \in Nat \ {0} /\ (y + 1) - 1 = y
    OBVIOUS
  <2> QED BY <2>1, January
<1>2. Date(z, 1, 1) = 365 * (z - 1) + LeapDays(z - 1) + 1
  BY January
<1>3. LeapDays(y) <= LeapDays(z - 1) /\ LeapDays(y) \in Int /\ LeapDays(z - 1) \in Int
  <2>1. y <= z - 1 /\ z - 1 \in Nat
    OBVIOUS
  <2>2. LeapDays(y) <= LeapDays(z - 1)
    BY <2>1, LeapMono
  <2> QED BY <2>2 DEF LeapDays
<1> QED BY <1>1, <1>2, <1>3

InYear(n, y) == Date(y, 1, 1) <= n /\ n < Date(y + 1, 1, 1)

\* The calendar has the year of a date, and only one.
LEMMA YearOf ==
    ASSUME NEW n \in Nat \ {0}
    PROVE  /\ getFullYear(n) \in Nat \ {0} /\ InYear(n, getFullYear(n))
           /\ \A z \in Nat \ {0} : InYear(n, z) => z = getFullYear(n)
<1> DEFINE Span == (n \div 366)..(n \div 365 + 1)
           U == {y \in Nat \ {0} : n < Date(y + 1, 1, 1)}
<1>1. ASSUME NEW y \in Nat \ {0}
      PROVE  /\ Date(y, 1, 1) = 365 * (y - 1) + LeapDays(y - 1) + 1
             /\ Date(y + 1, 1, 1) = 365 * y + LeapDays(y) + 1
             /\ LeapDays(y) \in 0..y /\ LeapDays(y - 1) \in Nat
  <2>1. y + 1 \in Nat \ {0} /\ (y + 1) - 1 = y /\ y - 1 \in Nat
    OBVIOUS
  <2>2. LeapDays(y) \in Int /\ LeapDays(y - 1) \in Int
    BY DEF LeapDays
  <2> QED BY <2>1, <2>2, January, LeapMono
<1>2. PICK y \in U : \A z \in U : y <= z
  <2>1. n \div 365 + 1 \in Nat \ {0} /\ n < 365 * (n \div 365 + 1) + 1
    OBVIOUS
  <2>2. n \div 365 + 1 \in U
    BY <2>1, <1>1
  <2> QED BY <2>2, NatMin
<1>3. y \in Nat \ {0} /\ n < Date(y + 1, 1, 1)
  BY <1>2
<1>4. Date(y, 1, 1) <= n
  <2>1. CASE y = 1
    <3>1. LeapDays(0) = 0
      BY DEF LeapDays
    <3> QED BY <1>1, <1>3, <2>1, <3>1
  <2>2. CASE y # 1
    <3>1. y - 1 \in Nat \ {0} /\ (y - 1) + 1 = y /\ ~ (y <= y - 1)
      BY <1>3, <2>2
    <3>2. y - 1 \notin U
      BY <1>2, <3>1
    <3> QED BY <1>1, <1>3, <3>1, <3>2
  <2> QED BY <2>1, <2>2
<1>5. y \in Span
  <2>0. /\ Date(y, 1, 1) = 365 * (y - 1) + LeapDays(y - 1) + 1
        /\ Date(y + 1, 1, 1) = 365 * y + LeapDays(y) + 1
        /\ LeapDays(y) \in 0..y /\ LeapDays(y - 1) \in Nat
    BY <1>1, <1>3
  <2>1. n <= 366 * y /\ 365 * (y - 1) < n
    BY <1>3, <1>4, <2>0
  <2>2. n \div 366 <= y /\ y <= n \div 365 + 1
    BY <1>3, <2>1
  <2> QED BY <1>3, <2>2
<1>6. \E z \in Span : Date(z, 1, 1) <= n /\ n < Date(z + 1, 1, 1)
  BY <1>3, <1>4, <1>5
<1>7. getFullYear(n) \in Span /\ InYear(n, getFullYear(n))
  BY <1>6, Zenon DEF getFullYear, InYear
<1>8. \A u, v \in Nat \ {0} : InYear(n, u) /\ InYear(n, v) => u = v
  <2> SUFFICES ASSUME NEW u \in Nat \ {0}, NEW v \in Nat \ {0}, InYear(n, u), InYear(n, v), u < v
               PROVE  FALSE
    OBVIOUS
  <2>1. Date(u + 1, 1, 1) <= Date(v, 1, 1)
    BY YearsApart
  <2> QED BY <1>1, <2>1 DEF InYear
<1>9. getFullYear(n) # 0
  <2>1. InYear(n, 0) => FALSE
    <3>1. Date(1, 1, 1) = 1
      BY <1>1 DEF LeapDays
    <3> QED BY <3>1 DEF InYear
  <2> QED BY <1>7, <2>1
<1>10. getFullYear(n) \in Nat \ {0}
  BY <1>7, <1>9
<1> QED BY <1>7, <1>8, <1>10

-----------------------------------------------------------------------------
(* Easter.  The golden number, the epact and the full moon of the rule are *)
(* terms of the algorithm: h + e is 23 modulo 30, and the Sunday is the    *)
(* l-th day after the day that follows the full moon, one week less when   *)
(* the epact is corrected.                                                 *)

LEMMA Centuries ==
    ASSUME NEW b \in Nat
    PROVE  /\ (b - ((b + 8) \div 25) + 1) \div 3 = (8 * b + 13) \div 25
           /\ (3 * (b + 1)) \div 4 = b - b \div 4
OBVIOUS

\* The full moon from the remainder h, for the golden number a + 1.
LEMMA FullMoon ==
    ASSUME NEW a \in 0..18, NEW h \in 0..29, NEW e \in 0..29, (h + e) % 30 = 23
    PROVE  LET epact == IF (e = 25 /\ a + 1 > 11) \/ e = 24 THEN e + 1 ELSE e
               corrected == IF h = 29 \/ (h = 28 /\ a > 10) THEN 1 ELSE 0
           IN (IF epact > 23 THEN 74 - epact ELSE 44 - epact) = 21 + h - corrected
<1>1. e = IF h <= 23 THEN 23 - h ELSE 53 - h
  OBVIOUS
<1> QED BY <1>1

LEMMA Correction ==
    ASSUME NEW a \in 0..18, NEW h \in 0..29, NEW l \in 0..6
    PROVE  (a + 11 * h + 22 * l) \div 451 = IF l = 6 /\ (h = 29 \/ (h = 28 /\ a > 10)) THEN 1 ELSE 0
OBVIOUS

LEMMA Weekday ==
    ASSUME NEW y \in Nat \ {0}, NEW h \in 0..29, NEW l \in 0..6,
           l = (32 + 2 * ((y \div 100) % 4) + 2 * ((y % 100) \div 4) - h - ((y % 100) % 4)) % 7
    PROVE  (Date(y, 3, 1) + 21 + h + l) % 7 = 0
<1> DEFINE b == y \div 100
           c == y % 100
           q == b \div 4
           u == b % 4
           i == c \div 4
           k == c % 4
<1>1. /\ q \in Nat /\ u \in 0..3 /\ i \in Nat /\ k \in 0..3
      /\ b = 4 * q + u /\ c = 4 * i + k /\ y = 100 * b + c
      /\ y \div 4 = 25 * b + i /\ y \div 400 = q
  OBVIOUS
<1>2. Date(y, 3, 1) = 365 * (y - 1) + y \div 4 - b + y \div 400 + 60
  <2>1. Date(y, 3, 1) = 365 * (y - 1) + LeapDays(y) + 60
    BY FirstOfMarch
  <2>2. LeapDays(y) = y \div 4 - b + y \div 400
    BY DEF LeapDays
  <2>3. y \div 4 \in Int /\ b \in Int /\ y \div 400 \in Int
    OBVIOUS
  <2> HIDE DEF b
  <2> QED BY <2>1, <2>2, <2>3
<1>3. l = (32 + 2 * u + 2 * i - h - k) % 7
  OBVIOUS
<1> HIDE DEF b, c, q, u, i, k
<1>4. Date(y, 3, 1) = 365 * (400 * q + 100 * u + 4 * i + k - 1) + 24 * (4 * q + u) + i + q + 60
  BY <1>1, <1>2
<1>5. PICK w \in Int : 32 + 2 * u + 2 * i - h - k = 7 * w + l
  <2> DEFINE v == 32 + 2 * u + 2 * i - h - k
  <2>1. v \in Int /\ l = v % 7
    BY <1>1, <1>3
  <2> HIDE DEF v
  <2>2. v \div 7 \in Int /\ v = 7 * (v \div 7) + l
    BY <2>1
  <2> QED BY <2>2 DEF v
<1>6. Date(y, 3, 1) + 21 + h + l = 7 * (20871 * q + 5218 * u + 209 * i + 52 * k - w - 36)
  BY <1>1, <1>4, <1>5
<1>7. 20871 * q + 5218 * u + 209 * i + 52 * k - w - 36 \in Int
  BY <1>1, <1>5
<1> QED BY <1>6, <1>7

LEMMA OneSunday ==
    ASSUME NEW full \in Int, NEW n \in (full + 1)..(full + 7), n % 7 = 0
    PROVE  (CHOOSE x \in (full + 1)..(full + 7) : x % 7 = 0) = n
<1>1. \A x \in (full + 1)..(full + 7) : x % 7 = 0 => x = n
  OBVIOUS
<1> QED BY <1>1

LEMMA EasterByMonth ==
    ASSUME NEW y \in Nat \ {0}, NEW x \in 0..34
    PROVE  Date(y, (x + 114) \div 31, ((x + 114) % 31) + 1) = Date(y, 3, 1) + 21 + x
<1> DEFINE s == x + 114
<1>1. \A d \in Int : Date(y, 3, d) = Date(y, 3, 1) + d - 1 /\ Date(y, 4, d) = Date(y, 3, 1) + d + 30
  BY FirstOfMarch
<1>2. Date(y, 3, 1) \in Int
  BY FirstOfMarch
<1>3. CASE x < 10
  <2>1. s \div 31 = 3 /\ (s % 31) + 1 = x + 22
    BY <1>3
  <2> HIDE DEF s
  <2>2. Date(y, s \div 31, (s % 31) + 1) = Date(y, 3, x + 22)
    BY <2>1
  <2> QED BY <1>1, <1>2, <2>2 DEF s
<1>4. CASE x >= 10
  <2>1. s \div 31 = 4 /\ (s % 31) + 1 = x - 9
    BY <1>4
  <2> HIDE DEF s
  <2>2. Date(y, s \div 31, (s % 31) + 1) = Date(y, 4, x - 9)
    BY <2>1
  <2> QED BY <1>1, <1>2, <2>2 DEF s
<1> QED BY <1>3, <1>4

\* The algorithm of Meeus, Jones and Butcher finds the Easter of the rule.
LEMMA EasterIs ==
    ASSUME NEW y \in Nat \ {0}
    PROVE  easterSunday(y) = EasterRule(y) /\ EasterRule(y) \in Int
<1> DEFINE a == y % 19
           b == y \div 100
           c == y % 100
           g == (b - ((b + 8) \div 25) + 1) \div 3
           h == (19 * a + b - (b \div 4) - g + 15) % 30
           l == (32 + 2 * (b % 4) + 2 * (c \div 4) - h - (c % 4)) % 7
           m == (a + 11 * h + 22 * l) \div 451
           x == h + l - 7 * m
           golden == a + 1
           sun == ((3 * (b + 1)) \div 4) - 12
           moon == ((8 * (b + 1) + 5) \div 25) - 5
           e == (11 * golden + 20 + moon - sun) % 30
           epact == IF (e = 25 /\ golden > 11) \/ e = 24 THEN e + 1 ELSE e
           full == Date(y, 3, 1) - 1 + (IF epact > 23 THEN 74 - epact ELSE 44 - epact)
           corrected == IF h = 29 \/ (h = 28 /\ a > 10) THEN 1 ELSE 0
           easter == Date(y, 3, 1) + 21 + x
<1>1. easterSunday(y) = Date(y, (x + 114) \div 31, ((x + 114) % 31) + 1)
  <2>1. h + l - 7 * m + 114 = x + 114
    OBVIOUS
  <2> QED BY <2>1 DEF easterSunday
<1>2. EasterRule(y) = CHOOSE n \in (full + 1)..(full + 7) : n % 7 = 0
  BY DEF EasterRule
<1>3. a \in 0..18 /\ b \in Nat /\ Date(y, 3, 1) \in Int
  BY FirstOfMarch
<1>4. h \in 0..29 /\ l \in 0..6
  OBVIOUS
<1>5. e \in 0..29 /\ (h + e) % 30 = 23
  <2>1. g = (8 * b + 13) \div 25 /\ (3 * (b + 1)) \div 4 = b - b \div 4
    BY <1>3, Centuries
  <2>2. moon = g - 5 /\ sun = b - b \div 4 - 12 /\ g \in Int /\ b \div 4 \in Int
    <3>1. 8 * (b + 1) + 5 = 8 * b + 13
      BY <1>3
    <3> HIDE DEF b
    <3> QED BY <1>3, <2>1, <3>1
  <2> DEFINE t == b \div 4
             z == 19 * a + b - t - g + 15
             v == 11 * golden + 20 + moon - sun
  <2> HIDE DEF a, b, g, moon, sun, t
  <2>3. t \in Int /\ z \in Int /\ v \in Int /\ z + v = 30 * a + 53
    BY <1>3, <2>2 DEF t
  <2>4. h = z % 30 /\ e = v % 30
    BY DEF t
  <2> HIDE DEF z, v, h, e
  <2> QED BY <1>3, <2>3, <2>4
<1>6. m = IF l = 6 /\ (h = 29 \/ (h = 28 /\ a > 10)) THEN 1 ELSE 0
  <2> HIDE DEF a, h, l
  <2> QED BY <1>3, <1>4, Correction
<1>7. (IF epact > 23 THEN 74 - epact ELSE 44 - epact) = 21 + h - corrected
  <2> HIDE DEF a, h, e
  <2> QED BY <1>3, <1>4, <1>5, FullMoon
<1>8. (Date(y, 3, 1) + 21 + h + l) % 7 = 0
  <2> HIDE DEF h
  <2> QED BY <1>4, Weekday
<1> HIDE DEF a, b, c, g, h, l, m, e, epact
<1>9. x \in 0..34
  BY <1>3, <1>4, <1>6
<1>10. full = Date(y, 3, 1) + 20 + h - corrected /\ full \in Int
  BY <1>3, <1>4, <1>7
<1>11. easter \in (full + 1)..(full + 7)
  BY <1>3, <1>4, <1>6, <1>10
<1>12. easter % 7 = 0
  BY <1>3, <1>4, <1>6, <1>8
<1>13. easter \in Int
  BY <1>3, <1>9
<1> HIDE DEF x, full, easter
<1>14. EasterRule(y) = easter
  BY <1>2, <1>10, <1>11, <1>12, OneSunday
<1>15. easterSunday(y) = easter
  BY <1>1, <1>9, EasterByMonth DEF easter
<1> QED BY <1>13, <1>14, <1>15

LEMMA HolidayFound ==
    ASSUME NEW y \in Nat \ {0}, NEW n \in Int
    PROVE  HolidayOn(bernHolidays(y), n) # None <=>
             \/ n \in {Date(y, 1, 1), Date(y, 1, 2), Date(y, 8, 1), Date(y, 12, 25), Date(y, 12, 26)}
             \/ n - EasterRule(y) \in {-2, 1, 39, 50}
<1> DEFINE hs == bernHolidays(y)
           hits == {i \in DOMAIN hs : hs[i].on = n}
           E == easterSunday(y)
<1>1. E = EasterRule(y) /\ E \in Int
  BY EasterIs
<1>2. /\ DOMAIN hs = 1..9
      /\ hs[1].on = Date(y, 1, 1) /\ hs[2].on = Date(y, 1, 2) /\ hs[3].on = E - 2
      /\ hs[4].on = E + 1 /\ hs[5].on = E + 39 /\ hs[6].on = E + 50
      /\ hs[7].on = Date(y, 8, 1) /\ hs[8].on = Date(y, 12, 25) /\ hs[9].on = Date(y, 12, 26)
  <2> HIDE DEF E
  <2> QED BY DEF bernHolidays, E
<1>3. \A i \in 1..9 : hs[i].name \in HolidayNames
  BY DEF bernHolidays, HolidayNames
<1>4. HolidayOn(hs, n) = IF hits = {} THEN None ELSE hs[Max(hits)].name
  BY DEF HolidayOn
<1> HIDE DEF hs, E
<1>5. hits # {} => Max(hits) \in hits
  <2>1. hits \subseteq 1..9 /\ 9 \in Nat
    BY <1>2
  <2> HIDE DEF hits
  <2> QED BY <2>1, MaxOf
<1>6. hits # {} => hs[Max(hits)].name \in HolidayNames
  BY <1>2, <1>3, <1>5
<1>7. HolidayOn(hs, n) # None <=> \E i \in 1..9 : hs[i].on = n
  <2>1. hits # {} <=> \E i \in 1..9 : hs[i].on = n
    BY <1>2
  <2>2. None \notin HolidayNames
    BY ViewsAssumption DEF ViewsAssumption
  <2> HIDE DEF hits
  <2> QED BY <1>4, <1>6, <2>1, <2>2, Zenon
<1>8. (\E i \in 1..9 : hs[i].on = n) <=>
        \/ n = hs[1].on \/ n = hs[2].on \/ n = hs[3].on \/ n = hs[4].on \/ n = hs[5].on
        \/ n = hs[6].on \/ n = hs[7].on \/ n = hs[8].on \/ n = hs[9].on
  <2>1. 1..9 = {1, 2, 3, 4, 5, 6, 7, 8, 9}
    OBVIOUS
  <2> QED BY <2>1, Zenon
<1>9. /\ n = E - 2 <=> n - E = -2
      /\ n = E + 1 <=> n - E = 1
      /\ n = E + 39 <=> n - E = 39
      /\ n = E + 50 <=> n - E = 50
  BY <1>1
<1> QED BY <1>1, <1>2, <1>7, <1>8, <1>9, Zenon DEF hs

LEMMA Friday ==
    ASSUME NEW n \in Int
    PROVE  getDay(n) = 5 <=> (n - Date(2024, 3, 1)) % 7 = 0
<1> DEFINE friday == Date(2024, 3, 1)
<1>1. friday \in Int /\ friday % 7 = 5
  BY FirstOfMarch, SMT DEF LeapDays
<1> HIDE DEF friday
<1>2. n % 7 = 5 <=> (n - friday) % 7 = 0
  BY <1>1
<1> QED BY <1>2 DEF friday, getDay

LEMMA WarningsStep ==
    ASSUME TypeInv
    PROVE  WarningsExact
<1> SUFFICES ASSUME picked # None PROVE WarningsExact
  BY DEF WarningsExact
<1> DEFINE n == picked
           y == getFullYear(n)
           w == scheduleWarnings(n)
<1>1. n \in Nat \ {0}
  <2>1. n \in Nat /\ Date(100, 1, 1) <= n
    BY DatesAssumption DEF DatesAssumption, TypeInv
  <2>2. Date(100, 1, 1) \in Int /\ Date(100, 1, 1) >= 1
    BY January DEF LeapDays
  <2> QED BY <2>1, <2>2
<1>2. y \in Nat \ {0} /\ InYear(n, y)
  BY <1>1, YearOf
<1>3. w = [friday |-> getDay(n) = 5, today |-> HolidayOn(bernHolidays(y), n),
           next |-> HolidayOn(bernHolidays(y), n + 1)]
  BY DEF scheduleWarnings
<1>4. w.friday <=> (n - Date(2024, 3, 1)) % 7 = 0
  <2> DEFINE f == getDay(n) = 5
  <2>1. w.friday <=> f
    <3>1. f \in BOOLEAN
      OBVIOUS
    <3>2. w.friday = f
      BY <1>3
    <3> HIDE DEF f, n, w
    <3> QED BY <3>1, <3>2
  <2>2. getDay(n) = 5 <=> (n - Date(2024, 3, 1)) % 7 = 0
    BY <1>1, Friday
  <2> HIDE DEF n, w
  <2> QED BY <2>1, <2>2
<1>5. w.today # None <=> BernHoliday(n)
  <2>1. w.today = HolidayOn(bernHolidays(y), n)
    BY <1>3
  <2> HIDE DEF n, w
  <2>2. BernHoliday(n) <=> \/ n \in {Date(y, 1, 1), Date(y, 1, 2), Date(y, 8, 1), Date(y, 12, 25), Date(y, 12, 26)}
                           \/ n - EasterRule(y) \in {-2, 1, 39, 50}
    BY Zenon DEF BernHoliday
  <2>3. n \in Int
    BY <1>1
  <2> QED BY <1>2, <2>1, <2>2, <2>3, HolidayFound, Zenon
<1>6. ASSUME n # Date(y, 12, 31) PROVE w.next # None <=> BernHoliday(n + 1)
  <2>1. w.next = HolidayOn(bernHolidays(y), n + 1)
    BY <1>3
  <2> HIDE DEF n, w
  <2>2. getFullYear(n + 1) = y
    <3>1. Date(y + 1, 1, 1) = Date(y, 12, 31) + 1 /\ Date(y, 12, 31) \in Int /\ Date(y, 1, 1) \in Int
      <4>1. Date(y + 1, 1, 1) = Date(y, 12, 31) + 1
        BY <1>2, YearEnd
      <4>2. Date(y, 12, 31) = 365 * (y - 1) + LeapDays(y) + 334 + 31
        BY <1>2, March
      <4>3. Date(y, 1, 1) = 365 * (y - 1) + LeapDays(y - 1) + 1
        BY <1>2, January
      <4>4. LeapDays(y) \in Int /\ LeapDays(y - 1) \in Int
        BY <1>2 DEF LeapDays
      <4> HIDE DEF y
      <4> QED BY <1>2, <4>1, <4>2, <4>3, <4>4
    <3>2. InYear(n + 1, y) /\ n + 1 \in Nat \ {0}
      BY <1>1, <1>2, <1>6, <3>1 DEF InYear
    <3> QED BY <1>2, <3>2, YearOf
  <2>3. BernHoliday(n + 1) <=>
          \/ n + 1 \in {Date(y, 1, 1), Date(y, 1, 2), Date(y, 8, 1), Date(y, 12, 25), Date(y, 12, 26)}
          \/ (n + 1) - EasterRule(y) \in {-2, 1, 39, 50}
    BY <2>2, Zenon DEF BernHoliday
  <2>4. n + 1 \in Int
    BY <1>1
  <2> QED BY <1>2, <2>1, <2>3, <2>4, HolidayFound, Zenon
<1> HIDE DEF w
<1> QED BY <1>4, <1>5, <1>6, Zenon DEF WarningsExact, w

-----------------------------------------------------------------------------
(* Theorems *)

\* The state of the pages has its types; the filters of the list were computed no
\* later than it was rendered, and it was rendered no later than now.
THEOREM ViewsTypeCorrect == Spec => [](TypeInv /\ list.asOf <= list.rendered /\ list.rendered <= now)
<1>1. ViewsInv => TypeInv /\ list.asOf <= list.rendered /\ list.rendered <= now
  BY DEF ViewsInv
<1> QED BY <1>1, ViewsHold, PTL

\* Whatever the API answers, in whatever order the rollouts and their stages come
\* and whenever the filters were last computed, the list groups the rows that pass
\* by date, once per date and in order, hides no stage still to come behind
\* "upcoming" and shows none under "past", and a status button counts what it
\* would show (list-view.component.ts, rows, filteredRows, groups, count).
THEOREM ViewsListComplete == Spec => []ListComplete
<1>1. ViewsInv => ListComplete
  BY ListStep
<1> QED BY <1>1, ViewsHold, PTL

\* Whenever the list was last rendered and its filters computed, a label on the
\* screen errs by half a day at most and on the right side of the moment of rendering,
\* apart from "0 week ago"; what it says to be past is past now, and under "past" it
\* announces nothing (list-view.component.ts, relDay, filteredRows).
THEOREM ViewsLabelHonest == Spec => []LabelHonest
<1>1. ViewsInv => LabelHonest
  BY LabelStep
<1> QED BY <1>1, ViewsHold, PTL

\* For any zone east of Greenwich, any summer time that begins and ends at one hour of
\* the night, any time of day of the page, offset and width of the window: the columns
\* carry consecutive dates, a pill stands on its date, one column to the left of it,
\* or one off within the hour of a change, a lock covers the pills of the stages it
\* blocks, today's column is marked and carries the line, which stands one column to
\* the left when summer time began in between, and a connector runs to the right
\* (timeline-view.component.ts).
THEOREM ViewsLayoutFollowsDesign == Spec => []LayoutFollowsDesign
<1>1. ViewsInv => LayoutFollowsDesign
  BY LayoutStep DEF ViewsInv
<1> QED BY <1>1, ViewsHold, PTL

\* For every date of every year the create dialog warns of Fridays, holidays and
\* the days before a holiday and of nothing else; the Easter of the algorithm is
\* that of the rule (schedule-rules.ts, easterSunday, scheduleWarnings).
THEOREM ViewsWarningsExact == Spec => []WarningsExact
<1>1. ViewsInv => WarningsExact
  BY WarningsStep DEF ViewsInv
<1> QED BY <1>1, ViewsHold, PTL
=============================================================================
