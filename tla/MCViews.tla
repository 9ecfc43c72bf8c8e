------------------------------ MODULE MCViews ------------------------------
(* A day of 8 units (3 hours each), the browser one unit ahead of UTC and  *)
(* two in summer, which begins ten days before the start (so that a window *)
(* moved back by a week begins before it, or in the hour it skips) and     *)
(* ends a week after it (inside a wide window and behind a narrow one).    *)
(* The stages of the answers lie from three weeks before to three weeks    *)
(* after the start, at times of day before and after it; the years have    *)
(* the latest Easter, both corrected full moons, a leap day and the        *)
(* earliest Easter.                                                        *)
EXTENDS Views

Stage(t, s) == [startAt |-> t, status |-> s]
Rollout(p, ss) == [product |-> p, stages |-> ss]

MCAnswers ==
    {<<Rollout("operator", <<Stage(802, "done"), Stage(807, "active"), Stage(831, "scheduled"), Stage(968, "scheduled")>>),
       Rollout("monalesy", <<Stage(798, "blocked"), Stage(807, "scheduled"), Stage(815, "blocked")>>)>>,
     <<Rollout("operator", <<Stage(640, "done"), Stage(789, "done"), Stage(809, "active"), Stage(858, "scheduled")>>)>>}

MCLocks == {[startAt |-> 804, endAt |-> 817], [startAt |-> 831, endAt |-> 836]}

MCWidths == {300, 900, 1850}

YearOf(y) == Date(y, 1, 1)..Date(y, 12, 31)
MCDates == UNION {YearOf(y) : y \in {2024, 2038, 2049, 2076, 2285}}

=============================================================================
