--------------------------- MODULE MCNotifications ---------------------------
(* Plans of one and two stages that shift a start time, add or drop a stage,   *)
(* or change an environment.  The clock starts at 0, so a start at 2 has *)
(* no window left (HOUR = 2) and is announced by a catch-up.                   *)
EXTENDS Notifications, TLC

CONSTANTS q1, q2

MCRequests == {q1}
MCTwoRequests == {q1, q2}

Stage(env, t) == [env |-> env, startAt |-> t]

Short == <<Stage("non-prod", 2)>>
Soon  == <<Stage("non-prod", 3)>>
Late  == <<Stage("non-prod", 4), Stage("prod1", 5)>>

ShiftingPlans == {Soon, Late}
CatchUpPlan == {Short}
TwoPlans == {Soon, <<Stage("non-prod", 5)>>}
=============================================================================
