---------------------------- MODULE MCLiveUpdates ----------------------------
(* One user with one tab and two WebSocket objects, of which the cap admits    *)
(* one at a time when maxPerUser = 1, and two request goroutines.              *)
EXTENDS LiveUpdates, TLC

CONSTANTS u1, t1, k1, k2, w1, w2

MCUsers == {u1}
MCTabs == {t1}
MCSockets == {k1, k2}
MCUserOf == [k \in MCSockets |-> u1]
MCTabOf == [k \in MCSockets |-> t1]
MCBroadcasters == {w1, w2}

\* Sockets, and request goroutines, are interchangeable.
Symmetry == Permutations(MCSockets) \union Permutations(MCBroadcasters)
=============================================================================
