----------------------------- MODULE MCDialogs -----------------------------
EXTENDS Dialogs, TLC

CONSTANTS t1, l1, l2, l3

MCTabs == {t1}
MCLockIds == {l1, l2, l3}
MCStored == {l1}
MCProducts == {"operator"}

Symmetry == Permutations(MCLockIds \ MCStored)

=============================================================================
