-------------------------- MODULE MCRolloutEditing --------------------------
(* RolloutEditing for TLC: the tabs are interchangeable. *)
EXTENDS RolloutEditing

TabSymmetry == Permutations(Tabs)
=============================================================================
