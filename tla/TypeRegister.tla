---------------------------- MODULE TypeRegister ----------------------------
(***************************************************************************)
(* What the master data store promises about rollout types: each one is a  *)
(* register that holds a whole type, as some save asked for it.  A save    *)
(* takes effect at one instant or not at all; the last one wins.           *)
(***************************************************************************)
CONSTANTS
    Ids,
    Stored      \* the types of the start

VARIABLES
    types,      \* the stored types: name, plan and tasks of each
    asked       \* the types that saves asked for, with their ids

vars == <<types, asked>>

Init ==
    /\ types = Stored
    /\ asked = {}

Ask ==
    /\ asked \subseteq asked'
    /\ UNCHANGED types

Commit(id) ==
    /\ \E v \in asked :
          /\ v.id = id
          /\ types' = [types EXCEPT ![id] = [name |-> v.name, plan |-> v.plan, tasks |-> {v.tasks}]]
    /\ UNCHANGED asked

Next == Ask \/ \E id \in Ids : Commit(id)

Spec == Init /\ [][Next]_vars

=============================================================================
