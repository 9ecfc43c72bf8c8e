---------------------------- MODULE MasterDetail ----------------------------
(***************************************************************************)
(* What a list with a detail pane promises, for every editor of the master *)
(* data page: the pane shows a listed item whenever there is one, a change *)
(* made in it reaches that item and no other, a new item is shown at once  *)
(* and a removed one is gone.                                              *)
(***************************************************************************)
CONSTANTS
    Seeds,      \* the lists a page may start with: functions from ids to contents
    None

VARIABLES
    contents,   \* the listed items
    selected    \* the item the pane shows

vars == <<contents, selected>>

SelectionValid == IF DOMAIN contents = {} THEN selected = None ELSE selected \in DOMAIN contents

Init ==
    /\ contents \in Seeds
    /\ SelectionValid

\* Another editor is opened: what was changed in this one is lost.
Open ==
    /\ contents' \in Seeds
    /\ SelectionValid'

Select ==
    /\ selected' \in DOMAIN contents
    /\ UNCHANGED contents

Kept(ids) == \A i \in ids : contents'[i] = contents[i]

Add ==
    /\ selected' # None /\ selected' \notin DOMAIN contents
    /\ DOMAIN contents' = DOMAIN contents \union {selected'}
    /\ Kept(DOMAIN contents)

Update ==
    /\ DOMAIN contents' = DOMAIN contents
    /\ Kept(DOMAIN contents \ {selected})
    /\ UNCHANGED selected

Remove ==
    /\ selected \in DOMAIN contents
    /\ DOMAIN contents' = DOMAIN contents \ {selected}
    /\ Kept(DOMAIN contents')
    /\ SelectionValid'

Next == Open \/ Select \/ Add \/ Update \/ Remove

Spec == Init /\ [][Next]_vars

=============================================================================
