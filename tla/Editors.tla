------------------------------ MODULE Editors ------------------------------
(***************************************************************************)
(* The editors of the design prototype (master-data.jsx; the contacts card *)
(* is in timeline.jsx): products, stages, rollout types, channels, actors, *)
(* filters, locks and contacts.  One editor is mounted at a time and keeps *)
(* its own copy of the data, which is lost when it is unmounted.           *)
(*                                                                         *)
(* An item has a name, which stands for its plain fields, a list of texts  *)
(* (brokers or tasks; rules are edited like tasks), a pair of actors, a    *)
(* set of chips that are switched on, a cascade plan, a place in the       *)
(* cascade and, for a channel, whether it has an address.  The detail pane *)
(* is not keyed by the item, so its own state (the text being entered, the *)
(* result of the last test message) survives a change of the selection.    *)
(* The contacts card has a form for a new contact in place of the pane.    *)
(***************************************************************************)
EXTENDS Integers, Sequences, FiniteSets

CONSTANTS
    Texts,          \* texts a user may enter
    Actors,         \* administrators
    Chips,          \* what a chip may stand for: a type, an event, a product
    StageKeys,      \* keys of STAGE
    SeedSize,       \* items of each editor at the start
    MaxAdds,        \* bound: items added
    MaxEdits,       \* bound: changes
    None

ASSUME EditorsAssumption ==
    /\ SeedSize \in Nat /\ MaxAdds \in Nat /\ MaxEdits \in Nat
    /\ None \notin 1..(SeedSize + MaxAdds) /\ "all" \notin Chips

Kinds == {"products", "stages", "types", "channels", "actors", "filters", "locks", "contacts"}

VARIABLES
    kind,           \* the editor that is mounted, or None
    items,          \* its list
    selectedId,
    draft,          \* brokerDraft, taskDraft, the name of a new contact: not yet added, or None
    adding,         \* the form for a new contact is open
    testResult,     \* None, "sending", "ok" or "missing"
    timers,         \* channels whose test message is under way, as they were when it was sent
    added,          \* items added and changes made since the editor was mounted
    edits

paneVars == <<draft, adding, testResult, timers>>
editorVars == <<kind, items, selectedId, paneVars, added, edits>>

-----------------------------------------------------------------------------
(* Items *)

Blank(id) ==
    [id |-> id, name |-> "seed", list |-> <<>>, pair |-> <<>>, chips |-> {}, plan |-> <<>>, order |-> 0, address |-> FALSE]

newProduct(id) == Blank(id)
newType(id) == [Blank(id) EXCEPT !.plan = <<[stage |-> "non-prod", delayHours |-> 0]>>]
newChannel(id) == [Blank(id) EXCEPT !.chips = {"scheduled"}]
newStage(id, n) == [Blank(id) EXCEPT !.order = n]
newActor(id) == Blank(id)
newFilter(id) == Blank(id)
newLock(id) == [Blank(id) EXCEPT !.chips = {"all"}]
addContact(id) == Blank(id)

NewItem(k, id, n) ==
    CASE k = "products" -> newProduct(id)
      [] k = "stages"   -> newStage(id, n)
      [] k = "types"    -> newType(id)
      [] k = "channels" -> newChannel(id)
      [] k = "actors"   -> newActor(id)
      [] k = "filters"  -> newFilter(id)
      [] k = "locks"    -> newLock(id)
      [] k = "contacts" -> addContact(id)

\* The items of data.js: a product has two brokers, a type two tasks, a channel an address.
Seeded(k) ==
    [i \in 1..SeedSize |->
        [NewItem(k, i, i - 1) EXCEPT !.list = IF k \in {"products", "types"} THEN <<"b1", "b2">> ELSE <<>>,
                                     !.address = (k = "channels")]]

Without(s, v) == SelectSeq(s, LAMBDA x : x # v)
Cut(s, i) == [j \in 1..(Len(s) - 1) |-> IF j < i THEN s[j] ELSE s[j + 1]]
Swap(s, i, j) == [s EXCEPT ![i] = s[j], ![j] = s[i]]
Toggle(S, v) == IF v \in S THEN S \ {v} ELSE S \union {v}
Values(s) == {s[i] : i \in DOMAIN s}

\* The lists one move of an entry away.
Moved(s) == {Swap(s, i, i + 1) : i \in 1..(Len(s) - 1)}

\* A third actor pushes out the one who was chosen first.
togglePair(p, a) ==
    IF a \in Values(p) THEN Without(p, a)
    ELSE IF Len(p) < 2 THEN Append(p, a) ELSE <<p[2], a>>

\* "all" and single products exclude each other.
toggleProduct(S, p) == IF "all" \in S THEN {p} ELSE Toggle(S, p)

-----------------------------------------------------------------------------
(* What one input of a detail pane makes of the item it shows *)

ProductDetail(x) ==
    {[x EXCEPT !.list = Without(@, b)] : b \in Values(x.list)}
    \union {[x EXCEPT !.pair = togglePair(@, a)] : a \in Actors}
    \union {[x EXCEPT !.chips = Toggle(@, c)] : c \in Chips}

\* Stages already used cannot be chosen again; the buttons offer the unused ones.
CascadePlanEditor(plan) ==
    LET used == {plan[i].stage : i \in DOMAIN plan}
        last == plan[Len(plan)].delayHours
    IN  {[plan EXCEPT ![i].stage = k] : i \in DOMAIN plan, k \in StageKeys \ used}
        \union {[plan EXCEPT ![i].delayHours = 24] : i \in DOMAIN plan \ {1}}
        \union {Cut(plan, i) : i \in DOMAIN plan}
        \union Moved(plan)
        \union {Append(plan, [stage |-> k, delayHours |-> IF plan = <<>> THEN 0 ELSE last + 168]) : k \in StageKeys \ used}

RolloutTypeDetail(x) ==
    {[x EXCEPT !.list = Cut(@, i)] : i \in DOMAIN x.list}
    \union {[x EXCEPT !.list = l] : l \in Moved(x.list)}
    \union {[x EXCEPT !.list[i] = v] : i \in DOMAIN x.list, v \in Texts}
    \union {[x EXCEPT !.plan = p] : p \in CascadePlanEditor(x.plan)}

\* toggleSendOn and onChangeIntegration: the address is filled in or cleared.
ChannelDetail(x) ==
    {[x EXCEPT !.chips = Toggle(@, c)] : c \in Chips}
    \union {[x EXCEPT !.address = a] : a \in BOOLEAN}

StageDetail(x) == {[x EXCEPT !.chips = Toggle(@, c)] : c \in {"enabled", "requiresPair"}}
FilterDetail(x) == {[x EXCEPT !.chips = Toggle(@, c)] : c \in Chips}
LockDetail(x) == {[x EXCEPT !.chips = {"all"}]} \union {[x EXCEPT !.chips = toggleProduct(@, p)] : p \in Chips}

Detail(k, x) ==
    {[x EXCEPT !.name = "renamed"]} \union
    CASE k = "products" -> ProductDetail(x)
      [] k = "types"    -> RolloutTypeDetail(x)
      [] k = "channels" -> ChannelDetail(x)
      [] k = "stages"   -> StageDetail(x)
      [] k = "filters"  -> FilterDetail(x)
      [] k = "locks"    -> LockDetail(x)
      [] OTHER          -> {}

-----------------------------------------------------------------------------
(* The editor *)

Ids == {items[i].id : i \in DOMAIN items}
First(s) == IF s = <<>> THEN None ELSE s[1].id
Item(id) == CHOOSE x \in Values(items) : x.id = id

\* A pane without an item is unmounted, and what it kept is lost.  The draft of a new
\* contact is kept by the card.
PaneOf(s) ==
    IF s = <<>> /\ kind # "contacts" THEN draft' = None /\ testResult' = None /\ timers' = <<>> /\ UNCHANGED adding
    ELSE UNCHANGED paneVars

MountEditor(k) ==
    /\ kind' = k
    /\ items' = IF k = None THEN <<>> ELSE Seeded(k)
    /\ selectedId' = First(items')
    /\ draft' = None /\ adding' = FALSE /\ testResult' = None /\ timers' = <<>>
    /\ added' = 0 /\ edits' = 0

onSelect(id) ==
    /\ id \in Ids
    /\ selectedId' = id
    /\ UNCHANGED <<kind, items, paneVars, added, edits>>

\* setAdding: a form that is cancelled keeps its draft.
setAdding(open) ==
    /\ kind = "contacts" /\ adding # open
    /\ adding' = open
    /\ UNCHANGED <<kind, items, selectedId, draft, testResult, timers, added, edits>>

\* A contact is added from its form, once it has a name (addContact).
add ==
    /\ kind # None /\ added < MaxAdds
    /\ kind = "contacts" => adding /\ draft # None
    /\ added' = added + 1
    /\ LET id == SeedSize + added'
       IN items' = Append(items, NewItem(kind, id, Len(items))) /\ selectedId' = id
    /\ adding' = FALSE
    /\ draft' = IF kind = "contacts" THEN None ELSE draft
    /\ UNCHANGED <<kind, testResult, timers, edits>>

\* findIndex of the item on display.
Position == CHOOSE n \in DOMAIN items : items[n].id = selectedId

Replaced(x) == [i \in DOMAIN items |-> IF items[i].id = selectedId THEN x ELSE items[i]]

updateFirst ==
    /\ selectedId # None /\ ~adding /\ edits < MaxEdits
    /\ edits' = edits + 1
    /\ \E x \in Detail(kind, Item(selectedId)) : items' = [items EXCEPT ![1] = x]
    /\ UNCHANGED <<kind, selectedId, paneVars, added>>

update ==
    /\ selectedId # None /\ ~adding /\ edits < MaxEdits
    /\ edits' = edits + 1
    /\ \E x \in Detail(kind, Item(selectedId)) : items' = Replaced(x)
    /\ UNCHANGED <<kind, selectedId, paneVars, added>>

Renumbered(s) == [k \in DOMAIN s |-> [s[k] EXCEPT !.order = k - 1]]

\* Only the item on display has a button to delete it: the items with another id are
\* kept, and since no id is given twice that is the list with one item cut out.  The
\* first one left is shown.
remove ==
    /\ selectedId # None /\ ~adding
    /\ LET next == Cut(items, Position)
       IN /\ items' = IF kind = "stages" THEN Renumbered(next) ELSE next
          /\ selectedId' = First(next)
          /\ PaneOf(next)
    /\ UNCHANGED <<kind, added, edits>>

moveStage(dir) ==
    /\ kind = "stages" /\ selectedId # None /\ edits < MaxEdits
    /\ edits' = edits + 1
    /\ Position + dir \in DOMAIN items
    /\ items' = Renumbered(Swap(items, Position, Position + dir))
    /\ UNCHANGED <<kind, selectedId, paneVars, added>>

typeDraft ==
    /\ adding \/ (kind \in {"products", "types"} /\ selectedId # None)
    /\ draft = None /\ edits < MaxEdits
    /\ edits' = edits + 1
    /\ draft' \in Texts
    /\ UNCHANGED <<kind, items, selectedId, adding, testResult, timers, added>>

\* addBroker, addTask: the text goes to the item on display when the button is pressed.
addEntry ==
    /\ kind # "contacts" /\ draft # None
    /\ items' = Replaced([Item(selectedId) EXCEPT !.list = Append(@, draft)])
    /\ draft' = None
    /\ UNCHANGED <<kind, selectedId, adding, testResult, timers, added, edits>>

sendTest ==
    /\ kind = "channels" /\ selectedId # None /\ edits < MaxEdits
    /\ edits' = edits + 1
    /\ testResult' = "sending"
    /\ timers' = Append(timers, Item(selectedId))
    /\ UNCHANGED <<kind, items, selectedId, draft, adding, added>>

\* The timer judges the channel it was started for, the pane shows any channel.
TestEnds ==
    /\ timers # <<>>
    /\ testResult' = IF Head(timers).address THEN "ok" ELSE "missing"
    /\ timers' = Tail(timers)
    /\ UNCHANGED <<kind, items, selectedId, draft, adding, added, edits>>

Edit ==
    \/ \E id \in Ids : onSelect(id)
    \/ \E open \in BOOLEAN : setAdding(open)
    \/ add \/ update \/ remove
    \/ \E dir \in {-1, 1} : moveStage(dir)
    \/ typeDraft \/ addEntry \/ sendTest

=============================================================================
