----------------------------- MODULE Prototype -----------------------------
(***************************************************************************)
(* The design prototype (src/design/project): the App component with its   *)
(* hash route, the execute panel as a drawer or a page, the two create     *)
(* dialogs, the API documentation and the editors of module Editors.       *)
(* Nothing is stored: every component works on a copy made when it is      *)
(* mounted.  A drawer and a dialog cover the page, so only their own       *)
(* buttons can be clicked; the address bar can be used at any time.        *)
(***************************************************************************)
EXTENDS Editors

CONSTANTS
    Rollouts,       \* ids of ROLLOUTS
    TaskCount,      \* number of tasks of each rollout's type
    Checked,        \* the tasks that data.js lists as done
    Unknown,        \* an id that is not in ROLLOUTS
    MaxTokens       \* bound: tokens generated

TaskNos == UNION {1..TaskCount[r] : r \in Rollouts}

\* The state of an ExecutePanel: of is the rollout it was mounted for, tasks the
\* results ticked in it, failing the task whose reason is being entered.
Panels ==
    [of : Rollouts, tasks : UNION {[S -> {"done", "failed"}] : S \in SUBSET TaskNos},
     failing : TaskNos \union {None}, rescheduleOpen : BOOLEAN]

SectionNames == {"overview", "auth", "tokens", "mcp-overview", "mcp-install"}
DocsStates ==
    [tab : {"rest", "mcp", "keys"}, section : SectionNames, generating : BOOLEAN, created : BOOLEAN, tokens : Nat]

ASSUME PrototypeAssumption ==
    /\ TaskCount \in [Rollouts -> Nat \ {0}]
    /\ \A r \in Rollouts : Checked[r] \subseteq 1..TaskCount[r]
    /\ Unknown \notin Rollouts /\ None \notin Rollouts /\ Unknown # None /\ MaxTokens \in Nat
    /\ None \notin Panels /\ None \notin DocsStates /\ None \notin {"page", "drawer"}

Navs == {"timeline", "list", "locks", "data", "docs"}
MD_TABS == Kinds \ {"locks"}

VARIABLES
    nav,
    openId,         \* the rollout in the drawer
    hash,           \* the rollout the address names
    hashRoute,      \* the one App has parsed
    hashEvent,      \* a hashchange event is on its way
    panel,          \* state of the mounted ExecutePanel
    relinked,       \* the page was switched to another rollout without being unmounted
    modal,          \* the create dialog that is open: "rollout", "lock" or None
    docs,           \* DocsView
    crashed         \* an error has unmounted the application

appVars == <<nav, openId, hash, hashRoute, hashEvent, panel, relinked>>
vars == <<appVars, modal, docs, crashed, editorVars>>

-----------------------------------------------------------------------------
(* App *)

DetailRollout(route) == IF route \in Rollouts THEN route ELSE None

\* What is on display: the page of a rollout, or the current view and its drawer.
Shown(route, open) == IF DetailRollout(route) # None THEN DetailRollout(route) ELSE open
Mode(route, open) ==
    IF DetailRollout(route) # None THEN "page" ELSE IF open # None THEN "drawer" ELSE None

NewPanel(r) ==
    [of |-> r, tasks |-> [i \in Checked[r] |-> "done"], failing |-> None, rescheduleOpen |-> FALSE]

RemountNever(route, open) ==
    /\ panel' = IF Mode(route, open) = None THEN None
                ELSE IF panel = None THEN NewPanel(Shown(route, open)) ELSE panel
    /\ relinked' = FALSE

\* React keeps a component while it stays in its place, and there is no key: a page
\* that is switched to another rollout keeps its state.
Remount(route, open) ==
    LET mode == Mode(route, open)
    IN IF mode # None /\ mode = Mode(hashRoute, openId)
         THEN /\ UNCHANGED panel
              /\ relinked' = (relinked \/ Shown(route, open) # Shown(hashRoute, openId))
         ELSE /\ panel' = IF mode = None THEN None ELSE NewPanel(Shown(route, open))
              /\ relinked' = FALSE

Docs == [tab |-> "rest", section |-> "overview", generating |-> FALSE, created |-> FALSE, tokens |-> 0]

\* The view below the header is mounted when no page covers it.
EditorOf(n) == CASE n = "data" -> "products" [] n = "locks" -> "locks" [] OTHER -> None

MountView(n) ==
    /\ MountEditor(EditorOf(n))
    /\ docs' = IF n = "docs" THEN Docs ELSE None

Viewed(n) ==
    IF Mode(hashRoute, openId) = "page" \/ n # nav THEN MountView(n) ELSE UNCHANGED <<editorVars, docs>>

\* No drawer and no dialog covers the page.
Uncovered ==
    /\ ~crashed /\ modal = None
    /\ Mode(hashRoute, openId) # "drawer"
    /\ panel # None => ~panel.rescheduleOpen
    /\ docs # None => ~docs.generating

closeDetailPageOnlyPushes == hash' = None /\ UNCHANGED <<hashRoute, hashEvent>>

\* pushState fires no hashchange, so the route is reset by hand.
closeDetailPage == hash' = None /\ hashRoute' = None /\ UNCHANGED hashEvent

onNav(n) ==
    /\ Uncovered
    /\ nav' = n
    /\ closeDetailPage
    /\ Remount(None, openId)
    /\ Viewed(n)
    /\ UNCHANGED <<openId, modal, crashed>>

BackToTimeline ==
    /\ Uncovered /\ Mode(hashRoute, openId) = "page"
    /\ closeDetailPage
    /\ Remount(None, openId)
    /\ MountView(nav)
    /\ UNCHANGED <<nav, openId, modal, crashed>>

onOpenRollout(r) ==
    /\ Uncovered /\ Mode(hashRoute, openId) = None /\ nav \in {"timeline", "list"}
    /\ openId' = r
    /\ Remount(hashRoute, r)
    /\ UNCHANGED <<nav, hash, hashRoute, hashEvent, modal, docs, crashed, editorVars>>

closeDrawer ==
    /\ ~crashed /\ Mode(hashRoute, openId) = "drawer" /\ ~panel.rescheduleOpen
    /\ openId' = None
    /\ Remount(hashRoute, None)
    /\ UNCHANGED <<nav, hash, hashRoute, hashEvent, modal, docs, crashed, editorVars>>

\* The page opens with the hashchange event that the new address fires.
openFullPage ==
    /\ ~crashed /\ Mode(hashRoute, openId) = "drawer" /\ ~panel.rescheduleOpen
    /\ hash' = openId
    /\ hashEvent' = (hashEvent \/ hash # openId)
    /\ openId' = None
    /\ Remount(hashRoute, None)
    /\ UNCHANGED <<nav, hashRoute, modal, docs, crashed, editorVars>>

\* A link is pasted, or the back button pressed.
ChangeHash(h) ==
    /\ h # hash
    /\ hash' = h
    /\ hashEvent' = TRUE
    /\ UNCHANGED <<nav, openId, hashRoute, panel, relinked, modal, docs, crashed, editorVars>>

onHash ==
    /\ hashEvent /\ ~crashed
    /\ hashEvent' = FALSE
    /\ hashRoute' = hash
    /\ Remount(hash, openId)
    /\ IF DetailRollout(hash) # None THEN MountEditor(None) /\ docs' = None
       ELSE IF DetailRollout(hashRoute) # None THEN MountView(nav)
       ELSE UNCHANGED <<editorVars, docs>>
    /\ UNCHANGED <<nav, openId, hash, modal, crashed>>

-----------------------------------------------------------------------------
(* ExecutePanel *)

TasksShown == 1..TaskCount[Shown(hashRoute, openId)]
Cleared(f, i) == [j \in DOMAIN f \ {i} |-> f[j]]
With(f, i, v) == [j \in DOMAIN f \union {i} |-> IF j = i THEN v ELSE f[j]]
Is(i, v) == i \in DOMAIN panel.tasks /\ panel.tasks[i] = v

PanelStep(p) ==
    /\ panel' = p
    /\ UNCHANGED <<nav, openId, hash, hashRoute, hashEvent, relinked, modal, docs, crashed, editorVars>>

PanelActive == ~crashed /\ panel # None /\ modal = None /\ ~panel.rescheduleOpen

setDone(i) ==
    /\ PanelActive /\ i \in TasksShown
    /\ PanelStep([panel EXCEPT !.tasks = IF Is(i, "done") THEN Cleared(@, i) ELSE With(@, i, "done"),
                               !.failing = IF @ = i THEN None ELSE @])

\* A failed task is cleared, any other opens the form for the reason.
setFailed(i) ==
    /\ PanelActive /\ i \in TasksShown
    /\ IF Is(i, "failed")
         THEN PanelStep([panel EXCEPT !.tasks = Cleared(@, i), !.failing = IF @ = i THEN None ELSE @])
         ELSE panel.failing # i /\ PanelStep([panel EXCEPT !.failing = i])

editReason(i) ==
    /\ PanelActive /\ i \in TasksShown /\ Is(i, "failed") /\ panel.failing # i
    /\ PanelStep([panel EXCEPT !.failing = i])

\* The form is rendered below its task only.
saveReason ==
    /\ PanelActive /\ panel.failing \in TasksShown
    /\ PanelStep([panel EXCEPT !.tasks = With(@, panel.failing, "failed"), !.failing = None])

cancelReason ==
    /\ PanelActive /\ panel.failing \in TasksShown
    /\ PanelStep([panel EXCEPT !.failing = None])

reschedule ==
    /\ PanelActive
    /\ \E i \in DOMAIN panel.tasks : panel.tasks[i] = "failed"
    /\ PanelStep([panel EXCEPT !.rescheduleOpen = TRUE])

RescheduleConfirm ==
    /\ ~crashed /\ panel # None /\ panel.rescheduleOpen
    /\ PanelStep([panel EXCEPT !.rescheduleOpen = FALSE])

Execute ==
    \/ \E i \in TaskNos : setDone(i) \/ setFailed(i) \/ editReason(i)
    \/ saveReason \/ cancelReason \/ reschedule \/ RescheduleConfirm

-----------------------------------------------------------------------------
(* The create dialogs *)

\* What is entered in a create dialog is kept by it and read by nothing.
ModalStep(m) ==
    /\ modal' = m
    /\ UNCHANGED <<appVars, docs, crashed, editorVars>>

onCreate(m) ==
    /\ Uncovered
    /\ ModalStep(m)

\* Cancel, the scrim and the create button all just close.
CreateRolloutModal == ~crashed /\ modal = "rollout" /\ ModalStep(None)
CreateLockModal == ~crashed /\ modal = "lock" /\ ModalStep(None)

-----------------------------------------------------------------------------
(* MasterDataView and DocsView *)

MasterDataView(t) ==
    /\ Uncovered /\ nav = "data" /\ kind # None /\ t # kind
    /\ MountEditor(t)
    /\ UNCHANGED <<appVars, modal, docs, crashed>>

EditorStep ==
    /\ Uncovered
    /\ Edit
    /\ UNCHANGED <<appVars, modal, docs, crashed>>

\* The retry policy of the channel on display is summarised while it is edited: with
\* fixed intervals and attempts that are no whole number, Array(max - 1) throws, and
\* React unmounts an application whose rendering throws (retrySchedule).
retryThrows ==
    /\ Uncovered /\ kind = "channels" /\ selectedId # None
    /\ crashed' = TRUE
    /\ UNCHANGED <<appVars, modal, docs, editorVars>>

EditorTimer ==
    /\ ~crashed /\ TestEnds
    /\ UNCHANGED <<appVars, modal, docs, crashed>>

Sections(t) ==
    CASE t = "rest" -> <<"overview", "auth", "tokens">> [] t = "mcp" -> <<"mcp-overview", "mcp-install">> [] OTHER -> <<>>

DocsStep(d) ==
    /\ docs' = d
    /\ UNCHANGED <<appVars, modal, crashed, editorVars>>

\* The effect on the tab reads the first section of a list that may be empty: the tab of
\* the API keys has none, and an effect that throws unmounts the application as well.
setTab(t) ==
    /\ Uncovered /\ docs # None /\ t # docs.tab
    /\ IF Sections(t) # <<>>
         THEN DocsStep([docs EXCEPT !.tab = t, !.section = Sections(t)[1]])
         ELSE /\ crashed' = TRUE
              /\ docs' = [docs EXCEPT !.tab = t]
              /\ UNCHANGED <<appVars, modal, editorVars>>

\* The scroll handler marks the section it finds at the top.
ScrollSpy(s) ==
    /\ ~crashed /\ docs # None
    /\ \E i \in DOMAIN Sections(docs.tab) : Sections(docs.tab)[i] = s
    /\ s # docs.section
    /\ DocsStep([docs EXCEPT !.section = s])

openGenerate ==
    /\ Uncovered /\ docs # None
    /\ DocsStep([docs EXCEPT !.generating = TRUE, !.created = FALSE])

GenerateTokenModal ==
    /\ ~crashed /\ docs # None /\ docs.generating
    /\ \/ ~docs.created /\ docs.tokens < MaxTokens /\ DocsStep([docs EXCEPT !.created = TRUE, !.tokens = @ + 1])
       \/ DocsStep([docs EXCEPT !.generating = FALSE])

-----------------------------------------------------------------------------
Init ==
    /\ nav = "timeline" /\ openId = None
    /\ hash \in Rollouts \union {None, Unknown}
    /\ hashRoute = hash /\ hashEvent = FALSE
    /\ panel = IF DetailRollout(hash) = None THEN None ELSE NewPanel(hash)
    /\ relinked = FALSE
    /\ modal = None /\ docs = None /\ crashed = FALSE
    /\ kind = None /\ items = <<>> /\ selectedId = None
    /\ draft = None /\ adding = FALSE /\ testResult = None /\ timers = <<>>
    /\ added = 0 /\ edits = 0

App ==
    \/ \E n \in Navs : onNav(n)
    \/ \E r \in Rollouts : onOpenRollout(r)
    \/ BackToTimeline \/ closeDrawer \/ openFullPage \/ onHash
    \/ \E h \in Rollouts \union {None, Unknown} : ChangeHash(h)

Dialogs ==
    \/ \E m \in {"rollout", "lock"} : onCreate(m)
    \/ CreateRolloutModal \/ CreateLockModal

Pages ==
    \/ \E t \in MD_TABS : MasterDataView(t)
    \/ EditorStep \/ EditorTimer \/ retryThrows
    \/ \E t \in {"rest", "mcp", "keys"} : setTab(t)
    \/ \E s \in SectionNames : ScrollSpy(s)
    \/ openGenerate \/ GenerateTokenModal

Next == App \/ Execute \/ Dialogs \/ Pages

Spec == Init /\ [][Next]_vars

-----------------------------------------------------------------------------
(* Properties *)

Content(x) == [name |-> x.name, list |-> x.list, pair |-> x.pair, chips |-> x.chips, plan |-> x.plan, address |-> x.address]
Contents(s) == [id \in {s[i].id : i \in DOMAIN s} |-> Content(CHOOSE x \in Values(s) : x.id = id)]

SeedContents == {Contents(Seeded(k)) : k \in Kinds} \union {Contents(<<>>)}

List == INSTANCE MasterDetail
    WITH Seeds <- SeedContents,
         contents <- Contents(items), selected <- selectedId

\* Every editor implements the abstract list with a detail pane: although panes are
\* not keyed, timers outlive a selection and stages are renumbered, a change reaches
\* the item on display and no other, and the item on display is one of the list.
EditorsSpec == List!Spec

\* A shared link opens its rollout ("share this URL - it deep-links straight to this
\* rollout"): once the hashchange events are handled, App has parsed what the address
\* says, whatever was opened, closed and navigated to in between (closeDetailPage).
LinkShown == ~hashEvent => hashRoute = hash

\* The results ticked in a panel are those of the rollout it shows, and of its tasks,
\* unless a link has replaced the rollout of an open page (Remount).
PanelOwn ==
    panel # None /\ ~relinked =>
        /\ panel.of = Shown(hashRoute, openId)
        /\ DOMAIN panel.tasks \subseteq TasksShown

=============================================================================
