-------------------------- MODULE PrototypeProofs --------------------------
(***************************************************************************)
(* The design prototype, for any rollouts, tasks, actors, texts and chips, *)
(* any number of seeded items and any number of additions and changes.     *)
(***************************************************************************)
EXTENDS Prototype, SequenceTheorems, TLAPS

-----------------------------------------------------------------------------
(* The application: route, panel and documentation *)

RouteInv ==
    /\ openId \in Rollouts \union {None}
    /\ hash \in Rollouts \union {None, Unknown}
    /\ hashRoute \in Rollouts \union {None, Unknown}
    /\ hashEvent \in BOOLEAN
    /\ LinkShown

\* A panel is mounted exactly while the route or the drawer shows a rollout.
PanelInv ==
    /\ panel \in Panels \union {None}
    /\ relinked \in BOOLEAN
    /\ panel = None <=> Mode(hashRoute, openId) = None
    /\ PanelOwn

DocsInv ==
    /\ docs \in DocsStates \union {None}
    /\ crashed \in BOOLEAN

AppInv == RouteInv /\ PanelInv /\ DocsInv

-----------------------------------------------------------------------------
(* What is on display *)

LEMMA ShownFacts ==
    ASSUME NEW route \in Rollouts \union {None, Unknown}, NEW open \in Rollouts \union {None}
    PROVE  /\ Mode(route, open) \in {"page", "drawer", None}
           /\ Mode(route, open) # None => Shown(route, open) \in Rollouts
BY PrototypeAssumption DEF PrototypeAssumption, Mode, Shown, DetailRollout

LEMMA TasksKnown ==
    ASSUME NEW r \in Rollouts
    PROVE  1..TaskCount[r] \subseteq TaskNos /\ Checked[r] \subseteq 1..TaskCount[r]
BY PrototypeAssumption DEF PrototypeAssumption, TaskNos

LEMMA PanelFields ==
    ASSUME NEW p \in Panels
    PROVE  /\ p # None /\ p.of \in Rollouts /\ DOMAIN p.tasks \subseteq TaskNos
           /\ p.tasks \in [DOMAIN p.tasks -> {"done", "failed"}]
           /\ p.failing \in TaskNos \union {None} /\ p.rescheduleOpen \in BOOLEAN
<1>1. /\ p.of \in Rollouts /\ p.failing \in TaskNos \union {None} /\ p.rescheduleOpen \in BOOLEAN
      /\ p.tasks \in UNION {[S -> {"done", "failed"}] : S \in SUBSET TaskNos}
    BY DEF Panels
<1>2. p # None
    BY PrototypeAssumption DEF PrototypeAssumption
<1> QED BY <1>1, <1>2

LEMMA NewPanelFacts ==
    ASSUME NEW r \in Rollouts
    PROVE  /\ NewPanel(r) \in Panels /\ NewPanel(r).of = r /\ DOMAIN NewPanel(r).tasks = Checked[r]
<1> DEFINE f == [i \in Checked[r] |-> "done"]
<1>1. Checked[r] \in SUBSET TaskNos
    BY TasksKnown
<1>2. f \in [Checked[r] -> {"done", "failed"}]
    OBVIOUS
<1>3. f \in UNION {[S -> {"done", "failed"}] : S \in SUBSET TaskNos} /\ DOMAIN f = Checked[r]
    BY <1>1, <1>2
<1>4. NewPanel(r) = [of |-> r, tasks |-> f, failing |-> None, rescheduleOpen |-> FALSE]
    BY DEF NewPanel
<1> HIDE DEF f
<1> QED BY <1>3, <1>4 DEF Panels

\* Another route or another drawer: the panel is mounted anew unless it stays in its place.
LEMMA RemountStep ==
    ASSUME PanelInv, RouteInv, NEW route \in Rollouts \union {None, Unknown}, NEW open \in Rollouts \union {None},
           hashRoute' = route, openId' = open, Remount(route, open)
    PROVE  PanelInv'
<1> DEFINE mode == Mode(route, open)
           old == Mode(hashRoute, openId)
<1>1. mode # None => Shown(route, open) \in Rollouts
    BY ShownFacts
<1>2. old # None => Shown(hashRoute, openId) \in Rollouts
    BY ShownFacts DEF RouteInv
<1>3. CASE mode # None /\ mode = old
    <2>1. panel' = panel /\ relinked' = (relinked \/ Shown(route, open) # Shown(hashRoute, openId))
        BY <1>3 DEF Remount
    <2>2. relinked' \in BOOLEAN
        BY <2>1 DEF PanelInv
    <2>3. PanelOwn'
        BY <2>1 DEF PanelInv, PanelOwn, TasksShown
    <2>4. Mode(hashRoute, openId)' = mode
        BY DEF Mode, DetailRollout
    <2> QED BY <1>3, <2>1, <2>2, <2>3, <2>4 DEF PanelInv
<1>4. CASE ~(mode # None /\ mode = old)
    <2>1. panel' = (IF mode = None THEN None ELSE NewPanel(Shown(route, open))) /\ relinked' = FALSE
        BY <1>4 DEF Remount
    <2>2. Mode(hashRoute, openId)' = mode /\ Shown(hashRoute, openId)' = Shown(route, open)
        BY DEF Mode, Shown, DetailRollout
    <2>3. CASE mode = None
        BY <2>1, <2>2, <2>3 DEF PanelInv, PanelOwn
    <2>4. CASE mode # None
        <3>1. /\ panel' \in Panels /\ panel'.of = Shown(route, open)
              /\ DOMAIN panel'.tasks = Checked[Shown(route, open)]
            BY <1>1, <2>1, <2>4, NewPanelFacts
        <3>2. panel' # None
            BY <3>1, PanelFields
        <3>3. DOMAIN panel'.tasks \subseteq 1..TaskCount[Shown(route, open)]
            BY <1>1, <2>4, <3>1, TasksKnown
        <3>4. PanelOwn'
            BY <2>2, <3>1, <3>3 DEF PanelOwn, TasksShown
        <3> QED BY <2>1, <2>2, <2>4, <3>1, <3>2, <3>4 DEF PanelInv
    <2> QED BY <2>3, <2>4
<1> QED BY <1>3, <1>4


LEMMA RouteStep ==
    ASSUME RouteInv, PanelInv, App
    PROVE  RouteInv' /\ PanelInv'
<1>1. ASSUME NEW n \in Navs, onNav(n) PROVE RouteInv' /\ PanelInv'
    <2>1. hash' = None /\ hashRoute' = None /\ hashEvent' = hashEvent /\ openId' = openId /\ Remount(None, openId)
        BY <1>1 DEF onNav, closeDetailPage
    <2>2. RouteInv'
        BY <2>1 DEF RouteInv, LinkShown
    <2> QED BY <2>1, <2>2, RemountStep DEF RouteInv
<1>2. CASE BackToTimeline
    <2>1. hash' = None /\ hashRoute' = None /\ hashEvent' = hashEvent /\ openId' = openId /\ Remount(None, openId)
        BY <1>2 DEF BackToTimeline, closeDetailPage
    <2>2. RouteInv'
        BY <2>1 DEF RouteInv, LinkShown
    <2> QED BY <2>1, <2>2, RemountStep DEF RouteInv
<1>3. ASSUME NEW r \in Rollouts, onOpenRollout(r) PROVE RouteInv' /\ PanelInv'
    <2>1. hash' = hash /\ hashRoute' = hashRoute /\ hashEvent' = hashEvent /\ openId' = r /\ Remount(hashRoute, r)
        BY <1>3 DEF onOpenRollout
    <2>2. RouteInv'
        BY <2>1 DEF RouteInv, LinkShown
    <2> QED BY <2>1, <2>2, RemountStep DEF RouteInv
<1>4. CASE closeDrawer
    <2>1. hash' = hash /\ hashRoute' = hashRoute /\ hashEvent' = hashEvent /\ openId' = None /\ Remount(hashRoute, None)
        BY <1>4 DEF closeDrawer
    <2>2. RouteInv'
        BY <2>1 DEF RouteInv, LinkShown
    <2> QED BY <2>1, <2>2, RemountStep DEF RouteInv
<1>5. CASE openFullPage
    <2>1. /\ hash' = openId /\ hashRoute' = hashRoute /\ hashEvent' = (hashEvent \/ hash # openId)
          /\ openId' = None /\ Remount(hashRoute, None)
        BY <1>5 DEF openFullPage
    <2>2. RouteInv'
        BY <2>1 DEF RouteInv, LinkShown
    <2> QED BY <2>1, <2>2, RemountStep DEF RouteInv
<1>6. CASE onHash
    <2>1. hash' = hash /\ hashRoute' = hash /\ hashEvent' = FALSE /\ openId' = openId /\ Remount(hash, openId)
        BY <1>6 DEF onHash
    <2>2. RouteInv'
        BY <2>1 DEF RouteInv, LinkShown
    <2> QED BY <2>1, <2>2, RemountStep DEF RouteInv
<1>7. ASSUME NEW h \in Rollouts \union {None, Unknown}, ChangeHash(h) PROVE RouteInv' /\ PanelInv'
    <2>1. /\ hash' = h /\ hashEvent' = TRUE /\ openId' = openId /\ hashRoute' = hashRoute
          /\ panel' = panel /\ relinked' = relinked
        BY <1>7 DEF ChangeHash
    <2>2. RouteInv'
        BY <2>1 DEF RouteInv, LinkShown
    <2>3. PanelInv'
        BY <2>1 DEF PanelInv, PanelOwn, TasksShown, Shown, Mode, DetailRollout
    <2> QED BY <2>2, <2>3
<1> QED BY <1>1, <1>2, <1>3, <1>4, <1>5, <1>6, <1>7 DEF App

-----------------------------------------------------------------------------
(* The panel *)

LEMMA ResultsChanged ==
    ASSUME NEW f, DOMAIN f \subseteq TaskNos, f \in [DOMAIN f -> {"done", "failed"}],
           NEW i \in TaskNos, NEW v \in {"done", "failed"}
    PROVE  /\ With(f, i, v) \in UNION {[S -> {"done", "failed"}] : S \in SUBSET TaskNos}
           /\ DOMAIN With(f, i, v) = DOMAIN f \union {i}
           /\ Cleared(f, i) \in UNION {[S -> {"done", "failed"}] : S \in SUBSET TaskNos}
           /\ DOMAIN Cleared(f, i) = DOMAIN f \ {i}
<1>1. With(f, i, v) \in [DOMAIN f \union {i} -> {"done", "failed"}] /\ DOMAIN f \union {i} \in SUBSET TaskNos
    BY DEF With
<1>2. Cleared(f, i) \in [DOMAIN f \ {i} -> {"done", "failed"}] /\ DOMAIN f \ {i} \in SUBSET TaskNos
    BY DEF Cleared
<1> QED BY <1>1, <1>2

\* A panel that stays the one of its rollout, with results of the tasks it lists.
LEMMA PanelKept ==
    ASSUME RouteInv, PanelInv, panel # None, NEW p \in Panels, PanelStep(p), p.of = panel.of,
           DOMAIN p.tasks \subseteq DOMAIN panel.tasks \union TasksShown
    PROVE  RouteInv' /\ PanelInv'
<1>1. /\ panel' = p /\ openId' = openId /\ hash' = hash /\ hashRoute' = hashRoute /\ hashEvent' = hashEvent
      /\ relinked' = relinked
    BY DEF PanelStep
<1>2. RouteInv'
    BY <1>1 DEF RouteInv, LinkShown
<1>3. p # None
    BY PanelFields
<1>4. TasksShown' = TasksShown /\ Mode(hashRoute, openId)' = Mode(hashRoute, openId)
      /\ Shown(hashRoute, openId)' = Shown(hashRoute, openId)
    BY <1>1 DEF TasksShown, Mode, Shown, DetailRollout
<1>5. PanelOwn'
    BY <1>1, <1>4 DEF PanelInv, PanelOwn
<1> QED BY <1>1, <1>2, <1>3, <1>4, <1>5 DEF PanelInv

LEMMA ExecuteStep ==
    ASSUME RouteInv, PanelInv, Execute
    PROVE  RouteInv' /\ PanelInv'
<1>0. panel # None
    BY DEF Execute, setDone, setFailed, editReason, saveReason, cancelReason, reschedule, RescheduleConfirm, PanelActive
<1>1. panel \in Panels /\ Mode(hashRoute, openId) # None
    BY <1>0 DEF PanelInv
<1>2. TasksShown \subseteq TaskNos
    <2>1. Shown(hashRoute, openId) \in Rollouts
        BY <1>1, ShownFacts DEF RouteInv
    <2> QED BY <2>1, TasksKnown DEF TasksShown
<1> DEFINE f == panel.tasks
<1>3. /\ DOMAIN f \subseteq TaskNos /\ f \in [DOMAIN f -> {"done", "failed"}]
      /\ panel.failing \in TaskNos \union {None}
    BY <1>1, PanelFields
<1>4. ASSUME NEW i \in TaskNos, NEW v \in {"done", "failed"}
      PROVE  /\ With(f, i, v) \in UNION {[S -> {"done", "failed"}] : S \in SUBSET TaskNos}
             /\ DOMAIN With(f, i, v) = DOMAIN f \union {i}
             /\ Cleared(f, i) \in UNION {[S -> {"done", "failed"}] : S \in SUBSET TaskNos}
             /\ DOMAIN Cleared(f, i) = DOMAIN f \ {i}
    <2> HIDE DEF f
    <2> QED BY <1>3, ResultsChanged
<1>6. ASSUME NEW i \in TaskNos, setDone(i) PROVE RouteInv' /\ PanelInv'
    <2> DEFINE g == IF Is(i, "done") THEN Cleared(f, i) ELSE With(f, i, "done")
               p == [panel EXCEPT !.tasks = g, !.failing = IF panel.failing = i THEN None ELSE panel.failing]
    <2>1. PanelStep(p) /\ i \in TasksShown
        BY <1>6 DEF setDone
    <2>2. g \in UNION {[S -> {"done", "failed"}] : S \in SUBSET TaskNos} /\ DOMAIN g \subseteq DOMAIN f \union {i}
        BY <1>4
    <2> HIDE DEF g
    <2>3. p \in Panels /\ p.of = panel.of /\ p.tasks = g
        BY <1>1, <1>3, <2>2 DEF Panels
    <2> HIDE DEF p
    <2> QED BY <1>0, <2>1, <2>2, <2>3, PanelKept
<1>7. ASSUME NEW i \in TaskNos, setFailed(i) PROVE RouteInv' /\ PanelInv'
    <2>1. CASE Is(i, "failed")
        <3> DEFINE g == Cleared(f, i)
                   p == [panel EXCEPT !.tasks = g, !.failing = IF panel.failing = i THEN None ELSE panel.failing]
        <3>1. PanelStep(p) /\ i \in TasksShown
            BY <1>7, <2>1 DEF setFailed
        <3>2. g \in UNION {[S -> {"done", "failed"}] : S \in SUBSET TaskNos} /\ DOMAIN g \subseteq DOMAIN f \union {i}
            BY <1>4
        <3> HIDE DEF g
        <3>3. p \in Panels /\ p.of = panel.of /\ p.tasks = g
            BY <1>1, <1>3, <3>2 DEF Panels
        <3> HIDE DEF p
        <3> QED BY <1>0, <3>1, <3>2, <3>3, PanelKept
    <2>2. CASE ~Is(i, "failed")
        <3> DEFINE p == [panel EXCEPT !.failing = i]
        <3>1. PanelStep(p)
            BY <1>7, <2>2 DEF setFailed
        <3>2. p \in Panels /\ p.of = panel.of /\ p.tasks = f
            BY <1>1 DEF Panels
        <3> HIDE DEF p
        <3> QED BY <1>0, <3>1, <3>2, PanelKept
    <2> QED BY <2>1, <2>2
<1>8. ASSUME NEW x \in TaskNos \union {None}, NEW b \in BOOLEAN,
             PanelStep([panel EXCEPT !.failing = x]) \/ PanelStep([panel EXCEPT !.rescheduleOpen = b])
      PROVE  RouteInv' /\ PanelInv'
    <2>1. PICK p \in {[panel EXCEPT !.failing = x], [panel EXCEPT !.rescheduleOpen = b]} : PanelStep(p)
        BY <1>8
    <2>2. p \in Panels /\ p.of = panel.of /\ p.tasks = f
        BY <1>1 DEF Panels
    <2> QED BY <1>0, <2>1, <2>2, PanelKept
<1>9. ASSUME NEW i \in TaskNos, editReason(i) PROVE RouteInv' /\ PanelInv'
    BY <1>8, <1>9 DEF editReason
<1>10. CASE saveReason
    <2> DEFINE i == panel.failing
               g == With(f, i, "failed")
               p == [panel EXCEPT !.tasks = g, !.failing = None]
    <2>1. PanelStep(p) /\ i \in TasksShown
        BY <1>10 DEF saveReason
    <2>2. g \in UNION {[S -> {"done", "failed"}] : S \in SUBSET TaskNos} /\ DOMAIN g = DOMAIN f \union {i}
        BY <1>2, <1>4, <2>1
    <2> HIDE DEF g
    <2>3. p \in Panels /\ p.of = panel.of /\ p.tasks = g
        BY <1>1, <2>2 DEF Panels
    <2> HIDE DEF p
    <2> QED BY <1>0, <2>1, <2>2, <2>3, PanelKept
<1>11. CASE cancelReason \/ reschedule \/ RescheduleConfirm
    BY <1>8, <1>11 DEF cancelReason, reschedule, RescheduleConfirm
<1> QED BY <1>6, <1>7, <1>9, <1>10, <1>11 DEF Execute


-----------------------------------------------------------------------------
(* The documentation *)

LEMMA PairFacts ==
    ASSUME NEW a, NEW b
    PROVE  <<a, b>> # <<>> /\ <<a, b>>[1] = a
OBVIOUS

LEMMA TripleFacts ==
    ASSUME NEW a, NEW b, NEW c
    PROVE  <<a, b, c>> # <<>> /\ <<a, b, c>>[1] = a
OBVIOUS

LEMMA SectionFacts ==
    ASSUME NEW t \in {"rest", "mcp", "keys"}, t # "keys"
    PROVE  Sections(t) # <<>> /\ Sections(t)[1] \in SectionNames
<1>1. CASE t = "rest"
    <2>1. Sections(t) = <<"overview", "auth", "tokens">>
        BY <1>1, Zenon DEF Sections
    <2>2. "overview" \in SectionNames
        BY Zenon DEF SectionNames
    <2> QED BY <2>1, <2>2, TripleFacts, Zenon
<1>2. CASE t = "mcp"
    <2>1. Sections(t) = <<"mcp-overview", "mcp-install">>
        BY <1>2, Zenon DEF Sections
    <2>2. "mcp-overview" \in SectionNames
        BY Zenon DEF SectionNames
    <2> QED BY <2>1, <2>2, PairFacts, Zenon
<1> QED BY <1>1, <1>2

LEMMA DocsFields ==
    ASSUME NEW d \in DocsStates
    PROVE  /\ d # None /\ d.tab \in {"rest", "mcp", "keys"} /\ d.tokens \in Nat
           /\ \A t \in {"rest", "mcp", "keys"} : [d EXCEPT !.tab = t] \in DocsStates /\ [d EXCEPT !.tab = t].tab = t
           /\ \A s \in SectionNames : [d EXCEPT !.section = s] \in DocsStates
           /\ \A t \in {"rest", "mcp", "keys"}, s \in SectionNames : [d EXCEPT !.tab = t, !.section = s] \in DocsStates
           /\ [d EXCEPT !.generating = TRUE, !.created = FALSE] \in DocsStates
           /\ [d EXCEPT !.created = TRUE, !.tokens = d.tokens + 1] \in DocsStates
           /\ [d EXCEPT !.generating = FALSE] \in DocsStates
<1>1. d # None
    BY PrototypeAssumption DEF PrototypeAssumption
<1>2. d.tab \in {"rest", "mcp", "keys"} /\ d.tokens \in Nat
    BY DEF DocsStates
<1>3. \A t \in {"rest", "mcp", "keys"} : [d EXCEPT !.tab = t] \in DocsStates /\ [d EXCEPT !.tab = t].tab = t
    BY DEF DocsStates
<1>4. \A s \in SectionNames : [d EXCEPT !.section = s] \in DocsStates
    BY DEF DocsStates
<1>5. \A t \in {"rest", "mcp", "keys"}, s \in SectionNames : [d EXCEPT !.tab = t, !.section = s] \in DocsStates
    BY DEF DocsStates
<1>6. [d EXCEPT !.generating = TRUE, !.created = FALSE] \in DocsStates /\ [d EXCEPT !.generating = FALSE] \in DocsStates
    BY DEF DocsStates
<1>7. [d EXCEPT !.created = TRUE, !.tokens = d.tokens + 1] \in DocsStates
    <2> DEFINE n == d.tokens + 1
    <2>1. n \in Nat
        BY <1>2
    <2> HIDE DEF n
    <2>2. [d EXCEPT !.created = TRUE, !.tokens = n] \in DocsStates
        BY <2>1 DEF DocsStates
    <2> QED BY <2>2 DEF n
<1> QED BY <1>1, <1>2, <1>3, <1>4, <1>5, <1>6, <1>7

\* While the application runs, the view that is on display decides.
LEMMA DocsRunning ==
    ASSUME DocsInv, ~crashed, crashed' = crashed, docs' \in DocsStates \union {None}
    PROVE  DocsInv'
BY DEF DocsInv

LEMMA DocsKept ==
    ASSUME DocsInv, crashed' = crashed, docs' = docs
    PROVE  DocsInv'
BY DEF DocsInv

LEMMA NewDocs == Docs \in DocsStates
<1>1. "overview" \in SectionNames
    BY Zenon DEF SectionNames
<1> QED BY <1>1 DEF Docs, DocsStates

LEMMA DocsStepInv ==
    ASSUME DocsInv, [Next]_vars
    PROVE  DocsInv'
<1>1. CASE App
    <2>1. ASSUME NEW n, MountView(n) PROVE docs' \in DocsStates \union {None}
        BY <2>1, NewDocs DEF MountView
    <2>2. ASSUME NEW n \in Navs, onNav(n) PROVE DocsInv'
        <3>1. ~crashed /\ crashed' = crashed
            BY <2>2 DEF onNav, Uncovered
        <3>2. docs' \in DocsStates \union {None}
            BY <2>1, <2>2 DEF onNav, Viewed, DocsInv
        <3> QED BY <3>1, <3>2, DocsRunning
    <2>3. CASE BackToTimeline
        <3>1. ~crashed /\ crashed' = crashed /\ MountView(nav)
            BY <2>3 DEF BackToTimeline, Uncovered
        <3> QED BY <2>1, <3>1, DocsRunning
    <2>4. CASE onHash
        <3>1. ~crashed /\ crashed' = crashed
            BY <2>4 DEF onHash
        <3>2. docs' \in DocsStates \union {None}
            BY <2>1, <2>4 DEF onHash, DocsInv
        <3> QED BY <3>1, <3>2, DocsRunning
    <2>5. ASSUME \/ \E r \in Rollouts : onOpenRollout(r)
                 \/ closeDrawer \/ openFullPage
                 \/ \E h \in Rollouts \union {None, Unknown} : ChangeHash(h)
          PROVE  DocsInv'
        <3>1. docs' = docs /\ crashed' = crashed
            BY <2>5 DEF onOpenRollout, closeDrawer, openFullPage, ChangeHash
        <3> QED BY <3>1, DocsKept
    <2> QED BY <1>1, <2>2, <2>3, <2>4, <2>5 DEF App
<1>2. CASE Execute \/ Dialogs
    <2>1. docs' = docs /\ crashed' = crashed
        BY <1>2 DEF Execute, setDone, setFailed, editReason, saveReason, cancelReason, reschedule,
                    RescheduleConfirm, PanelStep, Dialogs, onCreate, CreateRolloutModal, CreateLockModal, ModalStep
    <2> QED BY <2>1, DocsKept
<1>3. CASE EditorStep \/ EditorTimer \/ \E t \in MD_TABS : MasterDataView(t)
    <2>1. docs' = docs /\ crashed' = crashed
        BY <1>3 DEF EditorStep, EditorTimer, MasterDataView
    <2> QED BY <2>1, DocsKept
<1>4. ASSUME NEW t \in {"rest", "mcp", "keys"}, setTab(t) PROVE DocsInv'
    <2>1. docs \in DocsStates /\ ~crashed
        BY <1>4 DEF setTab, Uncovered, DocsInv
    <2>2. CASE Sections(t) # <<>> /\ t # "keys"
        <3>1. docs' = [docs EXCEPT !.tab = t, !.section = Sections(t)[1]] /\ crashed' = crashed
            BY <1>4, <2>2 DEF setTab, DocsStep
        <3>2. Sections(t)[1] \in SectionNames
            BY <2>2, SectionFacts
        <3>3. docs' \in DocsStates
            BY <2>1, <3>1, <3>2, DocsFields
        <3> QED BY <2>1, <3>1, <3>3, DocsRunning
    <2>3. CASE t = "keys"
        <3>1. Sections(t) = <<>>
            BY <2>3, Zenon DEF Sections
        <3>2. docs' = [docs EXCEPT !.tab = t] /\ crashed' = TRUE
            BY <1>4, <3>1 DEF setTab
        <3>3. docs' \in DocsStates
            BY <2>1, <2>3, <3>2, DocsFields
        <3> QED BY <3>2, <3>3 DEF DocsInv
    <2>4. t # "keys" => Sections(t) # <<>>
        BY SectionFacts
    <2> QED BY <2>2, <2>3, <2>4
<1>5. ASSUME NEW s \in SectionNames, ScrollSpy(s) PROVE DocsInv'
    <2>1. docs \in DocsStates /\ ~crashed /\ crashed' = crashed /\ docs' = [docs EXCEPT !.section = s]
        BY <1>5 DEF ScrollSpy, DocsStep, DocsInv
    <2> QED BY <2>1, DocsFields, DocsRunning
<1>6. CASE openGenerate \/ GenerateTokenModal
    <2>1. docs \in DocsStates /\ ~crashed /\ crashed' = crashed
        BY <1>6 DEF openGenerate, GenerateTokenModal, DocsStep, DocsInv, Uncovered
    <2>2. \/ docs' = [docs EXCEPT !.generating = TRUE, !.created = FALSE]
          \/ docs' = [docs EXCEPT !.created = TRUE, !.tokens = docs.tokens + 1]
          \/ docs' = [docs EXCEPT !.generating = FALSE]
        BY <1>6 DEF openGenerate, GenerateTokenModal, DocsStep
    <2>3. /\ [docs EXCEPT !.generating = TRUE, !.created = FALSE] \in DocsStates
          /\ [docs EXCEPT !.created = TRUE, !.tokens = docs.tokens + 1] \in DocsStates
          /\ [docs EXCEPT !.generating = FALSE] \in DocsStates
        BY <2>1, DocsFields
    <2>4. docs' \in DocsStates
        BY <2>2, <2>3, Zenon
    <2> QED BY <2>1, <2>4, DocsRunning
<1>7. CASE retryThrows
    BY <1>7 DEF retryThrows, DocsInv
<1>8. CASE UNCHANGED vars
    <2>1. docs' = docs /\ crashed' = crashed
        BY <1>8 DEF vars
    <2> QED BY <2>1, DocsKept
<1> QED BY <1>1, <1>2, <1>3, <1>4, <1>5, <1>6, <1>7, <1>8 DEF Next, Pages

-----------------------------------------------------------------------------
(* The application: the theorems *)

LEMMA AppInit == Init => AppInv
<1> SUFFICES ASSUME Init PROVE AppInv
    OBVIOUS
<1>1. /\ openId = None /\ hash \in Rollouts \union {None, Unknown} /\ hashRoute = hash /\ hashEvent = FALSE
      /\ relinked = FALSE /\ docs = None /\ crashed = FALSE
      /\ panel = IF DetailRollout(hash) = None THEN None ELSE NewPanel(hash)
    BY DEF Init
<1>2. RouteInv /\ DocsInv
    BY <1>1 DEF RouteInv, LinkShown, DocsInv
<1>3. PanelInv
    <2>1. CASE DetailRollout(hash) = None
        BY <1>1, <2>1 DEF PanelInv, PanelOwn, Mode
    <2>2. CASE DetailRollout(hash) # None
        <3>1. hash \in Rollouts /\ Shown(hashRoute, openId) = hash /\ Mode(hashRoute, openId) = "page"
            BY <1>1, <2>2 DEF DetailRollout, Shown, Mode
        <3>2. panel \in Panels /\ panel.of = hash /\ DOMAIN panel.tasks = Checked[hash]
            BY <1>1, <2>2, <3>1, NewPanelFacts
        <3>3. panel # None /\ DOMAIN panel.tasks \subseteq 1..TaskCount[hash]
            BY <3>1, <3>2, PanelFields, TasksKnown
        <3>4. Mode(hashRoute, openId) # None
            BY <3>1, PrototypeAssumption DEF PrototypeAssumption
        <3> QED BY <1>1, <3>1, <3>2, <3>3, <3>4 DEF PanelInv, PanelOwn, TasksShown
    <2> QED BY <2>1, <2>2
<1> QED BY <1>2, <1>3 DEF AppInv

LEMMA AppStep == AppInv /\ [Next]_vars => AppInv'
<1> SUFFICES ASSUME AppInv, [Next]_vars PROVE AppInv'
    OBVIOUS
<1>1. DocsInv'
    BY DocsStepInv DEF AppInv
<1>2. CASE App \/ Execute
    BY <1>1, <1>2, RouteStep, ExecuteStep DEF AppInv
<1>3. CASE Dialogs \/ Pages \/ UNCHANGED vars
    <2>1. UNCHANGED appVars
        BY <1>3 DEF Dialogs, onCreate, CreateRolloutModal, CreateLockModal, ModalStep, Pages, MasterDataView,
                    EditorStep, EditorTimer, retryThrows, setTab, ScrollSpy, openGenerate, GenerateTokenModal, DocsStep, vars
    <2>2. RouteInv' /\ PanelInv'
        BY <2>1 DEF appVars, AppInv, RouteInv, LinkShown, PanelInv, PanelOwn, TasksShown, Shown, Mode, DetailRollout
    <2> QED BY <1>1, <2>2 DEF AppInv
<1> QED BY <1>2, <1>3 DEF Next

LEMMA AppCorrect == Spec => []AppInv
BY AppInit, AppStep, PTL DEF Spec

\* Once the hashchange events are handled, App has parsed what the address says, for any
\* rollouts and any order of clicks, links and back buttons: closing a page resets the
\* route by hand where pushState fires no event (closeDetailPage, openFullPage, onHash).
THEOREM PrototypeLinkShown == Spec => []LinkShown
<1>1. AppInv => LinkShown
    BY DEF AppInv, RouteInv
<1> QED BY <1>1, AppCorrect, PTL

\* The results ticked in a panel are those of the rollout it shows and of its tasks,
\* unless a link has replaced the rollout of an open page (ExecutePanel without a key).
THEOREM PrototypePanelOwn == Spec => []PanelOwn
<1>1. AppInv => PanelOwn
    BY DEF AppInv, PanelInv
<1> QED BY <1>1, AppCorrect, PTL

-----------------------------------------------------------------------------
(* The editors: items *)

IsItem(x) ==
    x = [id |-> x.id, name |-> x.name, list |-> x.list, pair |-> x.pair, chips |-> x.chips, plan |-> x.plan,
         order |-> x.order, address |-> x.address]

\* Whatever field of an item is changed, it stays an item with the same id.
LEMMA FieldChanged ==
    ASSUME NEW x, IsItem(x)
    PROVE  \A v : /\ IsItem([x EXCEPT !.name = v]) /\ [x EXCEPT !.name = v].id = x.id
                 /\ IsItem([x EXCEPT !.list = v]) /\ [x EXCEPT !.list = v].id = x.id
                 /\ IsItem([x EXCEPT !.pair = v]) /\ [x EXCEPT !.pair = v].id = x.id
                 /\ IsItem([x EXCEPT !.chips = v]) /\ [x EXCEPT !.chips = v].id = x.id
                 /\ IsItem([x EXCEPT !.plan = v]) /\ [x EXCEPT !.plan = v].id = x.id
                 /\ IsItem([x EXCEPT !.address = v]) /\ [x EXCEPT !.address = v].id = x.id
                 /\ IsItem([x EXCEPT !.order = v]) /\ [x EXCEPT !.order = v].id = x.id
<1> TAKE v
<1>1. x = [id |-> x.id, name |-> x.name, list |-> x.list, pair |-> x.pair, chips |-> x.chips, plan |-> x.plan,
           order |-> x.order, address |-> x.address]
    BY DEF IsItem
<1>2. IsItem([x EXCEPT !.name = v]) /\ [x EXCEPT !.name = v].id = x.id
    BY <1>1 DEF IsItem
<1>3. IsItem([x EXCEPT !.list = v]) /\ [x EXCEPT !.list = v].id = x.id
    BY <1>1 DEF IsItem
<1>4. IsItem([x EXCEPT !.pair = v]) /\ [x EXCEPT !.pair = v].id = x.id
    BY <1>1 DEF IsItem
<1>5. IsItem([x EXCEPT !.chips = v]) /\ [x EXCEPT !.chips = v].id = x.id
    BY <1>1 DEF IsItem
<1>6. IsItem([x EXCEPT !.plan = v]) /\ [x EXCEPT !.plan = v].id = x.id
    BY <1>1 DEF IsItem
<1>7. IsItem([x EXCEPT !.address = v]) /\ [x EXCEPT !.address = v].id = x.id
    BY <1>1 DEF IsItem
<1>8. IsItem([x EXCEPT !.order = v]) /\ [x EXCEPT !.order = v].id = x.id
    BY <1>1 DEF IsItem
<1> QED BY <1>2, <1>3, <1>4, <1>5, <1>6, <1>7, <1>8

\* Its place in the cascade is not part of what an item says.
LEMMA OrderChanged ==
    ASSUME NEW x, IsItem(x), NEW v
    PROVE  Content([x EXCEPT !.order = v]) = Content(x)
BY DEF IsItem, Content

LEMMA BlankItem ==
    ASSUME NEW id
    PROVE  IsItem(Blank(id)) /\ Blank(id).id = id
BY DEF Blank, IsItem

LEMMA NewItemFacts ==
    ASSUME NEW k \in Kinds, NEW id, NEW n
    PROVE  IsItem(NewItem(k, id, n)) /\ NewItem(k, id, n).id = id
<1>1. IsItem(Blank(id)) /\ Blank(id).id = id
    BY BlankItem
<1>2. \/ NewItem(k, id, n) = Blank(id)
      \/ \E v : NewItem(k, id, n) = [Blank(id) EXCEPT !.order = v]
      \/ \E v : NewItem(k, id, n) = [Blank(id) EXCEPT !.plan = v]
      \/ \E v : NewItem(k, id, n) = [Blank(id) EXCEPT !.chips = v]
    BY Zenon DEF Kinds, NewItem, newProduct, newType, newChannel, newStage, newActor, newFilter, newLock, addContact
<1>3. \A v : /\ IsItem([Blank(id) EXCEPT !.order = v]) /\ [Blank(id) EXCEPT !.order = v].id = Blank(id).id
             /\ IsItem([Blank(id) EXCEPT !.plan = v]) /\ [Blank(id) EXCEPT !.plan = v].id = Blank(id).id
             /\ IsItem([Blank(id) EXCEPT !.chips = v]) /\ [Blank(id) EXCEPT !.chips = v].id = Blank(id).id
    BY <1>1, FieldChanged, Zenon
<1> QED BY <1>1, <1>2, <1>3, Zenon

\* No input of a detail pane changes the id of the item it shows.
LEMMA DetailKeeps ==
    ASSUME NEW k, NEW x, IsItem(x), NEW y \in Detail(k, x)
    PROVE  IsItem(y) /\ y.id = x.id
<1>1. \/ \E v : y = [x EXCEPT !.name = v]
      \/ \E v : y = [x EXCEPT !.list = v]
      \/ \E v : y = [x EXCEPT !.pair = v]
      \/ \E v : y = [x EXCEPT !.chips = v]
      \/ \E v : y = [x EXCEPT !.plan = v]
      \/ \E v : y = [x EXCEPT !.address = v]
    <2>1. CASE y = [x EXCEPT !.name = "renamed"]
        BY <2>1
    <2>2. CASE k = "products" /\ y \in ProductDetail(x)
        BY <2>2, Zenon DEF ProductDetail
    <2>3. CASE k = "types" /\ y \in RolloutTypeDetail(x)
        <3>1. CASE y \in {[x EXCEPT !.list[i] = v] : i \in DOMAIN x.list, v \in Texts}
            <4>1. PICK i \in DOMAIN x.list, v \in Texts : y = [x EXCEPT !.list[i] = v]
                BY <3>1
            <4>2. y = [x EXCEPT !.list = [x.list EXCEPT ![i] = v]]
                BY <4>1
            <4> QED BY <4>2, Zenon
        <3>2. CASE y \notin {[x EXCEPT !.list[i] = v] : i \in DOMAIN x.list, v \in Texts}
            <4>1. \/ y \in {[x EXCEPT !.list = Cut(@, i)] : i \in DOMAIN x.list}
                  \/ y \in {[x EXCEPT !.list = l] : l \in Moved(x.list)}
                  \/ y \in {[x EXCEPT !.plan = p] : p \in CascadePlanEditor(x.plan)}
                BY <2>3, <3>2 DEF RolloutTypeDetail
            <4> QED BY <4>1, Zenon
        <3> QED BY <3>1, <3>2
    <2>4. CASE k = "channels" /\ y \in ChannelDetail(x)
        BY <2>4, Zenon DEF ChannelDetail
    <2>5. CASE k = "stages" /\ y \in StageDetail(x)
        BY <2>5, Zenon DEF StageDetail
    <2>6. CASE k = "filters" /\ y \in FilterDetail(x)
        BY <2>6, Zenon DEF FilterDetail
    <2>7. CASE k = "locks" /\ y \in LockDetail(x)
        BY <2>7, Zenon DEF LockDetail
    <2> QED BY <2>1, <2>2, <2>3, <2>4, <2>5, <2>6, <2>7 DEF Detail
<1>2. \A v : /\ IsItem([x EXCEPT !.name = v]) /\ [x EXCEPT !.name = v].id = x.id
             /\ IsItem([x EXCEPT !.list = v]) /\ [x EXCEPT !.list = v].id = x.id
             /\ IsItem([x EXCEPT !.pair = v]) /\ [x EXCEPT !.pair = v].id = x.id
             /\ IsItem([x EXCEPT !.chips = v]) /\ [x EXCEPT !.chips = v].id = x.id
             /\ IsItem([x EXCEPT !.plan = v]) /\ [x EXCEPT !.plan = v].id = x.id
             /\ IsItem([x EXCEPT !.address = v]) /\ [x EXCEPT !.address = v].id = x.id
    BY FieldChanged, Zenon
<1> QED BY <1>1, <1>2, Zenon

-----------------------------------------------------------------------------
(* The editors: lists *)

IdsOf(s) == {s[i].id : i \in DOMAIN s}

\* A list of items of which no two have the same id.
IsList(s) ==
    /\ s \in Seq(Values(s))
    /\ \A i \in DOMAIN s : IsItem(s[i])
    /\ \A i, j \in DOMAIN s : s[i].id = s[j].id => i = j

LEMMA ListOf ==
    ASSUME NEW n \in Nat, NEW s, s = [i \in 1..n |-> s[i]]
    PROVE  s \in Seq(Values(s)) /\ Len(s) = n /\ DOMAIN s = 1..n
<1>1. DOMAIN s = 1..n
    OBVIOUS
<1>2. \A i \in 1..n : s[i] \in Values(s)
    BY <1>1 DEF Values
<1>3. s \in [1..n -> Values(s)]
    BY <1>2
<1>4. s \in Seq(Values(s))
    BY <1>3
<1> QED BY <1>1, <1>4

LEMMA ListLen ==
    ASSUME NEW s, IsList(s)
    PROVE  Len(s) \in Nat /\ DOMAIN s = 1..Len(s) /\ s = [i \in 1..Len(s) |-> s[i]]
BY DEF IsList

\* The contents of a list: each item under its id.
LEMMA ContentsFacts ==
    ASSUME NEW s, IsList(s)
    PROVE  /\ DOMAIN Contents(s) = IdsOf(s)
           /\ \A i \in DOMAIN s : Contents(s)[s[i].id] = Content(s[i])
<1>1. DOMAIN Contents(s) = IdsOf(s)
    BY DEF Contents, IdsOf
<1>2. ASSUME NEW i \in DOMAIN s PROVE Contents(s)[s[i].id] = Content(s[i])
    <2> DEFINE c == CHOOSE x \in Values(s) : x.id = s[i].id
    <2>1. s[i] \in Values(s)
        BY DEF Values
    <2>2. c \in Values(s) /\ c.id = s[i].id
        BY <2>1
    <2>3. \A x \in Values(s) : x.id = s[i].id => x = s[i]
        BY DEF Values, IsList
    <2>4. c = s[i]
        BY <2>2, <2>3
    <2>5. s[i].id \in {s[j].id : j \in DOMAIN s}
        OBVIOUS
    <2>6. Contents(s)[s[i].id] = Content(c)
        BY <2>5 DEF Contents
    <2> QED BY <2>4, <2>6
<1> QED BY <1>1, <1>2

\* Two lists with the same items, wherever they stand, have the same contents.
LEMMA SameContents ==
    ASSUME NEW s, IsList(s), NEW r, IsList(r), IdsOf(s) = IdsOf(r),
           \A i \in DOMAIN s, j \in DOMAIN r : s[i].id = r[j].id => Content(s[i]) = Content(r[j])
    PROVE  Contents(s) = Contents(r)
<1>1. DOMAIN Contents(s) = IdsOf(s) /\ DOMAIN Contents(r) = IdsOf(s)
    BY ContentsFacts
<1>2. ASSUME NEW id \in IdsOf(s) PROVE Contents(s)[id] = Contents(r)[id]
    <2>1. PICK i \in DOMAIN s : s[i].id = id
        BY DEF IdsOf
    <2>2. PICK j \in DOMAIN r : r[j].id = id
        BY DEF IdsOf
    <2> QED BY <2>1, <2>2, ContentsFacts
<1>3. Contents(s) = [id \in IdsOf(s) |-> Contents(s)[id]] /\ Contents(r) = [id \in IdsOf(r) |-> Contents(r)[id]]
    BY DEF Contents, IdsOf
<1> QED BY <1>1, <1>2, <1>3


LEMMA EmptyList ==
    /\ IsList(<<>>) /\ IdsOf(<<>>) = {}
    /\ \A s : IsList(s) /\ IdsOf(s) = {} => s = <<>>
<1>1. IsList(<<>>) /\ IdsOf(<<>>) = {}
    BY DEF IsList, IdsOf, Values
<1>2. ASSUME NEW s, IsList(s), IdsOf(s) = {} PROVE s = <<>>
    <2>1. DOMAIN s = {}
        BY <1>2 DEF IdsOf
    <2>2. s \in Seq(Values(s))
        BY <1>2 DEF IsList
    <2> QED BY <2>1, <2>2
<1> QED BY <1>1, <1>2

LEMMA FirstFacts ==
    ASSUME NEW s, IsList(s)
    PROVE  IF s = <<>> THEN First(s) = None ELSE First(s) \in IdsOf(s)
<1>1. CASE s = <<>>
    BY <1>1 DEF First
<1>2. CASE s # <<>>
    <2>1. 1 \in DOMAIN s
        BY <1>2 DEF IsList
    <2> QED BY <1>2, <2>1 DEF First, IdsOf
<1> QED BY <1>1, <1>2

LEMMA SeededList ==
    ASSUME NEW k \in Kinds
    PROVE  IsList(Seeded(k)) /\ IdsOf(Seeded(k)) \subseteq 1..SeedSize
<1>0. SeedSize \in Nat
    BY EditorsAssumption DEF EditorsAssumption
<1> DEFINE s == Seeded(k)
<1>1. s = [i \in 1..SeedSize |-> s[i]]
    BY DEF Seeded
<1>2. ASSUME NEW i \in 1..SeedSize PROVE IsItem(s[i]) /\ s[i].id = i
    <2> DEFINE x == NewItem(k, i, i - 1)
               l == IF k \in {"products", "types"} THEN <<"b1", "b2">> ELSE <<>>
               a == (k = "channels")
    <2>1. IsItem(x) /\ x.id = i
        BY NewItemFacts
    <2>2. s[i] = [x EXCEPT !.list = l, !.address = a]
        BY DEF Seeded
    <2> HIDE DEF x, l, a
    <2>3. IsItem([x EXCEPT !.list = l]) /\ [x EXCEPT !.list = l].id = x.id
        BY <2>1, FieldChanged
    <2> DEFINE y == [x EXCEPT !.list = l]
    <2>4. s[i] = [y EXCEPT !.address = a]
        BY <2>2
    <2> HIDE DEF y
    <2>5. IsItem(y) /\ y.id = x.id
        BY <2>3 DEF y
    <2>6. \A v : IsItem([y EXCEPT !.address = v]) /\ [y EXCEPT !.address = v].id = y.id
        BY <2>5, FieldChanged, Zenon
    <2> QED BY <2>1, <2>4, <2>5, <2>6, Zenon
<1> HIDE DEF s
<1>3. s \in Seq(Values(s)) /\ DOMAIN s = 1..SeedSize
    BY <1>0, <1>1, ListOf
<1> QED BY <1>2, <1>3 DEF IsList, IdsOf, s

\* One more item, with an id of its own.
LEMMA AppendList ==
    ASSUME NEW s, IsList(s), NEW x, IsItem(x), x.id \notin IdsOf(s)
    PROVE  /\ IsList(Append(s, x)) /\ IdsOf(Append(s, x)) = IdsOf(s) \union {x.id} /\ Append(s, x) # <<>>
           /\ \A i \in DOMAIN s : i \in DOMAIN Append(s, x) /\ Append(s, x)[i] = s[i]
<1> DEFINE r == Append(s, x)
           n == Len(s)
<1>1. n \in Nat /\ DOMAIN s = 1..n /\ s \in Seq(Values(s))
    BY ListLen DEF IsList
<1>2. /\ DOMAIN r = 1..(n + 1) /\ r[n + 1] = x /\ \A i \in 1..n : r[i] = s[i]
      /\ r = [i \in 1..(n + 1) |-> r[i]]
    <2>1. s \in Seq(Values(s) \union {x})
        BY <1>1
    <2>2. r \in Seq(Values(s) \union {x}) /\ Len(r) = n + 1
        BY <2>1
    <2>3. r[n + 1] = x /\ \A i \in 1..n : r[i] = s[i]
        BY <1>1, <2>1
    <2>4. DOMAIN r = 1..(n + 1) /\ r = [i \in 1..(n + 1) |-> r[i]]
        <3> HIDE DEF r
        <3> QED BY <1>1, <2>2
    <2> QED BY <2>3, <2>4
<1> HIDE DEF r, n
<1>3. r \in Seq(Values(r))
    BY <1>1, <1>2, ListOf
<1>4. \A i \in 1..(n + 1) : i \in 1..n \/ i = n + 1
    BY <1>1
<1>5. \A i \in 1..(n + 1) : IsItem(r[i])
    BY <1>1, <1>2, <1>4 DEF IsList
<1>6. \A i, j \in 1..(n + 1) : r[i].id = r[j].id => i = j
    <2>1. \A i \in 1..n : r[i].id # x.id
        BY <1>1, <1>2 DEF IdsOf
    <2>2. \A i, j \in 1..n : r[i].id = r[j].id => i = j
        BY <1>1, <1>2 DEF IsList
    <2> QED BY <1>2, <1>4, <2>1, <2>2
<1>7. IdsOf(r) = IdsOf(s) \union {x.id}
    <2>1. \A i \in 1..(n + 1) : r[i].id \in IdsOf(s) \union {x.id}
        BY <1>1, <1>2, <1>4 DEF IdsOf
    <2>2. n + 1 \in DOMAIN r /\ \A i \in DOMAIN s : i \in DOMAIN r
        BY <1>1, <1>2
    <2>3. x.id \in IdsOf(r) /\ \A i \in DOMAIN s : s[i].id \in IdsOf(r)
        BY <1>1, <1>2, <2>2 DEF IdsOf
    <2>4. IdsOf(r) \subseteq IdsOf(s) \union {x.id}
        BY <1>2, <2>1 DEF IdsOf
    <2>5. IdsOf(s) \subseteq IdsOf(r)
        BY <2>3 DEF IdsOf
    <2> QED BY <2>3, <2>4, <2>5
<1>8. r # <<>>
    <2>1. 1 \in DOMAIN r
        BY <1>1, <1>2
    <2> QED BY <2>1
<1>9. \A i \in DOMAIN s : i \in DOMAIN r /\ r[i] = s[i]
    <2>1. \A i \in 1..n : i \in 1..(n + 1)
        BY <1>1
    <2> QED BY <1>1, <1>2, <2>1
<1> QED BY <1>2, <1>3, <1>5, <1>6, <1>7, <1>8, <1>9 DEF IsList, r

\* One item less.
LEMMA CutList ==
    ASSUME NEW s, IsList(s), NEW p \in DOMAIN s
    PROVE  /\ IsList(Cut(s, p)) /\ IdsOf(Cut(s, p)) = IdsOf(s) \ {s[p].id}
           /\ \A j \in DOMAIN Cut(s, p) : \E i \in DOMAIN s : Cut(s, p)[j] = s[i]
<1> DEFINE r == Cut(s, p)
           n == Len(s)
<1>1. n \in Nat /\ DOMAIN s = 1..n /\ n - 1 \in Nat /\ p \in 1..n
    BY ListLen
<1>2. /\ r = [j \in 1..(n - 1) |-> r[j]]
      /\ \A j \in 1..(n - 1) : r[j] = IF j < p THEN s[j] ELSE s[j + 1]
    BY DEF Cut
<1> HIDE DEF r
<1>3. r \in Seq(Values(r)) /\ DOMAIN r = 1..(n - 1)
    BY <1>1, <1>2, ListOf
<1>4. \A j \in 1..(n - 1) : j \in 1..n /\ j + 1 \in 1..n
    BY <1>1
<1>5. \A j \in 1..(n - 1) : \E i \in 1..n : r[j] = s[i] /\ i # p
    BY <1>1, <1>2, <1>4
<1>6. \A i \in 1..n : i # p => \E j \in 1..(n - 1) : r[j] = s[i]
    <2> TAKE i \in 1..n
    <2> HAVE i # p
    <2>1. CASE i < p
        <3>1. i \in 1..(n - 1) /\ r[i] = s[i]
            BY <1>1, <1>2, <2>1
        <3> QED BY <3>1
    <2>2. CASE i > p
        <3>1. i - 1 \in 1..(n - 1) /\ ~(i - 1 < p) /\ (i - 1) + 1 = i
            BY <1>1, <2>2
        <3>2. r[i - 1] = s[i]
            BY <1>2, <3>1
        <3> QED BY <3>1, <3>2
    <2> QED BY <1>1, <2>1, <2>2
<1>7. \A i, j \in 1..(n - 1) : r[i].id = r[j].id => i = j
    <2> TAKE i, j \in 1..(n - 1)
    <2> HAVE r[i].id = r[j].id
    <2> DEFINE a == IF i < p THEN i ELSE i + 1
               b == IF j < p THEN j ELSE j + 1
    <2>1. a \in DOMAIN s /\ b \in DOMAIN s /\ r[i] = s[a] /\ r[j] = s[b]
        BY <1>1, <1>2, <1>4
    <2>2. a = b
        BY <2>1 DEF IsList
    <2> QED BY <1>1, <2>2
<1>8. \A j \in 1..(n - 1) : IsItem(r[j])
    BY <1>1, <1>5 DEF IsList
<1>9. IdsOf(r) = IdsOf(s) \ {s[p].id}
    <2>1. ASSUME NEW id \in IdsOf(r) PROVE id \in IdsOf(s) \ {s[p].id}
        <3>1. PICK j \in 1..(n - 1) : r[j].id = id
            BY <1>3 DEF IdsOf
        <3>2. PICK i \in 1..n : r[j] = s[i] /\ i # p
            BY <1>5
        <3> QED BY <1>1, <3>1, <3>2 DEF IdsOf, IsList
    <2>2. ASSUME NEW id \in IdsOf(s) \ {s[p].id} PROVE id \in IdsOf(r)
        <3>1. PICK i \in 1..n : s[i].id = id
            BY <1>1 DEF IdsOf
        <3>2. i # p
            BY <3>1
        <3>3. PICK j \in 1..(n - 1) : r[j] = s[i]
            BY <1>6, <3>2
        <3> QED BY <1>3, <3>1, <3>3 DEF IdsOf
    <2> QED BY <2>1, <2>2
<1> QED BY <1>1, <1>3, <1>5, <1>7, <1>8, <1>9 DEF IsList, r

\* The same items, in other places or with other numbers.
LEMMA RenumberedList ==
    ASSUME NEW s, IsList(s)
    PROVE  /\ IsList(Renumbered(s)) /\ IdsOf(Renumbered(s)) = IdsOf(s)
           /\ Contents(Renumbered(s)) = Contents(s)
<1> DEFINE r == Renumbered(s)
<1>1. Len(s) \in Nat /\ DOMAIN s = 1..Len(s)
    BY ListLen
<1>2. r = [k \in 1..Len(s) |-> r[k]] /\ \A k \in DOMAIN s : r[k] = [s[k] EXCEPT !.order = k - 1]
    BY <1>1 DEF Renumbered
<1> HIDE DEF r
<1>3. r \in Seq(Values(r)) /\ DOMAIN r = DOMAIN s
    BY <1>1, <1>2, ListOf
<1>4. ASSUME NEW k \in DOMAIN s PROVE IsItem(r[k]) /\ r[k].id = s[k].id /\ Content(r[k]) = Content(s[k])
    <2>1. IsItem(s[k])
        BY DEF IsList
    <2>2. \A v : IsItem([s[k] EXCEPT !.order = v]) /\ [s[k] EXCEPT !.order = v].id = s[k].id
        BY <2>1, FieldChanged, Zenon
    <2>3. \A v : Content([s[k] EXCEPT !.order = v]) = Content(s[k])
        BY <2>1, OrderChanged, Zenon
    <2> QED BY <1>2, <2>2, <2>3, Zenon
<1>5. IsList(r)
    BY <1>3, <1>4 DEF IsList
<1>6. IdsOf(r) = IdsOf(s)
    BY <1>3, <1>4 DEF IdsOf
<1>7. \A i \in DOMAIN r, j \in DOMAIN s : r[i].id = s[j].id => Content(r[i]) = Content(s[j])
    BY <1>3, <1>4 DEF IsList
<1>8. Contents(r) = Contents(s)
    BY <1>5, <1>6, <1>7, SameContents
<1> QED BY <1>5, <1>6, <1>8 DEF r

LEMMA SwapList ==
    ASSUME NEW s, IsList(s), NEW p \in DOMAIN s, NEW q \in DOMAIN s
    PROVE  /\ IsList(Swap(s, p, q)) /\ IdsOf(Swap(s, p, q)) = IdsOf(s)
           /\ Contents(Swap(s, p, q)) = Contents(s)
<1> DEFINE r == Swap(s, p, q)
           At(i) == IF i = q THEN p ELSE IF i = p THEN q ELSE i
<1>1. Len(s) \in Nat /\ DOMAIN s = 1..Len(s)
    BY ListLen
<1>2. r = [i \in 1..Len(s) |-> r[i]] /\ \A i \in DOMAIN s : r[i] = s[At(i)]
    BY <1>1 DEF Swap
<1>3. \A i \in DOMAIN s : At(i) \in DOMAIN s /\ At(At(i)) = i
    OBVIOUS
<1> HIDE DEF r, At
<1>4. r \in Seq(Values(r)) /\ DOMAIN r = DOMAIN s
    BY <1>1, <1>2, ListOf
<1>5. IsList(r)
    <2>1. \A i \in DOMAIN r : IsItem(r[i])
        BY <1>2, <1>3, <1>4 DEF IsList
    <2>2. ASSUME NEW i \in DOMAIN r, NEW j \in DOMAIN r, r[i].id = r[j].id PROVE i = j
        <3>1. /\ At(i) \in DOMAIN s /\ At(j) \in DOMAIN s /\ At(At(i)) = i /\ At(At(j)) = j
              /\ r[i] = s[At(i)] /\ r[j] = s[At(j)]
            BY <1>2, <1>3, <1>4
        <3>2. At(i) = At(j)
            BY <2>2, <3>1 DEF IsList
        <3> QED BY <3>1, <3>2
    <2> QED BY <1>4, <2>1, <2>2 DEF IsList
<1>6. IdsOf(r) = IdsOf(s)
    <2>1. \A i \in DOMAIN s : r[i].id \in IdsOf(s)
        BY <1>2, <1>3 DEF IdsOf
    <2>2. ASSUME NEW i \in DOMAIN s PROVE s[i].id \in IdsOf(r)
        <3>1. At(i) \in DOMAIN r /\ r[At(i)] = s[i]
            BY <1>2, <1>3, <1>4
        <3> QED BY <3>1 DEF IdsOf
    <2>3. IdsOf(r) \subseteq IdsOf(s)
        BY <1>4, <2>1 DEF IdsOf
    <2>4. IdsOf(s) \subseteq IdsOf(r)
        BY <2>2 DEF IdsOf
    <2> QED BY <2>3, <2>4
<1>7. \A i \in DOMAIN r, j \in DOMAIN s : r[i].id = s[j].id => Content(r[i]) = Content(s[j])
    BY <1>2, <1>3, <1>4 DEF IsList
<1>8. Contents(r) = Contents(s)
    BY <1>5, <1>6, <1>7, SameContents
<1> QED BY <1>5, <1>6, <1>8 DEF r


-----------------------------------------------------------------------------
(* The editors: the inductive invariant and the steps of the abstract list *)

Selects(s, id) == IF s = <<>> THEN id = None ELSE id \in IdsOf(s)

\* The ids given so far are 1..(SeedSize + added), and the pane shows a listed item.
ListInv ==
    /\ kind \in Kinds \union {None}
    /\ added \in 0..MaxAdds
    /\ IsList(items)
    /\ IdsOf(items) \subseteq 1..(SeedSize + added)
    /\ Selects(items, selectedId)

ListStep == List!Next \/ UNCHANGED List!vars

LEMMA SelectionFacts ==
    ASSUME NEW s, IsList(s), NEW id, Selects(s, id)
    PROVE  IF DOMAIN Contents(s) = {} THEN id = None ELSE id \in DOMAIN Contents(s)
<1>1. DOMAIN Contents(s) = IdsOf(s)
    BY ContentsFacts
<1>2. IdsOf(s) = {} <=> s = <<>>
    BY EmptyList
<1> QED BY <1>1, <1>2 DEF Selects

\* An editor is mounted, or none.
LEMMA MountStep ==
    ASSUME NEW k \in Kinds \union {None}, MountEditor(k)
    PROVE  ListInv' /\ ListStep
<1>0. SeedSize \in Nat /\ MaxAdds \in Nat
    BY EditorsAssumption DEF EditorsAssumption
<1>1. kind' = k /\ added' = 0 /\ selectedId' = First(items')
    BY DEF MountEditor
<1>2. items' = <<>> \/ (k \in Kinds /\ items' = Seeded(k))
    BY DEF MountEditor
<1>3. IsList(items') /\ IdsOf(items') \subseteq 1..SeedSize
    BY <1>2, EmptyList, SeededList
<1>4. Selects(items', selectedId')
    BY <1>1, <1>3, FirstFacts DEF Selects
<1>5. 0 \in 0..MaxAdds /\ SeedSize + 0 = SeedSize
    BY <1>0
<1>6. ListInv'
    <2>1. added' \in 0..MaxAdds /\ IdsOf(items') \subseteq 1..(SeedSize + added')
        BY <1>1, <1>3, <1>5
    <2> QED BY <1>1, <1>3, <1>4, <2>1 DEF ListInv, Selects, IdsOf, IsList
<1>7. Contents(items') \in SeedContents
    BY <1>2 DEF SeedContents
<1>8. IF DOMAIN Contents(items') = {} THEN selectedId' = None ELSE selectedId' \in DOMAIN Contents(items')
    BY <1>3, <1>4, SelectionFacts
<1>9. List!Open
    BY <1>7, <1>8 DEF List!Open, List!SelectionValid
<1> QED BY <1>6, <1>9 DEF ListStep, List!Next

LEMMA SelectStep ==
    ASSUME ListInv, NEW id \in Ids, onSelect(id)
    PROVE  ListInv' /\ ListStep
<1>1. selectedId' = id /\ items' = items /\ kind' = kind /\ added' = added
    BY DEF onSelect
<1>2. id \in IdsOf(items)
    BY DEF Ids, IdsOf
<1>3. items # <<>>
    BY <1>2, EmptyList
<1>4. ListInv'
    BY <1>1, <1>2, <1>3 DEF ListInv, Selects, IsList, IdsOf
<1>5. List!Select
    <2>1. selectedId' \in DOMAIN Contents(items)
        BY <1>1, <1>2, ContentsFacts DEF ListInv
    <2> QED BY <1>1, <2>1 DEF List!Select
<1> QED BY <1>4, <1>5 DEF ListStep, List!Next

LEMMA AddStep ==
    ASSUME ListInv, add
    PROVE  ListInv' /\ ListStep
<1> DEFINE id == SeedSize + (added + 1)
           x == NewItem(kind, id, Len(items))
<1>0. SeedSize \in Nat /\ MaxAdds \in Nat /\ added \in 0..MaxAdds /\ added < MaxAdds
    BY EditorsAssumption DEF EditorsAssumption, ListInv, add
<1>1. added' = added + 1 /\ items' = Append(items, x) /\ selectedId' = id /\ kind' = kind /\ kind # None
    BY DEF add
<1>2. IsItem(x) /\ x.id = id
    BY <1>1, NewItemFacts DEF ListInv
<1> HIDE DEF x
<1>3. id \in 1..(SeedSize + MaxAdds) /\ id \notin 1..(SeedSize + added) /\ 1..(SeedSize + added) \subseteq 1..id
      /\ id \in 1..id /\ added + 1 \in 0..MaxAdds
    BY <1>0
<1>4. id # None
    BY <1>3, EditorsAssumption DEF EditorsAssumption
<1> HIDE DEF id
<1>5. id \notin IdsOf(items) /\ IsList(items)
    BY <1>3 DEF ListInv
<1>6. /\ IsList(items') /\ IdsOf(items') = IdsOf(items) \union {id} /\ items' # <<>>
      /\ \A i \in DOMAIN items : i \in DOMAIN items' /\ items'[i] = items[i]
    BY <1>1, <1>2, <1>5, AppendList
<1>7. ListInv'
    <2>1. kind' \in Kinds \union {None} /\ added' \in 0..MaxAdds
        BY <1>1, <1>3 DEF ListInv
    <2>2. IdsOf(items') \subseteq 1..id
        BY <1>3, <1>6 DEF ListInv
    <2>3. id = SeedSize + added'
        BY <1>1 DEF id
    <2>4. Selects(items', selectedId')
        BY <1>1, <1>6 DEF Selects
    <2> QED BY <1>6, <2>1, <2>2, <2>3, <2>4 DEF ListInv, Selects, IsList, IdsOf
<1>8. DOMAIN Contents(items) = IdsOf(items) /\ DOMAIN Contents(items') = IdsOf(items')
    BY <1>5, <1>6, ContentsFacts
<1>9. ASSUME NEW n \in IdsOf(items) PROVE Contents(items')[n] = Contents(items)[n]
    <2>1. PICK i \in DOMAIN items : items[i].id = n
        BY DEF IdsOf
    <2>2. Contents(items)[items[i].id] = Content(items[i])
        BY <1>5, ContentsFacts
    <2>3. Contents(items')[items'[i].id] = Content(items'[i])
        BY <1>6, ContentsFacts
    <2> QED BY <1>6, <2>1, <2>2, <2>3
<1>10. List!Add
    BY <1>1, <1>4, <1>5, <1>6, <1>8, <1>9 DEF List!Add, List!Kept
<1> QED BY <1>7, <1>10 DEF ListStep, List!Next

\* The same items with the same ids, of which only the one on display may have changed.
LEMMA UpdateStep ==
    ASSUME ListInv, IsList(items'), IdsOf(items') = IdsOf(items),
           selectedId' = selectedId, kind' = kind, added' = added,
           \A n \in IdsOf(items) : n # selectedId => Contents(items')[n] = Contents(items)[n]
    PROVE  ListInv' /\ ListStep
<1>1. items' = <<>> <=> items = <<>>
    BY EmptyList DEF ListInv
<1>2. Selects(items', selectedId')
    BY <1>1 DEF ListInv, Selects
<1>3. ListInv'
    <2>1. IdsOf(items') \subseteq 1..(SeedSize + added')
        BY DEF ListInv
    <2>2. kind' \in Kinds \union {None} /\ added' \in 0..MaxAdds
        BY DEF ListInv
    <2> QED BY <1>2, <2>1, <2>2 DEF ListInv, Selects, IsList, IdsOf
<1>4. DOMAIN Contents(items) = IdsOf(items) /\ DOMAIN Contents(items') = IdsOf(items')
    BY ContentsFacts DEF ListInv
<1>5. List!Update
    BY <1>4 DEF List!Update, List!Kept
<1> QED BY <1>3, <1>5 DEF ListStep, List!Next

LEMMA ItemFacts ==
    ASSUME ListInv, items # <<>>
    PROVE  Item(selectedId) \in Values(items) /\ Item(selectedId).id = selectedId /\ IsItem(Item(selectedId))
<1>1. PICK i \in DOMAIN items : items[i].id = selectedId
    BY DEF ListInv, Selects, IdsOf
<1>2. items[i] \in Values(items)
    BY DEF Values
<1>3. Item(selectedId) \in Values(items) /\ Item(selectedId).id = selectedId
    BY <1>1, <1>2 DEF Item
<1> QED BY <1>3 DEF Values, ListInv, IsList

LEMMA ReplacedStep ==
    ASSUME ListInv, NEW x, items # <<>> => IsItem(x) /\ x.id = selectedId, items' = Replaced(x),
           selectedId' = selectedId, kind' = kind, added' = added
    PROVE  ListInv' /\ ListStep
<1>1. Len(items) \in Nat /\ DOMAIN items = 1..Len(items) /\ IsList(items)
    BY ListLen DEF ListInv
<1>2. /\ items' = [i \in 1..Len(items) |-> items'[i]]
      /\ \A i \in DOMAIN items : items'[i] = IF items[i].id = selectedId THEN x ELSE items[i]
    BY <1>1 DEF Replaced
<1>3. items' \in Seq(Values(items')) /\ DOMAIN items' = DOMAIN items
    BY <1>1, <1>2, ListOf
<1>4. ASSUME NEW i \in DOMAIN items
      PROVE  IsItem(items'[i]) /\ items'[i].id = items[i].id
    <2>1. items # <<>>
        OBVIOUS
    <2> QED BY <1>1, <1>2, <2>1 DEF IsList
<1>5. IsList(items')
    BY <1>1, <1>3, <1>4 DEF IsList
<1>6. IdsOf(items') = IdsOf(items)
    BY <1>3, <1>4 DEF IdsOf
<1>7. ASSUME NEW n \in IdsOf(items), n # selectedId PROVE Contents(items')[n] = Contents(items)[n]
    <2>1. PICK i \in DOMAIN items : items[i].id = n
        BY DEF IdsOf
    <2>2. items'[i] = items[i]
        BY <1>2, <1>7, <2>1
    <2>3. Contents(items)[items[i].id] = Content(items[i])
        BY <1>1, ContentsFacts
    <2>4. Contents(items')[items'[i].id] = Content(items'[i])
        BY <1>3, <1>5, ContentsFacts
    <2> QED BY <2>1, <2>2, <2>3, <2>4
<1> QED BY <1>5, <1>6, <1>7, UpdateStep

LEMMA PositionFacts ==
    ASSUME ListInv, items # <<>>
    PROVE  Position \in DOMAIN items /\ items[Position].id = selectedId
<1>1. PICK i \in DOMAIN items : items[i].id = selectedId
    BY DEF ListInv, Selects, IdsOf
<1> QED BY <1>1 DEF Position

LEMMA RemoveStep ==
    ASSUME ListInv, remove
    PROVE  ListInv' /\ ListStep
<1> DEFINE next == Cut(items, Position)
<1>1. items # <<>> /\ IsList(items) /\ selectedId \in IdsOf(items)
    BY DEF remove, ListInv, Selects
<1>2. Position \in DOMAIN items /\ items[Position].id = selectedId
    BY <1>1, PositionFacts
<1>3. /\ IsList(next) /\ IdsOf(next) = IdsOf(items) \ {selectedId}
      /\ \A j \in DOMAIN next : \E i \in DOMAIN items : next[j] = items[i]
    BY <1>1, <1>2, CutList
<1>4. items' \in {next, Renumbered(next)} /\ selectedId' = First(next) /\ kind' = kind /\ added' = added
    BY DEF remove
<1> HIDE DEF next
<1>5. IsList(items') /\ IdsOf(items') = IdsOf(next) /\ Contents(items') = Contents(next)
    BY <1>3, <1>4, RenumberedList
<1>6. Selects(items', selectedId')
    <2>1. items' = <<>> <=> next = <<>>
        BY <1>3, <1>5, EmptyList
    <2> QED BY <1>3, <1>4, <1>5, <2>1, FirstFacts DEF Selects
<1>7. ListInv'
    <2>1. kind' \in Kinds \union {None} /\ added' \in 0..MaxAdds /\ IdsOf(items') \subseteq 1..(SeedSize + added')
        BY <1>3, <1>4, <1>5 DEF ListInv
    <2> QED BY <1>5, <1>6, <2>1 DEF ListInv, Selects, IsList, IdsOf
<1>8. ASSUME NEW n \in IdsOf(next) PROVE Contents(items')[n] = Contents(items)[n]
    <2>1. PICK j \in DOMAIN next : next[j].id = n
        BY DEF IdsOf
    <2>2. PICK i \in DOMAIN items : next[j] = items[i]
        BY <1>3
    <2>3. Contents(next)[next[j].id] = Content(next[j])
        BY <1>3, ContentsFacts
    <2>4. Contents(items)[items[i].id] = Content(items[i])
        BY <1>1, ContentsFacts
    <2> QED BY <1>5, <2>1, <2>2, <2>3, <2>4
<1>9. DOMAIN Contents(items) = IdsOf(items) /\ DOMAIN Contents(items') = IdsOf(items) \ {selectedId}
    BY <1>1, <1>3, <1>5, ContentsFacts
<1>10. IF DOMAIN Contents(items') = {} THEN selectedId' = None ELSE selectedId' \in DOMAIN Contents(items')
    BY <1>5, <1>6, SelectionFacts
<1>11. List!Remove
    BY <1>1, <1>3, <1>8, <1>9, <1>10 DEF List!Remove, List!Kept, List!SelectionValid
<1> QED BY <1>7, <1>11 DEF ListStep, List!Next

LEMMA MoveStep ==
    ASSUME ListInv, NEW dir, moveStage(dir)
    PROVE  ListInv' /\ ListStep
<1> DEFINE r == Swap(items, Position, Position + dir)
<1>1. items # <<>> /\ IsList(items)
    BY DEF moveStage, ListInv, Selects
<1>2. Position \in DOMAIN items /\ Position + dir \in DOMAIN items
    BY <1>1, PositionFacts DEF moveStage
<1>3. IsList(r) /\ IdsOf(r) = IdsOf(items) /\ Contents(r) = Contents(items)
    BY <1>1, <1>2, SwapList
<1>4. items' = Renumbered(r) /\ selectedId' = selectedId /\ kind' = kind /\ added' = added
    BY DEF moveStage
<1> HIDE DEF r
<1>5. IsList(items') /\ IdsOf(items') = IdsOf(items) /\ Contents(items') = Contents(items)
    BY <1>3, <1>4, RenumberedList
<1> QED BY <1>4, <1>5, UpdateStep


LEMMA ListKept ==
    ASSUME ListInv, kind' = kind, items' = items, selectedId' = selectedId, added' = added
    PROVE  ListInv' /\ ListStep
<1>1. ListInv'
    BY DEF ListInv, Selects, IsList, IdsOf
<1>2. UNCHANGED List!vars
    BY DEF List!vars
<1> QED BY <1>1, <1>2 DEF ListStep

LEMMA EditStep ==
    ASSUME ListInv, Edit
    PROVE  ListInv' /\ ListStep
<1>1. CASE update
    <2>1. items # <<>>
        BY <1>1 DEF update, ListInv, Selects
    <2>2. PICK x \in Detail(kind, Item(selectedId)) : items' = Replaced(x)
        BY <1>1 DEF update
    <2>3. IsItem(x) /\ x.id = selectedId
        BY <2>1, ItemFacts, DetailKeeps
    <2>4. selectedId' = selectedId /\ kind' = kind /\ added' = added
        BY <1>1 DEF update
    <2> QED BY <2>2, <2>3, <2>4, ReplacedStep
<1>2. CASE addEntry
    <2> DEFINE l == Append(Item(selectedId).list, draft)
               x == [Item(selectedId) EXCEPT !.list = l]
    <2>1. items' = Replaced(x) /\ selectedId' = selectedId /\ kind' = kind /\ added' = added
        BY <1>2 DEF addEntry
    <2>2. items # <<>> => IsItem(x) /\ x.id = selectedId
        <3> HIDE DEF l
        <3> QED BY ItemFacts, FieldChanged
    <2> HIDE DEF x
    <2> QED BY <2>1, <2>2, ReplacedStep
<1>3. CASE typeDraft \/ sendTest \/ \E open \in BOOLEAN : setAdding(open)
    <2>1. kind' = kind /\ items' = items /\ selectedId' = selectedId /\ added' = added
        BY <1>3 DEF typeDraft, sendTest, setAdding
    <2> QED BY <2>1, ListKept
<1> QED BY <1>1, <1>2, <1>3, SelectStep, AddStep, RemoveStep, MoveStep DEF Edit

LEMMA ListNext == ListInv /\ [Next]_vars => ListInv' /\ ListStep
<1> SUFFICES ASSUME ListInv, [Next]_vars PROVE ListInv' /\ ListStep
    OBVIOUS
<1>1. ASSUME UNCHANGED editorVars PROVE ListInv' /\ ListStep
    <2>1. kind' = kind /\ items' = items /\ selectedId' = selectedId /\ added' = added
        BY <1>1 DEF editorVars
    <2> QED BY <2>1, ListKept
<1>2. ASSUME NEW n, MountView(n) PROVE ListInv' /\ ListStep
    <2>1. EditorOf(n) \in Kinds \union {None}
        BY DEF EditorOf, Kinds
    <2> QED BY <1>2, <2>1, MountStep DEF MountView
<1>3. CASE App
    <2>1. ASSUME NEW n \in Navs, onNav(n) PROVE ListInv' /\ ListStep
        BY <1>1, <1>2, <2>1 DEF onNav, Viewed
    <2>2. CASE BackToTimeline
        BY <1>2, <2>2 DEF BackToTimeline
    <2>3. CASE onHash
        BY <1>1, <1>2, <2>3, MountStep DEF onHash
    <2>4. ASSUME \/ \E r \in Rollouts : onOpenRollout(r)
                 \/ closeDrawer \/ openFullPage
                 \/ \E h \in Rollouts \union {None, Unknown} : ChangeHash(h)
          PROVE  ListInv' /\ ListStep
        BY <1>1, <2>4 DEF onOpenRollout, closeDrawer, openFullPage, ChangeHash
    <2> QED BY <1>3, <2>1, <2>2, <2>3, <2>4 DEF App
<1>4. CASE Execute \/ Dialogs
    BY <1>1, <1>4 DEF Execute, setDone, setFailed, editReason, saveReason, cancelReason, reschedule,
                      RescheduleConfirm, PanelStep, Dialogs, onCreate, CreateRolloutModal, CreateLockModal, ModalStep
<1>5. CASE Pages
    <2>1. ASSUME NEW t \in MD_TABS, MasterDataView(t) PROVE ListInv' /\ ListStep
        BY <2>1, MountStep DEF MasterDataView, MD_TABS
    <2>2. CASE EditorStep
        BY <2>2, EditStep DEF EditorStep
    <2>3. CASE EditorTimer
        BY <2>3, ListKept DEF EditorTimer, TestEnds
    <2>4. ASSUME \/ \E t \in {"rest", "mcp", "keys"} : setTab(t)
                 \/ \E s \in SectionNames : ScrollSpy(s)
                 \/ openGenerate \/ GenerateTokenModal \/ retryThrows
          PROVE  ListInv' /\ ListStep
        BY <1>1, <2>4 DEF retryThrows, setTab, ScrollSpy, openGenerate, GenerateTokenModal, DocsStep
    <2> QED BY <1>5, <2>1, <2>2, <2>3, <2>4 DEF Pages
<1>6. CASE UNCHANGED vars
    BY <1>1, <1>6 DEF vars
<1> QED BY <1>3, <1>4, <1>5, <1>6 DEF Next

LEMMA ListInit == Init => ListInv /\ List!Init
<1> SUFFICES ASSUME Init PROVE ListInv /\ List!Init
    OBVIOUS
<1>1. kind = None /\ items = <<>> /\ selectedId = None /\ added = 0
    BY DEF Init
<1>2. MaxAdds \in Nat
    BY EditorsAssumption DEF EditorsAssumption
<1>3. IsList(items) /\ IdsOf(items) = {} /\ Selects(items, selectedId)
    BY <1>1, EmptyList DEF Selects
<1>4. ListInv
    <2>1. added \in 0..MaxAdds
        BY <1>1, <1>2
    <2> QED BY <1>1, <1>3, <2>1 DEF ListInv
<1>5. Contents(items) \in SeedContents
    BY <1>1 DEF SeedContents
<1>6. IF DOMAIN Contents(items) = {} THEN selectedId = None ELSE selectedId \in DOMAIN Contents(items)
    BY <1>3, SelectionFacts
<1> QED BY <1>4, <1>5, <1>6 DEF List!Init, List!SelectionValid

\* Every editor implements the abstract list with a detail pane, for any seeds, texts,
\* actors, chips and stages: an item that is added is shown at once, a change made in the
\* pane reaches the item on display and no other, a removed item is gone and the item on
\* display is always one of the list (MDMasterDetail and the editors of master-data.jsx,
\* whose panes are not keyed and whose stages are renumbered).
THEOREM PrototypeImplementsMasterDetail == Spec => EditorsSpec
<1>1. Spec => []ListInv
    BY ListInit, ListNext, PTL DEF Spec
<1>2. ListInv /\ [Next]_vars => [List!Next]_(List!vars)
    BY ListNext DEF ListStep
<1>3. Init => List!Init
    BY ListInit
<1> QED BY <1>1, <1>2, <1>3, PTL DEF Spec, EditorsSpec, List!Spec
=============================================================================
