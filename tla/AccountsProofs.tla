--------------------------- MODULE AccountsProofs ---------------------------
(***************************************************************************)
(* The age of an administrator's rights, the internal texts and the        *)
(* cookies of a sign-in, for any number of users, tabs and sign-ins.       *)
(***************************************************************************)
EXTENDS Accounts, TLAPS

-----------------------------------------------------------------------------
(* Requests and cookies *)

Jar == [state : Flows, nonce : Flows, session : Session \union {None}]
Me == [user : Users, role : Roles]

LEMMA PlaceType ==
    ASSUME NEW l \in Places, NEW n \in Flows, NEW u \in Users \union {None},
           NEW s \in Flows, NEW o \in Flows
    PROVE  /\ Place(l, n, u, s, o) \in Request
           /\ Place(l, n, u, s, o).at = l
           /\ Place(l, n, u, s, o).flow = n
           /\ Place(l, n, u, s, o).user = u
           /\ Place(l, n, u, s, o).role = "readonly"
           /\ Place(l, n, u, s, o).session = None
BY DEF Place, Request, Roles

LEMMA MovedType ==
    ASSUME NEW r \in Request, NEW l \in Places
    PROVE  /\ [r EXCEPT !.at = l] \in Request
           /\ [r EXCEPT !.at = l].at = l
           /\ [r EXCEPT !.at = l].flow = r.flow
           /\ [r EXCEPT !.at = l].user = r.user
           /\ [r EXCEPT !.at = l].session = r.session
BY DEF Request

LEMMA RequestFields ==
    ASSUME NEW r \in Request
    PROVE  /\ r.at \in Places /\ r.flow \in Flows /\ r.user \in Users \union {None}
           /\ r.role \in Roles /\ r.session \in Session \union {None}
BY DEF Request

LEMMA JarFields ==
    ASSUME NEW j \in Jar
    PROVE  j.state \in Flows /\ j.nonce \in Flows /\ j.session \in Session \union {None}
BY DEF Jar

LEMMA JarFlow ==
    ASSUME NEW j \in Jar, NEW n \in Flows
    PROVE  /\ [j EXCEPT !.state = n, !.nonce = n] \in Jar
           /\ [j EXCEPT !.state = n, !.nonce = n].session = j.session
           /\ [j EXCEPT !.state = n, !.nonce = n].state = n
           /\ [j EXCEPT !.state = n, !.nonce = n].nonce = n
BY DEF Jar

LEMMA JarNoSession ==
    ASSUME NEW j \in Jar
    PROVE  /\ [j EXCEPT !.session = None] \in Jar
           /\ [j EXCEPT !.session = None].session = None
           /\ [j EXCEPT !.session = None].state = j.state
           /\ [j EXCEPT !.session = None].nonce = j.nonce
BY DEF Jar

LEMMA JarAnswered ==
    ASSUME NEW s \in Session \union {None}
    PROVE  [state |-> 0, nonce |-> 0, session |-> s] \in Jar
BY AccountsAssumption DEF AccountsAssumption, Jar, Flows

\* What BrowserTypeOK says of one request.
GoodRequest(r) ==
    /\ r \in Request
    /\ r.at \in Callback \union {"failed"} => r.user \in Users
    /\ r.session # None => r.at = "respond"

NavOK == nav \in [Tabs -> Request] /\ \A t \in Tabs : GoodRequest(nav[t])

AppOK ==
    /\ me \in [Tabs -> Me \union {None}]
    /\ view \in [Tabs -> Texts \union {"none"}]

LEMMA BrowserParts == BrowserTypeOK <=> jar \in Jar /\ NavOK /\ AppOK
BY DEF BrowserTypeOK, NavOK, AppOK, GoodRequest, Jar, Me

LEMMA BrowserPartsNext == jar' \in Jar /\ NavOK' /\ AppOK' => BrowserTypeOK'
BY DEF BrowserTypeOK, NavOK, AppOK, GoodRequest, Jar, Me

LEMMA PageGood ==
    ASSUME NEW l \in {"app", "home"}
    PROVE  GoodRequest(Page(l))
<1>1. 0 \in Flows
    BY AccountsAssumption DEF AccountsAssumption, Flows
<1>2. l \in Places
    BY DEF Places
<1>3. /\ Page(l) \in Request /\ Page(l).at = l /\ Page(l).session = None
    BY <1>1, <1>2, PlaceType DEF Page
<1> QED BY <1>3 DEF GoodRequest, Callback

LEMMA PlaceGood ==
    ASSUME NEW l \in Places \ {"respond"}, NEW n \in Flows, NEW u \in Users \union {None},
           NEW s \in Flows, NEW o \in Flows, u \in Users \/ l = "idp"
    PROVE  GoodRequest(Place(l, n, u, s, o))
<1>1. /\ Place(l, n, u, s, o) \in Request /\ Place(l, n, u, s, o).at = l
      /\ Place(l, n, u, s, o).user = u /\ Place(l, n, u, s, o).session = None
    BY PlaceType
<1> QED BY <1>1 DEF GoodRequest, Callback

LEMMA NavStep ==
    ASSUME NavOK, NEW t \in Tabs, NEW r, GoodRequest(r), nav' = [nav EXCEPT ![t] = r]
    PROVE  NavOK'
<1>1. nav' \in [Tabs -> Request]
    BY DEF NavOK, GoodRequest
<1>2. \A q \in Tabs : nav'[q] = IF q = t THEN r ELSE nav[q]
    BY DEF NavOK
<1>3. \A q \in Tabs : GoodRequest(nav'[q])
    BY <1>2 DEF NavOK
<1> QED BY <1>1, <1>3 DEF NavOK, GoodRequest

LEMMA IssuedType ==
    ASSUME ServerTypeOK, NEW u \in Users, NEW r \in Roles
    PROVE  /\ Issued(u, r) \in Session
           /\ Issued(u, r).user = u /\ Issued(u, r).role = r
           /\ Issued(u, r).exp = now + MaxAge
BY AccountsAssumption DEF AccountsAssumption, ServerTypeOK, Issued, Session

LEMMA RankedType ==
    ASSUME NEW c \in Request, NEW ro \in Roles
    PROVE  /\ Ranked(c, ro) \in Request
           /\ Ranked(c, ro).at = "upsert"
           /\ Ranked(c, ro).role = ro
           /\ Ranked(c, ro).flow = c.flow
           /\ Ranked(c, ro).user = c.user
           /\ Ranked(c, ro).session = c.session
BY DEF Ranked, Request, Places, Callback

LEMMA SealedType ==
    ASSUME ServerTypeOK, NEW c \in Request, c.user \in Users
    PROVE  /\ Sealed(c) \in Request
           /\ Sealed(c).at = "respond"
           /\ Sealed(c).flow = c.flow
           /\ Sealed(c).user = c.user
           /\ Sealed(c).session = Issued(c.user, c.role)
<1>1. Issued(c.user, c.role) \in Session
    BY IssuedType DEF Request
<1> QED BY <1>1 DEF Sealed, Request, Places, Callback

LEMMA ClassifyType == \A u : Classify(u) \in Roles
BY DEF Classify, Roles

\* The session of a request is the cookie's, and it has not expired.
LEMMA SessionRead ==
    ASSUME jar \in Jar, ReadSession # None
    PROVE  ReadSession = jar.session /\ ReadSession \in Session /\ ~(now > ReadSession.exp)
BY DEF Jar, ReadSession

LEMMA SessionFields ==
    ASSUME NEW s \in Session
    PROVE  s.user \in Users /\ s.role \in Roles /\ s.exp \in Int
BY DEF Session

LEMMA ShownType ==
    ASSUME NEW s \in Session
    PROVE  Shown(s) \in Me /\ Shown(s).role = s.role
BY DEF Session, Shown, Me

LEMMA PlacesKnown ==
    /\ {"app", "home", "idp", "failed", "exchange", "resolve", "upsert", "respond"} \subseteq Places
    /\ 0 \in Flows
BY AccountsAssumption DEF AccountsAssumption, Flows, Places, Callback

-----------------------------------------------------------------------------
(* Type correctness *)

LEMMA TypeInit == Init => TypeOK
<1> SUFFICES ASSUME Init PROVE TypeOK
    OBVIOUS
<1>1. ServerTypeOK
    BY AccountsAssumption DEF AccountsAssumption, Init, ServerTypeOK, Texts
<1>2. jar \in Jar
    <2>1. CASE jar = [state |-> 0, nonce |-> 0, session |-> None]
        BY <2>1, JarAnswered
    <2>2. ASSUME NEW u \in Users,
                 jar = [state |-> 0, nonce |-> 0, session |-> Issued(u, Classify(u))]
          PROVE  jar \in Jar
        BY <2>2, <1>1, IssuedType, ClassifyType, JarAnswered
    <2> QED BY <2>1, <2>2 DEF Init
<1>3. NavOK
    BY PageGood DEF Init, NavOK, GoodRequest
<1>4. AppOK
    BY DEF Init, AppOK
<1>5. logins \in Flows /\ faults \in 0..MaxFaults /\ codes \subseteq Flows /\ answered \subseteq Flows
    BY AccountsAssumption DEF AccountsAssumption, Init, Flows
<1>6. FlowTypeOK
    BY <1>5 DEF Init, FlowTypeOK
<1> QED BY <1>1, <1>2, <1>3, <1>4, <1>6, BrowserParts DEF TypeOK

\* A step that leaves the server and the counters alone.
LEMMA ServerStutter ==
    ASSUME ServerTypeOK, UNCHANGED <<now, dirVars, actors, stored, doneBy>>
    PROVE  ServerTypeOK'
BY DEF ServerTypeOK, dirVars

LEMMA FlowStutter ==
    ASSUME FlowTypeOK, UNCHANGED <<flowVars, mixed>>, UNCHANGED faults \/ Fault
    PROVE  FlowTypeOK'
<1>1. faults' \in 0..MaxFaults
    BY AccountsAssumption DEF AccountsAssumption, FlowTypeOK, Fault
<1> QED BY <1>1 DEF FlowTypeOK, flowVars

LEMMA AppStutter == ASSUME AppOK, UNCHANGED <<me, view>> PROVE AppOK'
BY DEF AppOK

LEMMA NavStutter == ASSUME NavOK, UNCHANGED nav PROVE NavOK'
BY DEF NavOK, GoodRequest

LEMMA TypeLogin ==
    ASSUME TypeOK, NEW t \in Tabs, Login(t)
    PROVE  TypeOK'
<1> USE DEF TypeOK
<1>1. logins' \in Flows
    BY AccountsAssumption DEF AccountsAssumption, FlowTypeOK, Flows, Login
<1>2. ServerTypeOK'
    BY ServerStutter DEF Login, Leave
<1>3. jar' \in Jar
    BY <1>1, JarFlow, BrowserParts DEF Login
<1>4. NavOK'
    BY <1>1, PlaceGood, PlacesKnown, NavStep, BrowserParts DEF Login
<1>5. AppOK'
    BY BrowserParts DEF Login, Leave, AppOK
<1>6. FlowTypeOK'
    BY <1>1 DEF Login, Leave, FlowTypeOK
<1> QED BY <1>2, <1>3, <1>4, <1>5, <1>6, BrowserPartsNext

LEMMA TypeSignIn ==
    ASSUME TypeOK, NEW t \in Tabs, SignIn(t) \/ Resend(t)
    PROVE  TypeOK'
<1> USE DEF TypeOK
<1>0. nav[t] \in Request /\ nav[t].flow \in Flows /\ jar.state \in Flows /\ jar.nonce \in Flows
    BY BrowserParts, RequestFields, JarFields DEF NavOK
<1>1. ServerTypeOK'
    BY ServerStutter DEF SignIn, Resend, appVars
<1>2. jar' \in Jar
    BY BrowserParts DEF SignIn, Resend
<1>3. NavOK'
    <2>1. CASE SignIn(t)
        <3>1. PICK u \in Users : nav' = [nav EXCEPT ![t] = Sent(nav[t].flow, u)]
            BY <2>1 DEF SignIn
        <3>2. GoodRequest(Sent(nav[t].flow, u))
            BY <1>0, PlaceGood, PlacesKnown DEF Sent
        <3> QED BY <3>1, <3>2, NavStep, BrowserParts
    <2>2. CASE Resend(t)
        <3>1. nav[t].user \in Users
            BY <2>2, BrowserParts DEF NavOK, GoodRequest, Resend
        <3>2. GoodRequest(Sent(nav[t].flow, nav[t].user))
            BY <1>0, <3>1, PlaceGood, PlacesKnown DEF Sent
        <3> QED BY <2>2, <3>2, NavStep, BrowserParts DEF Resend
    <2> QED BY <2>1, <2>2
<1>4. AppOK'
    BY AppStutter, BrowserParts DEF SignIn, Resend, appVars
<1>5. FlowTypeOK'
    <2>1. CASE SignIn(t)
        BY <2>1, <1>0 DEF SignIn, FlowTypeOK, appVars
    <2>2. CASE Resend(t)
        BY <2>2, FlowStutter DEF Resend, appVars
    <2> QED BY <2>1, <2>2
<1> QED BY <1>1, <1>2, <1>3, <1>4, <1>5, BrowserPartsNext

LEMMA TypeCallback ==
    ASSUME TypeOK, NEW t \in Tabs, Exchange(t) \/ Resolve(t) \/ UpsertActor(t)
    PROVE  TypeOK'
<1> USE DEF TypeOK
<1>0. /\ nav[t] \in Request /\ nav[t].flow \in Flows /\ nav[t].session = None
      /\ nav[t].user \in Users /\ nav[t].role \in Roles
    BY BrowserParts, RequestFields DEF NavOK, GoodRequest, Callback, Exchange, Resolve, UpsertActor
<1>1. ServerTypeOK'
    <2>1. CASE Exchange(t) \/ Resolve(t)
        BY <2>1, ServerStutter DEF Exchange, Resolve, appVars
    <2>2. CASE UpsertActor(t)
        <3>1. actors' \subseteq Users /\ actors \subseteq actors'
            BY <2>2, <1>0 DEF UpsertActor, ServerTypeOK
        <3> QED BY <2>2, <3>1 DEF UpsertActor, ServerTypeOK, dirVars, appVars
    <2> QED BY <2>1, <2>2
<1>2. jar' \in Jar
    BY BrowserParts DEF Exchange, Resolve, UpsertActor
<1>3. NavOK'
    <2>1. CASE Exchange(t)
        <3>1. PICK l \in {"resolve", "respond"} : nav' = [nav EXCEPT ![t].at = l]
            BY <2>1 DEF Exchange, At
        <3>2. GoodRequest([nav[t] EXCEPT !.at = l])
            BY <1>0, MovedType, PlacesKnown DEF GoodRequest
        <3>3. nav' = [nav EXCEPT ![t] = [nav[t] EXCEPT !.at = l]]
            BY <3>1
        <3> QED BY <3>2, <3>3, NavStep, BrowserParts
    <2>2. CASE Resolve(t)
        <3>1. PICK r \in Roles : nav' = [nav EXCEPT ![t] = Ranked(nav[t], r)]
            BY <2>2, ClassifyType DEF Resolve, Roles
        <3>2. GoodRequest(Ranked(nav[t], r))
            BY <1>0, RankedType DEF GoodRequest
        <3> QED BY <3>1, <3>2, NavStep, BrowserParts
    <2>3. CASE UpsertActor(t)
        <3>1. GoodRequest(Sealed(nav[t]))
            BY <1>0, SealedType DEF GoodRequest
        <3> QED BY <2>3, <3>1, NavStep, BrowserParts DEF UpsertActor
    <2> QED BY <2>1, <2>2, <2>3
<1>4. AppOK'
    BY AppStutter, BrowserParts DEF Exchange, Resolve, UpsertActor, appVars
<1>5. FlowTypeOK'
    <2>1. CASE Exchange(t)
        <3>1. codes' \subseteq Flows
            BY <2>1 DEF Exchange, FlowTypeOK
        <3>2. faults' \in 0..MaxFaults
            BY <2>1, AccountsAssumption DEF AccountsAssumption, Exchange, FlowTypeOK, Fault
        <3> QED BY <2>1, <3>1, <3>2 DEF Exchange, FlowTypeOK, appVars
    <2>2. CASE Resolve(t)
        BY <2>2, FlowStutter DEF Resolve, appVars
    <2>3. CASE UpsertActor(t)
        BY <2>3, FlowStutter DEF UpsertActor, appVars
    <2> QED BY <2>1, <2>2, <2>3
<1> QED BY <1>1, <1>2, <1>3, <1>4, <1>5, BrowserPartsNext

LEMMA TypeRespond ==
    ASSUME TypeOK, NEW t \in Tabs, Respond(t)
    PROVE  TypeOK'
<1> USE DEF TypeOK
<1>0. /\ nav[t] \in Request /\ nav[t].flow \in Flows /\ nav[t].user \in Users
      /\ nav[t].session \in Session \union {None}
    BY BrowserParts, RequestFields DEF NavOK, GoodRequest, Callback, Respond
<1>1. ServerTypeOK'
    BY ServerStutter DEF Respond, appVars
<1>2. jar' \in Jar
    BY <1>0, JarFields, JarAnswered, BrowserParts DEF Respond
<1>3. NavOK'
    <2>1. CASE nav[t].session = None
        <3>1. GoodRequest(Place("failed", nav[t].flow, nav[t].user, 0, 0))
            BY <1>0, PlaceGood, PlacesKnown
        <3>2. nav' = [nav EXCEPT ![t] = Place("failed", nav[t].flow, nav[t].user, 0, 0)]
            BY <2>1, BrowserParts DEF Respond, Land, NavOK
        <3> QED BY <3>1, <3>2, NavStep, BrowserParts
    <2>2. CASE nav[t].session # None
        <3>1. nav' = [nav EXCEPT ![t] = Page("home")]
            BY <2>2, BrowserParts DEF Respond, Land, NavOK
        <3> QED BY <3>1, PageGood, NavStep, BrowserParts
    <2> QED BY <2>1, <2>2
<1>4. AppOK'
    BY AppStutter, BrowserParts DEF Respond, appVars
<1>5. FlowTypeOK'
    BY <1>0 DEF Respond, FlowTypeOK, appVars
<1> QED BY <1>1, <1>2, <1>3, <1>4, <1>5, BrowserPartsNext

LEMMA TypeApp ==
    ASSUME TypeOK, NEW t \in Tabs,
           Logout(t) \/ Boot(t) \/ Unauthenticated(t) \/ Fetch(t)
    PROVE  TypeOK'
<1> USE DEF TypeOK
<1>1. ServerTypeOK'
    BY ServerStutter DEF Logout, Boot, Unauthenticated, Fetch, appVars
<1>2. jar' \in Jar
    BY JarNoSession, BrowserParts DEF Logout, Boot, Unauthenticated, Fetch
<1>3. NavOK'
    BY PageGood, NavStep, NavStutter, BrowserParts DEF Logout, Boot, Unauthenticated, Fetch
<1>4. AppOK'
    <2>1. CASE Logout(t)
        BY <2>1, AppStutter, BrowserParts DEF Logout, appVars
    <2>2. CASE Boot(t)
        <3>1. ReadSession # None => Shown(ReadSession) \in Me
            BY SessionRead, ShownType, BrowserParts
        <3> QED BY <2>2, <3>1, BrowserParts DEF Boot, LoadUser, AppOK
    <2>3. CASE Unauthenticated(t)
        BY <2>3, BrowserParts DEF Unauthenticated, AppOK
    <2>4. CASE Fetch(t)
        BY <2>4, BrowserParts DEF Fetch, StripInternal, AppOK, ServerTypeOK, Texts
    <2> QED BY <2>1, <2>2, <2>3, <2>4
<1>5. FlowTypeOK'
    <2>1. CASE Logout(t) \/ Boot(t) \/ Unauthenticated(t)
        BY <2>1, FlowStutter DEF Logout, Boot, LoadUser, Unauthenticated, appVars
    <2>2. CASE Fetch(t)
        <3>1. mixed' \in BOOLEAN
            BY <2>2 DEF Fetch
        <3> QED BY <2>2, <3>1 DEF Fetch, FlowTypeOK, flowVars
    <2> QED BY <2>1, <2>2
<1> QED BY <1>1, <1>2, <1>3, <1>4, <1>5, BrowserPartsNext

LEMMA TypeServer ==
    ASSUME TypeOK,
           \/ \E t \in Tabs : Save(t) \/ MarkTask(t)
           \/ \E u \in Users : ChangeGroups(u)
           \/ Tick
    PROVE  TypeOK'
<1> USE DEF TypeOK
<1>1. ServerTypeOK'
    <2>1. ASSUME NEW t \in Tabs, Save(t) PROVE ServerTypeOK'
        <3>1. stored' \in Texts
            BY <2>1, BrowserParts DEF Save, AppOK
        <3> QED BY <2>1, <3>1 DEF Save, ServerTypeOK, dirVars
    <2>2. ASSUME NEW t \in Tabs, MarkTask(t) PROVE ServerTypeOK'
        BY <2>2 DEF MarkTask, ServerTypeOK, dirVars
    <2>3. ASSUME NEW u \in Users, ChangeGroups(u) PROVE ServerTypeOK'
        <3>1. changes' \in 0..MaxChanges
            BY <2>3, AccountsAssumption DEF AccountsAssumption, ChangeGroups, ServerTypeOK
        <3>2. admins' \subseteq Users /\ revoked' \in [Users -> Nat]
            BY <2>3 DEF ChangeGroups, ServerTypeOK
        <3> QED BY <2>3, <3>1, <3>2 DEF ChangeGroups, ServerTypeOK, appVars
    <2>4. CASE Tick
        BY <2>4 DEF Tick, ServerTypeOK, dirVars, appVars
    <2> QED BY <2>1, <2>2, <2>3, <2>4
<1>2. jar' \in Jar
    <2>1. jar \in Jar
        BY BrowserParts
    <2>2. CASE Tick
        BY <2>1, <2>2, JarFlow, PlacesKnown DEF Tick
    <2>3. CASE ~Tick
        BY <2>1, <2>3 DEF Save, MarkTask, ChangeGroups
    <2> QED BY <2>2, <2>3
<1>3. NavOK'
    BY NavStutter, BrowserParts DEF Save, MarkTask, ChangeGroups, Tick
<1>4. AppOK'
    BY AppStutter, BrowserParts DEF Save, MarkTask, ChangeGroups, Tick, appVars
<1>5. FlowTypeOK'
    BY FlowStutter DEF Save, MarkTask, ChangeGroups, Tick, appVars
<1> QED BY <1>1, <1>2, <1>3, <1>4, <1>5, BrowserPartsNext

LEMMA TypeStutter == ASSUME TypeOK, UNCHANGED vars PROVE TypeOK'
<1>1. NavOK' /\ AppOK' /\ jar' \in Jar
    BY NavStutter, AppStutter, BrowserParts DEF TypeOK, vars, appVars
<1>2. ServerTypeOK'
    BY ServerStutter DEF TypeOK, vars, appVars
<1>3. FlowTypeOK'
    BY FlowStutter DEF TypeOK, vars, appVars
<1> QED BY <1>1, <1>2, <1>3, BrowserPartsNext DEF TypeOK

LEMMA TypeNext == TypeOK /\ [Next]_vars => TypeOK'
<1> SUFFICES ASSUME TypeOK, [Next]_vars PROVE TypeOK'
    OBVIOUS
<1>1. ASSUME NEW t \in Tabs, SignInStep(t) \/ AppStep(t) PROVE TypeOK'
    BY <1>1, TypeLogin, TypeSignIn, TypeCallback, TypeRespond, TypeApp, TypeServer
    DEF SignInStep, AppStep
<1>2. ASSUME NEW u \in Users, ChangeGroups(u) PROVE TypeOK'
    BY <1>2, TypeServer
<1>3. CASE Tick
    BY <1>3, TypeServer
<1>4. CASE UNCHANGED vars
    BY <1>4, TypeStutter
<1> QED BY <1>1, <1>2, <1>3, <1>4 DEF Next

\* Sign-ins, callbacks, the session store and the tables keep their types in every
\* interleaving of the tabs: a callback past its redirect has a user, a session is set
\* by an answer only, and a completion is credited to a known actor.
THEOREM AccountsTypeCorrect == Spec => []TypeOK
BY TypeInit, TypeNext, PTL DEF Spec

-----------------------------------------------------------------------------
(* The age of an administrator's rights *)

\* The session was issued no later than now and, if it is an administrator's, no
\* later than the user ceased to be one.
SessionHeld(s) ==
    s # None =>
        /\ s.exp <= now + MaxAge
        /\ s.role = "admin" => s.user \in admins \/ s.exp <= revoked[s.user] + MaxAge

\* The directory's answer is of this hour.
AnswerHeld(c) ==
    (c.at = "upsert" /\ c.role = "admin") => c.user \in admins \/ now <= revoked[c.user]

RightsInv ==
    /\ SessionHeld(jar.session)
    /\ \A t \in Tabs : SessionHeld(nav[t].session) /\ AnswerHeld(nav[t])

LEMMA RightsInit == Init => RightsInv
<1> SUFFICES ASSUME Init PROVE RightsInv
    OBVIOUS
<1>1. TypeOK
    BY TypeInit
<1>2. SessionHeld(jar.session)
    <2>1. ASSUME NEW u \in Users,
                 jar = [state |-> 0, nonce |-> 0, session |-> Issued(u, Classify(u))]
          PROVE  SessionHeld(jar.session)
        <3>1. /\ jar.session = Issued(u, Classify(u))
              /\ jar.session.exp = now + MaxAge
              /\ jar.session.user = u /\ jar.session.role = Classify(u)
            BY <1>1, <2>1, IssuedType, ClassifyType DEF TypeOK
        <3>2. now + MaxAge \in Int
            BY <1>1, AccountsAssumption DEF AccountsAssumption, TypeOK, ServerTypeOK
        <3> QED BY <3>1, <3>2 DEF SessionHeld, Classify
    <2> QED BY <2>1 DEF Init, SessionHeld
<1>3. Page("app").session = None /\ Page("app").at = "app"
    <2>1. "app" \in Places /\ 0 \in Flows /\ None \in Users \union {None}
        BY PlacesKnown
    <2> QED BY <2>1, PlaceType DEF Page
<1>4. \A t \in Tabs : nav[t].session = None /\ nav[t].at = "app"
    BY <1>3 DEF Init
<1> QED BY <1>2, <1>4 DEF RightsInv, SessionHeld, AnswerHeld

\* A step of tab t that leaves clock and directory alone.
LEMMA RightsTabStep ==
    ASSUME TypeOK, RightsInv, NEW t \in Tabs, NEW c,
           UNCHANGED <<now, dirVars>>,
           nav' = [nav EXCEPT ![t] = c], SessionHeld(c.session), AnswerHeld(c),
           jar'.session \in {jar.session, nav[t].session, None}
    PROVE  RightsInv'
<1>1. \A q \in Tabs : nav'[q] = IF q = t THEN c ELSE nav[q]
    BY BrowserParts DEF TypeOK, NavOK
<1>2. SessionHeld(jar'.session)
    <2>1. CASE jar'.session = jar.session
        BY <2>1 DEF RightsInv
    <2>2. CASE jar'.session = nav[t].session
        BY <2>2 DEF RightsInv
    <2>3. CASE jar'.session = None
        BY <2>3 DEF SessionHeld
    <2> QED BY <2>1, <2>2, <2>3
<1>3. \A q \in Tabs : SessionHeld(nav'[q].session) /\ AnswerHeld(nav'[q])
    BY <1>1 DEF RightsInv
<1> QED BY <1>2, <1>3 DEF RightsInv, SessionHeld, AnswerHeld, dirVars

LEMMA RightsStutter ==
    ASSUME RightsInv, UNCHANGED <<now, dirVars, nav>>, jar'.session \in {jar.session, None}
    PROVE  RightsInv'
BY DEF RightsInv, SessionHeld, AnswerHeld, dirVars

LEMMA PlaceHeld ==
    ASSUME NEW l \in Places \ {"upsert"}, NEW n \in Flows, NEW u \in Users \union {None},
           NEW s \in Flows, NEW o \in Flows
    PROVE  SessionHeld(Place(l, n, u, s, o).session) /\ AnswerHeld(Place(l, n, u, s, o))
BY PlaceType DEF SessionHeld, AnswerHeld

LEMMA PageHeld ==
    ASSUME NEW l \in {"app", "home"}
    PROVE  SessionHeld(Page(l).session) /\ AnswerHeld(Page(l))
BY PlaceHeld, PlacesKnown DEF Page

LEMMA RightsSignIn ==
    ASSUME TypeOK, RightsInv, NEW t \in Tabs, Login(t) \/ SignIn(t) \/ Resend(t)
    PROVE  RightsInv'
<1>0. /\ jar \in Jar /\ nav[t] \in Request /\ nav[t].flow \in Flows
      /\ nav[t].user \in Users \union {None}
      /\ jar.state \in Flows /\ jar.nonce \in Flows
    BY BrowserParts, RequestFields, JarFields DEF NavOK, TypeOK
<1>1. CASE Login(t)
    <2>1. logins' \in Flows
        BY <1>1, TypeLogin DEF TypeOK, FlowTypeOK, Flows
    <2>2. jar'.session = jar.session
        BY <1>0, <1>1, <2>1, JarFlow DEF Login
    <2>3. /\ SessionHeld(Place("idp", logins', None, 0, 0).session)
          /\ AnswerHeld(Place("idp", logins', None, 0, 0))
        BY <2>1, PlaceHeld, PlacesKnown
    <2> QED BY <1>1, <2>2, <2>3, RightsTabStep DEF Login
<1>2. CASE SignIn(t)
    <2>1. PICK u \in Users : nav' = [nav EXCEPT ![t] = Sent(nav[t].flow, u)]
        BY <1>2 DEF SignIn
    <2>2. SessionHeld(Sent(nav[t].flow, u).session) /\ AnswerHeld(Sent(nav[t].flow, u))
        BY <1>0, PlaceHeld, PlacesKnown DEF Sent
    <2> QED BY <1>2, <2>1, <2>2, RightsTabStep DEF SignIn
<1>3. CASE Resend(t)
    <2>1. /\ SessionHeld(Sent(nav[t].flow, nav[t].user).session)
          /\ AnswerHeld(Sent(nav[t].flow, nav[t].user))
        BY <1>0, PlaceHeld, PlacesKnown DEF Sent
    <2> QED BY <1>3, <2>1, RightsTabStep DEF Resend
<1> QED BY <1>1, <1>2, <1>3

LEMMA RightsCallback ==
    ASSUME TypeOK, RightsInv, NEW t \in Tabs,
           Exchange(t) \/ Resolve(t) \/ UpsertActor(t)
    PROVE  RightsInv'
<1>0. /\ nav[t] \in Request /\ nav[t].session = None
      /\ nav[t].user \in Users /\ nav[t].role \in Roles
    BY BrowserParts, RequestFields
    DEF TypeOK, NavOK, GoodRequest, Callback, Exchange, Resolve, UpsertActor
<1>1. CASE Exchange(t)
    <2>1. PICK l \in {"resolve", "respond"} : nav' = [nav EXCEPT ![t].at = l]
        BY <1>1 DEF Exchange, At
    <2>2. nav' = [nav EXCEPT ![t] = [nav[t] EXCEPT !.at = l]]
        BY <2>1
    <2>3. /\ SessionHeld([nav[t] EXCEPT !.at = l].session)
          /\ AnswerHeld([nav[t] EXCEPT !.at = l])
        BY <1>0, MovedType, PlacesKnown DEF SessionHeld, AnswerHeld
    <2> QED BY <1>1, <2>2, <2>3, RightsTabStep DEF Exchange
<1>2. CASE Resolve(t)
    <2>1. PICK r \in Roles :
            /\ nav' = [nav EXCEPT ![t] = Ranked(nav[t], r)]
            /\ r = "admin" => nav[t].user \in admins
        BY <1>2, ClassifyType DEF Resolve, Roles, Classify
    <2>2. SessionHeld(Ranked(nav[t], r).session) /\ AnswerHeld(Ranked(nav[t], r))
        BY <1>0, <2>1, RankedType DEF SessionHeld, AnswerHeld
    <2> QED BY <1>2, <2>1, <2>2, RightsTabStep DEF Resolve
<1>3. CASE UpsertActor(t)
    <2> DEFINE s == Issued(nav[t].user, nav[t].role)
    <2>1. /\ Sealed(nav[t]).at = "respond" /\ Sealed(nav[t]).session = s
          /\ s.user = nav[t].user /\ s.role = nav[t].role /\ s.exp = now + MaxAge
        BY <1>0, SealedType, IssuedType DEF TypeOK
    <2>2. nav[t].role = "admin" => nav[t].user \in admins \/ now <= revoked[nav[t].user]
        BY <1>3 DEF RightsInv, AnswerHeld, UpsertActor
    <2>3. now \in Nat /\ MaxAge \in Nat /\ revoked[nav[t].user] \in Nat
        BY <1>0, AccountsAssumption DEF AccountsAssumption, TypeOK, ServerTypeOK
    <2> HIDE DEF s
    <2>4. SessionHeld(s)
        BY <2>1, <2>2, <2>3 DEF SessionHeld
    <2>5. SessionHeld(Sealed(nav[t]).session) /\ AnswerHeld(Sealed(nav[t]))
        BY <2>1, <2>4 DEF AnswerHeld
    <2> QED BY <1>3, <2>5, RightsTabStep DEF UpsertActor
<1> QED BY <1>1, <1>2, <1>3

LEMMA RightsRespond ==
    ASSUME TypeOK, RightsInv, NEW t \in Tabs, Respond(t)
    PROVE  RightsInv'
<1>0. nav[t] \in Request /\ nav[t].flow \in Flows /\ nav[t].user \in Users \union {None}
    BY BrowserParts, RequestFields DEF TypeOK, NavOK
<1>1. jar'.session \in {jar.session, nav[t].session}
    BY DEF Respond
<1>2. CASE nav[t].session = None
    <2>1. nav' = [nav EXCEPT ![t] = Place("failed", nav[t].flow, nav[t].user, 0, 0)]
        BY <1>2, BrowserParts DEF Respond, Land, TypeOK, NavOK
    <2>2. /\ SessionHeld(Place("failed", nav[t].flow, nav[t].user, 0, 0).session)
          /\ AnswerHeld(Place("failed", nav[t].flow, nav[t].user, 0, 0))
        BY <1>0, PlaceHeld, PlacesKnown
    <2> QED BY <1>1, <2>1, <2>2, RightsTabStep DEF Respond
<1>3. CASE nav[t].session # None
    <2>1. nav' = [nav EXCEPT ![t] = Page("home")]
        BY <1>3, BrowserParts DEF Respond, Land, TypeOK, NavOK
    <2> QED BY <1>1, <2>1, PageHeld, RightsTabStep DEF Respond
<1> QED BY <1>2, <1>3

LEMMA RightsApp ==
    ASSUME TypeOK, RightsInv, NEW t \in Tabs, Logout(t) \/ AppStep(t)
    PROVE  RightsInv'
<1>1. CASE Logout(t)
    <2>1. jar'.session = None
        BY <1>1, BrowserParts, JarNoSession DEF Logout, TypeOK
    <2> QED BY <1>1, <2>1, RightsStutter DEF Logout
<1>2. CASE Boot(t)
    BY <1>2, PageHeld, RightsTabStep DEF Boot
<1>3. CASE Unauthenticated(t) \/ Fetch(t) \/ Save(t) \/ MarkTask(t)
    BY <1>3, RightsStutter DEF Unauthenticated, Fetch, Save, MarkTask
<1> QED BY <1>1, <1>2, <1>3 DEF AppStep

LEMMA RightsChange ==
    ASSUME TypeOK, RightsInv, NEW u \in Users, ChangeGroups(u)
    PROVE  RightsInv'
<1>1. now \in Nat /\ MaxAge \in Nat /\ revoked \in [Users -> Nat]
    BY AccountsAssumption DEF AccountsAssumption, TypeOK, ServerTypeOK
<1>2. ASSUME NEW s \in Session \union {None}, SessionHeld(s)
      PROVE  s # None =>
                /\ s.exp <= now + MaxAge
                /\ s.role = "admin" => s.user \in admins' \/ s.exp <= revoked'[s.user] + MaxAge
    BY <1>1, <1>2, SessionFields DEF SessionHeld, ChangeGroups
<1>3. ASSUME NEW c \in Request, AnswerHeld(c), c.at = "upsert" => c.user \in Users
      PROVE  (c.at = "upsert" /\ c.role = "admin") => c.user \in admins' \/ now <= revoked'[c.user]
    BY <1>1, <1>3 DEF AnswerHeld, ChangeGroups
<1>4. SessionHeld(jar.session)'
    BY <1>2, JarFields, BrowserParts DEF ChangeGroups, RightsInv, SessionHeld, TypeOK
<1>5. ASSUME NEW q \in Tabs
      PROVE  SessionHeld(nav[q].session)' /\ AnswerHeld(nav[q])'
    <2>1. /\ nav[q] \in Request /\ nav[q].session \in Session \union {None}
          /\ nav[q].at = "upsert" => nav[q].user \in Users
        BY RequestFields, BrowserParts DEF TypeOK, NavOK, GoodRequest, Callback
    <2> QED BY <1>2, <1>3, <2>1 DEF ChangeGroups, RightsInv, SessionHeld, AnswerHeld
<1> QED BY <1>4, <1>5 DEF RightsInv

LEMMA RightsTick ==
    ASSUME TypeOK, RightsInv, Tick
    PROVE  RightsInv'
<1>1. now \in Nat /\ MaxAge \in Nat /\ now' = now + 1
    BY AccountsAssumption DEF AccountsAssumption, TypeOK, ServerTypeOK, Tick
<1>2. jar'.session = jar.session /\ jar.session \in Session \union {None}
    BY BrowserParts, JarFlow, JarFields, PlacesKnown DEF Tick, TypeOK
<1>3. ASSUME NEW s \in Session \union {None}, s # None, s.exp <= now + MaxAge
      PROVE  s.exp <= now' + MaxAge
    BY <1>1, <1>3, SessionFields
<1>4. SessionHeld(jar.session)'
    BY <1>2, <1>3 DEF Tick, RightsInv, SessionHeld, dirVars
<1>5. ASSUME NEW q \in Tabs
      PROVE  SessionHeld(nav[q].session)' /\ AnswerHeld(nav[q])'
    <2>1. nav[q].session \in Session \union {None}
        BY RequestFields, BrowserParts DEF TypeOK, NavOK
    <2>2. SessionHeld(nav[q].session)'
        BY <1>3, <2>1 DEF Tick, RightsInv, SessionHeld, dirVars
    <2> QED BY <2>2 DEF Tick, AnswerHeld
<1> QED BY <1>4, <1>5 DEF RightsInv

LEMMA RightsNext == TypeOK /\ RightsInv /\ [Next]_vars => RightsInv'
<1> SUFFICES ASSUME TypeOK, RightsInv, [Next]_vars PROVE RightsInv'
    OBVIOUS
<1>1. ASSUME NEW t \in Tabs, SignInStep(t) PROVE RightsInv'
    BY <1>1, RightsSignIn, RightsCallback, RightsRespond, RightsApp DEF SignInStep
<1>2. ASSUME NEW t \in Tabs, AppStep(t) PROVE RightsInv'
    BY <1>2, RightsApp
<1>3. ASSUME NEW u \in Users, ChangeGroups(u) PROVE RightsInv'
    BY <1>3, RightsChange
<1>4. CASE Tick
    BY <1>4, RightsTick
<1>5. CASE UNCHANGED vars
    BY <1>5, RightsStutter DEF vars
<1> QED BY <1>1, <1>2, <1>3, <1>4, <1>5 DEF Next

\* Nobody passes RequireAdmin who has not been an administrator within sessionMaxAge:
\* for any number of tabs, overlapping sign-ins, lost answers and changes of groups.
THEOREM AccountsRevocationBounded == Spec => []RevocationBounded
<1>1. TypeOK /\ RightsInv => RevocationBounded
    <2> SUFFICES ASSUME TypeOK, RightsInv, Admitted PROVE RevocationBounded
        BY DEF RevocationBounded
    <2>1. /\ ReadSession = jar.session /\ ReadSession \in Session
          /\ ~(now > ReadSession.exp) /\ ReadSession # None /\ ReadSession.role = "admin"
        BY SessionRead, BrowserParts DEF Admitted, TypeOK
    <2>2. /\ ReadSession.user \in Users /\ ReadSession.exp \in Int
          /\ now \in Nat /\ MaxAge \in Nat /\ revoked[ReadSession.user] \in Nat
        BY <2>1, SessionFields, AccountsAssumption DEF AccountsAssumption, TypeOK, ServerTypeOK
    <2>3. ReadSession.user \in admins \/ ReadSession.exp <= revoked[ReadSession.user] + MaxAge
        BY <2>1 DEF RightsInv, SessionHeld
    <2> QED BY <2>1, <2>2, <2>3 DEF RevocationBounded
<1> QED BY <1>1, TypeInit, TypeNext, RightsInit, RightsNext, PTL DEF Spec

-----------------------------------------------------------------------------
(* The internal texts of a rollout *)

\* Replaced texts are in the database, or on a screen that offers to save them, only
\* after a tab of an administrator got stripped data.
TextInv ==
    /\ stored = "stripped" => mixed
    /\ \A t \in Tabs : view[t] = "stripped" /\ CanEdit(t) => mixed

LEMMA TextStutter ==
    ASSUME TextInv, UNCHANGED appVars
    PROVE  TextInv'
BY DEF TextInv, CanEdit, appVars

\* A step of tab t that shows nothing, or takes the user away.
LEMMA TextCleared ==
    ASSUME TypeOK, TextInv, NEW t \in Tabs, UNCHANGED <<stored, mixed>>,
           \A q \in Tabs \ {t} : view'[q] = view[q] /\ me'[q] = me[q],
           view'[t] = "none" \/ me'[t] = None
    PROVE  TextInv'
BY DEF TextInv, CanEdit

LEMMA TextFetch ==
    ASSUME TypeOK, TextInv, NEW t \in Tabs, Fetch(t)
    PROVE  TextInv'
<1>1. /\ view'[t] = IF ReadSession.role = "admin" THEN stored ELSE "stripped"
      /\ \A q \in Tabs \ {t} : view'[q] = view[q]
    BY BrowserParts DEF Fetch, StripInternal, TypeOK, AppOK
<1>2. /\ mixed => mixed'
      /\ CanEdit(t) /\ ReadSession.role # "admin" => mixed'
    BY DEF Fetch
<1>3. stored' = stored /\ me' = me
    BY DEF Fetch
<1> QED BY <1>1, <1>2, <1>3 DEF TextInv, CanEdit

LEMMA TextNext == TypeOK /\ TextInv /\ [Next]_vars => TextInv'
<1> SUFFICES ASSUME TypeOK, TextInv, [Next]_vars PROVE TextInv'
    OBVIOUS
<1>0. AppOK
    BY BrowserParts DEF TypeOK
<1>1. ASSUME NEW t \in Tabs, SignInStep(t) PROVE TextInv'
    <2>1. CASE Login(t)
        BY <2>1, <1>0, TextCleared DEF Login, Leave, AppOK
    <2>2. CASE ~Login(t)
        BY <1>1, <2>2, TextStutter
        DEF SignInStep, SignIn, Resend, Exchange, Resolve, UpsertActor, Respond, Logout
    <2> QED BY <2>1, <2>2
<1>2. ASSUME NEW t \in Tabs, AppStep(t) PROVE TextInv'
    <2>1. CASE Boot(t)
        BY <2>1, <1>0, TextCleared DEF Boot, LoadUser, AppOK
    <2>2. CASE Unauthenticated(t)
        BY <2>2, <1>0, TextCleared DEF Unauthenticated, AppOK
    <2>3. CASE Fetch(t)
        BY <2>3, TextFetch
    <2>4. CASE Save(t)
        BY <2>4 DEF Save, TextInv, CanEdit
    <2>5. CASE MarkTask(t)
        BY <2>5 DEF MarkTask, TextInv, CanEdit
    <2> QED BY <1>2, <2>1, <2>2, <2>3, <2>4, <2>5 DEF AppStep
<1>3. CASE Tick \/ UNCHANGED vars \/ \E u \in Users : ChangeGroups(u)
    BY <1>3, TextStutter DEF Tick, vars, ChangeGroups
<1> QED BY <1>1, <1>2, <1>3 DEF Next

\* No sequence of sign-ins, reloads and saves in any number of tabs loses the internal
\* texts, unless a tab that shows an administrator fetched under a readonly session.
THEOREM AccountsInternalTextSurvives == Spec => []InternalTextSurvives
<1>1. Init => TextInv
    BY DEF Init, TextInv
<1>2. TextInv => InternalTextSurvives
    BY DEF TextInv, InternalTextSurvives
<1> QED BY <1>1, <1>2, TypeInit, TypeNext, TextNext, PTL DEF Spec

-----------------------------------------------------------------------------
(* The cookies of a sign-in *)

\* Only sign-ins that have begun are answered or on their way.
NonceInv ==
    /\ NoStaleNonce
    /\ \A n \in answered : n <= logins
    /\ \A t \in Tabs : nav[t].flow <= logins

\* A step that starts no sign-in and answers none.
LEMMA NonceStutter ==
    ASSUME NonceInv, logins \in Nat, logins' = logins, answered' = answered,
           jar'.state = jar.state \/ jar'.state = 0,
           jar'.nonce = jar.nonce \/ jar'.nonce = 0,
           \A q \in Tabs : nav'[q].flow = nav[q].flow \/ nav'[q].flow = 0
    PROVE  NonceInv'
<1>1. \A q \in Tabs : nav'[q].flow <= logins'
    BY DEF NonceInv
<1> QED BY <1>1 DEF NonceInv, NoStaleNonce

LEMMA NonceTabStep ==
    ASSUME TypeOK, NonceInv, NEW t \in Tabs, NEW c, c.flow = nav[t].flow \/ c.flow = 0,
           nav' = [nav EXCEPT ![t] = c], jar' = jar, logins' = logins, answered' = answered
    PROVE  NonceInv'
<1>1. \A q \in Tabs : nav'[q] = IF q = t THEN c ELSE nav[q]
    BY BrowserParts DEF TypeOK, NavOK
<1>2. \A q \in Tabs : nav'[q].flow = nav[q].flow \/ nav'[q].flow = 0
    BY <1>1
<1>3. logins \in Nat
    BY AccountsAssumption DEF AccountsAssumption, TypeOK, FlowTypeOK, Flows
<1> QED BY <1>2, <1>3, NonceStutter

LEMMA NonceNext == TypeOK /\ NonceInv /\ [Next]_vars => NonceInv'
<1> SUFFICES ASSUME TypeOK, NonceInv, [Next]_vars PROVE NonceInv'
    OBVIOUS
<1>0. /\ jar \in Jar /\ nav \in [Tabs -> Request]
      /\ logins \in Nat /\ \A t \in Tabs : nav[t].flow \in Nat
      /\ \A n \in answered : n \in Nat
    <2>1. jar \in Jar /\ nav \in [Tabs -> Request]
        BY BrowserParts DEF TypeOK, NavOK
    <2>2. \A t \in Tabs : nav[t].flow \in Flows
        BY <2>1, RequestFields
    <2>3. logins \in Flows /\ \A n \in answered : n \in Flows
        BY DEF TypeOK, FlowTypeOK
    <2>4. \A n \in Flows : n \in Nat
        BY AccountsAssumption DEF AccountsAssumption, Flows
    <2> QED BY <2>1, <2>2, <2>3, <2>4
<1>1. ASSUME NEW t \in Tabs, Login(t) PROVE NonceInv'
    <2>1. /\ logins' = logins + 1 /\ logins' \in Flows /\ answered' = answered
        BY <1>1, TypeNext, AccountsAssumption
        DEF AccountsAssumption, Next, SignInStep, Login, TypeOK, FlowTypeOK, Flows
    <2>2. jar'.state = logins' /\ jar'.nonce = logins'
        BY <1>0, <1>1, <2>1, JarFlow DEF Login
    <2>3. NoStaleNonce'
        BY <1>0, <2>1, <2>2 DEF NonceInv, NoStaleNonce
    <2>4. Place("idp", logins', None, 0, 0).flow = logins'
        BY <2>1, PlaceType, PlacesKnown
    <2>5. \A q \in Tabs : nav'[q] = IF q = t THEN Place("idp", logins', None, 0, 0) ELSE nav[q]
        BY <1>0, <1>1 DEF Login
    <2>6. \A q \in Tabs : nav'[q].flow <= logins'
        BY <1>0, <2>1, <2>4, <2>5 DEF NonceInv
    <2>7. \A n \in answered' : n <= logins'
        BY <1>0, <2>1 DEF NonceInv
    <2> QED BY <2>3, <2>6, <2>7 DEF NonceInv
<1>2. ASSUME NEW t \in Tabs, Respond(t) PROVE NonceInv'
    <2>1. jar'.state = 0 /\ jar'.nonce = 0 /\ logins' = logins
        BY <1>2 DEF Respond
    <2>2. answered' = answered \union {nav[t].flow}
        BY <1>2 DEF Respond
    <2>3. \A q \in Tabs \ {t} : nav'[q] = nav[q]
        BY <1>0, <1>2 DEF Respond, Land
    <2>4. nav'[t].flow \in {0, nav[t].flow}
        <3>1. /\ nav[t].flow \in Flows /\ nav[t].user \in Users \union {None}
              /\ 0 \in Flows /\ None \in Users \union {None}
            BY <1>0, RequestFields, PlacesKnown
        <3>2. Place("failed", nav[t].flow, nav[t].user, 0, 0).flow = nav[t].flow
            BY <3>1, PlaceType, PlacesKnown
        <3>3. Page("home").flow = 0
            BY DEF Page, Place
        <3>4. nav'[t] \in {Place("failed", nav[t].flow, nav[t].user, 0, 0), Page("home")}
            BY <1>0, <1>2 DEF Respond, Land
        <3> QED BY <3>2, <3>3, <3>4
    <2>5. \A q \in Tabs : nav'[q].flow <= logins'
        BY <1>0, <2>1, <2>3, <2>4 DEF NonceInv
    <2> QED BY <1>0, <2>1, <2>2, <2>5 DEF NonceInv, NoStaleNonce
<1>3. ASSUME NEW t \in Tabs, SignIn(t) \/ Resend(t) PROVE NonceInv'
    <2>1. /\ nav[t].flow \in Flows /\ nav[t].user \in Users \union {None}
          /\ jar.state \in Flows /\ jar.nonce \in Flows
        BY <1>0, RequestFields, JarFields
    <2>2. \A u \in Users \union {None} : Sent(nav[t].flow, u).flow = nav[t].flow
        BY DEF Sent, Place
    <2>3. PICK u \in Users \union {None} : nav' = [nav EXCEPT ![t] = Sent(nav[t].flow, u)]
        BY <1>3, <2>1 DEF SignIn, Resend
    <2> QED BY <1>3, <2>2, <2>3, NonceTabStep DEF SignIn, Resend, flowVars
<1>4. ASSUME NEW t \in Tabs, Exchange(t) PROVE NonceInv'
    <2>1. PICK l \in {"resolve", "respond"} : nav' = [nav EXCEPT ![t].at = l]
        BY <1>4 DEF Exchange, At
    <2>2. nav' = [nav EXCEPT ![t] = [nav[t] EXCEPT !.at = l]]
        BY <2>1
    <2>3. [nav[t] EXCEPT !.at = l].flow = nav[t].flow
        BY <1>0, MovedType, PlacesKnown
    <2> QED BY <1>4, <2>2, <2>3, NonceTabStep DEF Exchange
<1>5. ASSUME NEW t \in Tabs, Resolve(t) PROVE NonceInv'
    <2>1. PICK r \in Roles : nav' = [nav EXCEPT ![t] = Ranked(nav[t], r)]
        BY <1>5, ClassifyType DEF Resolve, Roles
    <2>2. Ranked(nav[t], r).flow = nav[t].flow
        BY <1>0, RankedType
    <2> QED BY <1>5, <2>1, <2>2, NonceTabStep DEF Resolve, flowVars
<1>6. ASSUME NEW t \in Tabs, UpsertActor(t) PROVE NonceInv'
    <2>1. nav[t].user \in Users
        BY <1>6, BrowserParts DEF TypeOK, NavOK, GoodRequest, Callback, UpsertActor
    <2>2. Sealed(nav[t]).flow = nav[t].flow
        BY <1>0, <2>1, SealedType DEF TypeOK
    <2> QED BY <1>6, <2>2, NonceTabStep DEF UpsertActor, flowVars
<1>7. ASSUME NEW t \in Tabs, Logout(t) PROVE NonceInv'
    <2>1. jar'.state = jar.state /\ jar'.nonce = jar.nonce
        BY <1>0, <1>7, JarNoSession DEF Logout
    <2> QED BY <1>0, <1>7, <2>1, NonceStutter DEF Logout, flowVars
<1>8. ASSUME NEW t \in Tabs, AppStep(t) PROVE NonceInv'
    <2>1. Page("app").flow = 0
        BY DEF Page, Place
    <2>2. CASE Boot(t)
        BY <2>1, <2>2, NonceTabStep DEF Boot, flowVars
    <2>3. CASE ~Boot(t)
        BY <1>0, <1>8, <2>3, NonceStutter DEF AppStep, Unauthenticated, Fetch, Save, MarkTask, flowVars
    <2> QED BY <2>2, <2>3
<1>9. CASE Tick
    <2>1. jar'.state = 0 /\ jar'.nonce = 0
        BY <1>0, <1>9, JarFlow, PlacesKnown DEF Tick
    <2> QED BY <1>0, <1>9, <2>1, NonceStutter DEF Tick, flowVars
<1>10. CASE UNCHANGED vars \/ \E u \in Users : ChangeGroups(u)
    BY <1>0, <1>10, NonceStutter DEF vars, ChangeGroups, flowVars
<1> QED
    BY <1>1, <1>2, <1>3, <1>4, <1>5, <1>6, <1>7, <1>8, <1>9, <1>10 DEF Next, SignInStep

\* ClearOIDCCookies leaves nothing of an answered sign-in in the browser, however many
\* tabs sign in at once: no callback passes twice with the same state and nonce.
THEOREM AccountsNoStaleNonce == Spec => []NoStaleNonce
<1>1. Init => NonceInv
    <2> SUFFICES ASSUME Init PROVE NonceInv
        OBVIOUS
    <2>1. Page("app").flow = 0
        BY DEF Page, Place
    <2>2. \A t \in Tabs : nav[t].flow <= logins
        BY <2>1 DEF Init
    <2>3. NoStaleNonce
        BY DEF Init, NoStaleNonce
    <2> QED BY <2>2, <2>3 DEF Init, NonceInv
<1>2. NonceInv => NoStaleNonce
    BY DEF NonceInv
<1> QED BY <1>1, <1>2, TypeInit, TypeNext, NonceNext, PTL DEF Spec
=============================================================================
