------------------------------ MODULE Accounts ------------------------------
(***************************************************************************)
(* Signing in and out in the tabs of one browser, and what the server then *)
(* lets them do: the handlers of /auth/* and the role checks               *)
(* (backend/internal/api, auth, ldap, middleware) and the session store of *)
(* the application (frontend/src/app/core/auth).                           *)
(*                                                                         *)
(* The tabs share the browser's cookies (jar).  A sign-in is numbered; its *)
(* number stands for its random state and nonce, 0 for a missing cookie.   *)
(* The identity provider and the directory are external.  Of a rollout     *)
(* there is only what stripInternal is about: whether its internal texts   *)
(* are there or have been replaced.  Time counts in hours.                 *)
(***************************************************************************)
EXTENDS Integers

CONSTANTS
    Users, Tabs, None,
    MaxAge,      \* sessionMaxAge
    MaxLogins,   \* bound of the model: sign-ins started
    MaxTime,     \* bound of the model: hours
    MaxChanges,  \* bound of the model: changes of the groups in the directory
    MaxFaults    \* bound of the model: errors and reloads during a sign-in

ASSUME AccountsAssumption ==
    /\ MaxAge \in Nat /\ MaxLogins \in Nat /\ MaxTime \in Nat
    /\ MaxChanges \in Nat /\ MaxFaults \in Nat
    /\ None \notin Users

Roles == {"admin", "readonly"}
Session == [user : Users, role : Roles, exp : Int]

VARIABLES
    now,      \* the clock
    admins,   \* users the directory has in an administrators' group
    revoked,  \* history: when a user last ceased to be an administrator
    changes,  \* changes of the groups so far
    actors,   \* the users with a row in the actors table
    jar,      \* the cookies: state and nonce of a sign-in, session
    nav,      \* nav[t]: where tab t is, and its callback request if it has one
    codes,    \* authorization codes not yet redeemed, by number of the sign-in
    logins,   \* sign-ins started
    answered, \* history: sign-ins whose callback has been answered
    me,       \* me[t]: the user of the SessionStore of tab t, or None
    view,     \* view[t]: the rollout on the screen of tab t
    stored,   \* the rollout in the database
    doneBy,   \* completed_by of a task of the rollout, or None
    mixed,    \* history: a tab of an administrator got stripped data
    faults    \* faults so far

dirVars == <<admins, revoked, changes>>
appVars == <<me, view, stored, doneBy, mixed>>
flowVars == <<codes, logins, answered>>
vars == <<now, dirVars, actors, jar, nav, flowVars, appVars, faults>>

\* Where a tab is, with its sign-in, who signed in and the cookies its callback was
\* sent with.  The role found for the user and the session the answer will set are
\* still to come.
Place(label, n, u, state, nonce) ==
    [at |-> label, flow |-> n, user |-> u, state |-> state, nonce |-> nonce,
     role |-> "readonly", session |-> None]

Page(label) == Place(label, 0, None, 0, 0)

Callback == {"exchange", "resolve", "upsert", "respond"}

\* classify: an administrators' group wins, everybody else may read.
Classify(u) == IF u \in admins THEN "admin" ELSE "readonly"

\* Issue.
Issued(u, role) == [user |-> u, role |-> role, exp |-> now + MaxAge]

\* Somebody may have signed in just before.
Init ==
    /\ now = MaxAge + 1
    /\ admins \in SUBSET Users
    /\ revoked = [u \in Users |-> 0]
    /\ changes = 0
    /\ \/ actors = {} /\ jar = [state |-> 0, nonce |-> 0, session |-> None]
       \/ \E u \in Users :
            /\ actors = {u}
            /\ jar = [state |-> 0, nonce |-> 0, session |-> Issued(u, Classify(u))]
    /\ nav = [t \in Tabs |-> Page("app")]
    /\ codes = {} /\ logins = 0 /\ answered = {}
    /\ me = [t \in Tabs |-> None]
    /\ view = [t \in Tabs |-> "none"]
    /\ stored = "full" /\ doneBy = None /\ mixed = FALSE
    /\ faults = 0

Fault == faults < MaxFaults /\ faults' = faults + 1

At(t, label) == nav' = [nav EXCEPT ![t].at = label]

\* The page is left: the state of the application is gone.
Leave(t) ==
    /\ me' = [me EXCEPT ![t] = None]
    /\ view' = [view EXCEPT ![t] = "none"]
    /\ UNCHANGED <<stored, doneBy, mixed>>

\* Faulty variant: the expiry is left to the browser.
ReadSession_NoExpiry == jar.session

\* Authenticate and SessionStore.Read: the session of a request, None when there is
\* no cookie or it has expired.
ReadSession ==
    IF jar.session = None THEN None
    ELSE IF now > jar.session.exp THEN None
    ELSE jar.session

-----------------------------------------------------------------------------
(* Signing in *)

\* GET /auth/login: new cookies, and on to the identity provider.
Login(t) ==
    /\ nav[t].at \notin Callback
    /\ logins < MaxLogins
    /\ logins' = logins + 1
    /\ jar' = [jar EXCEPT !.state = logins', !.nonce = logins']
    /\ nav' = [nav EXCEPT ![t] = Place("idp", logins', None, 0, 0)]
    /\ Leave(t)
    /\ UNCHANGED <<now, dirVars, actors, codes, answered, faults>>

\* The request for /auth/callback, with the cookies the browser has by now.
Sent(n, u) == Place("exchange", n, u, jar.state, jar.nonce)

\* The user signs in, as whomever; the provider redirects with a code.
SignIn(t) ==
    /\ nav[t].at = "idp"
    /\ \E u \in Users : nav' = [nav EXCEPT ![t] = Sent(nav[t].flow, u)]
    /\ codes' = codes \union {nav[t].flow}
    /\ UNCHANGED <<now, dirVars, actors, jar, logins, answered, appVars, faults>>

\* The user reloads the page of the callback: an answer still to come is lost, and
\* the handler's context is cancelled.
Resend(t) ==
    /\ nav[t].at \in Callback \union {"failed"}
    /\ Fault
    /\ nav' = [nav EXCEPT ![t] = Sent(nav[t].flow, nav[t].user)]
    /\ UNCHANGED <<now, dirVars, actors, jar, flowVars, appVars>>

\* callback up to the claims: the state of the request must be that of its cookie; then
\* Exchange, where a code is good once and the token carries the nonce of the sign-in.
Exchange(t) ==
    LET c == nav[t] IN
    /\ c.at = "exchange"
    /\ \/ /\ c.state # c.flow \/ c.nonce = 0
          /\ At(t, "respond")
          /\ UNCHANGED <<codes, faults>>
       \/ /\ c.state = c.flow /\ c.nonce # 0
          /\ At(t, IF c.nonce = c.flow /\ c.flow \in codes THEN "resolve" ELSE "respond")
          /\ codes' = codes \ {c.flow}
          /\ UNCHANGED faults
       \/ /\ c.state = c.flow /\ c.nonce # 0
          /\ Fault
          /\ At(t, "respond")
          /\ codes' \in {codes, codes \ {c.flow}}
    /\ UNCHANGED <<now, dirVars, actors, jar, logins, answered, appVars>>

Ranked(c, role) == [c EXCEPT !.at = "upsert", !.role = role]

\* Resolve; the handler takes an error for readonly.
Resolve(t) ==
    /\ nav[t].at = "resolve"
    /\ \/ /\ nav' = [nav EXCEPT ![t] = Ranked(@, Classify(@.user))]
          /\ UNCHANGED faults
       \/ Fault /\ nav' = [nav EXCEPT ![t] = Ranked(@, "readonly")]
    /\ UNCHANGED <<now, dirVars, actors, jar, flowVars, appVars>>

Sealed(c) == [c EXCEPT !.at = "respond", !.session = Issued(c.user, c.role)]

\* UpsertActor, whose error is only logged, and Issue.
UpsertActor(t) ==
    /\ nav[t].at = "upsert"
    /\ \/ actors' = actors \union {nav[t].user} /\ UNCHANGED faults
       \/ Fault /\ UNCHANGED actors
    /\ nav' = [nav EXCEPT ![t] = Sealed(@)]
    /\ UNCHANGED <<now, dirVars, jar, flowVars, appVars>>

\* The error page, or the redirect to the application.
Land(t) ==
    nav' = [nav EXCEPT ![t] = IF @.session = None
                              THEN Place("failed", @.flow, @.user, 0, 0)
                              ELSE Page("home")]

\* Faulty variant: the transient cookies are cleared on success only.
Respond_KeepsCookies(t) ==
    LET s == nav[t].session IN
    /\ nav[t].at = "respond"
    /\ jar' = IF s = None THEN jar ELSE [state |-> 0, nonce |-> 0, session |-> s]
    /\ Land(t)
    /\ answered' = answered \union {nav[t].flow}
    /\ UNCHANGED <<now, dirVars, actors, codes, logins, appVars, faults>>

\* The answer arrives: ClearOIDCCookies in any case, the session cookie on success.
Respond(t) ==
    LET s == nav[t].session IN
    /\ nav[t].at = "respond"
    /\ jar' = [state |-> 0, nonce |-> 0,
               session |-> IF s = None THEN jar.session ELSE s]
    /\ Land(t)
    /\ answered' = answered \union {nav[t].flow}
    /\ UNCHANGED <<now, dirVars, actors, codes, logins, appVars, faults>>

\* POST /auth/logout.
Logout(t) ==
    /\ nav[t].at = "app"
    /\ jar' = [jar EXCEPT !.session = None]
    /\ UNCHANGED <<now, dirVars, actors, nav, flowVars, appVars, faults>>

-----------------------------------------------------------------------------
(* The application *)

Shown(s) == [user |-> s.user, role |-> s.role]

\* SessionStore.load: the user /api/me answers with, none on any failure.
LoadUser(t) ==
    \/ /\ me' = [me EXCEPT ![t] = IF ReadSession = None THEN None ELSE Shown(ReadSession)]
       /\ UNCHANGED faults
    \/ Fault /\ me' = [me EXCEPT ![t] = None]

\* Faulty variant: the user is loaded anew, the data on the screen stays.
Boot_KeepsView(t) ==
    /\ nav[t].at \notin Callback
    /\ nav' = [nav EXCEPT ![t] = Page("app")]
    /\ LoadUser(t)
    /\ UNCHANGED <<now, dirVars, actors, jar, flowVars, view, stored, doneBy, mixed>>

\* The page is loaded, and the user.
Boot(t) ==
    /\ nav[t].at \notin Callback
    /\ nav' = [nav EXCEPT ![t] = Page("app")]
    /\ LoadUser(t)
    /\ view' = [view EXCEPT ![t] = "none"]
    /\ UNCHANGED <<now, dirVars, actors, jar, flowVars, stored, doneBy, mixed>>

\* RequireSession: 401, upon which the interceptor clears the SessionStore.
Unauthenticated(t) ==
    /\ nav[t].at = "app" /\ me[t] # None
    /\ ReadSession = None
    /\ me' = [me EXCEPT ![t] = None]
    /\ UNCHANGED <<now, dirVars, actors, jar, nav, flowVars, view, stored, doneBy, mixed, faults>>

\* SessionStore.canEdit: what the page offers depends on the user it has loaded.
CanEdit(t) == IF me[t] = None THEN FALSE ELSE me[t].role = "admin"

\* RequireAdmin.
Admitted == IF ReadSession = None THEN FALSE ELSE ReadSession.role = "admin"

\* stripInternal: whatever the internal texts were, they are replaced.
StripInternal(text) == "stripped"

\* getRollout: stripInternal unless the session is an administrator's.
Fetch(t) ==
    /\ nav[t].at = "app"
    /\ ReadSession # None
    /\ view' = [view EXCEPT ![t] =
                   IF ReadSession.role = "admin" THEN stored ELSE StripInternal(stored)]
    /\ mixed' = (mixed \/ (CanEdit(t) /\ ReadSession.role # "admin"))
    /\ UNCHANGED <<now, dirVars, actors, jar, nav, flowVars, me, stored, doneBy, faults>>

\* updateRollout: the texts on the screen replace those stored.
Save(t) ==
    /\ nav[t].at = "app" /\ CanEdit(t) /\ view[t] # "none"
    /\ Admitted
    /\ stored' = view[t]
    /\ UNCHANGED <<now, dirVars, actors, jar, nav, flowVars, me, view, doneBy, mixed, faults>>

\* Faulty variant: completed_by does not refer to actors.
MarkTask_NoKey(t) ==
    /\ nav[t].at = "app" /\ CanEdit(t) /\ view[t] # "none"
    /\ Admitted
    /\ doneBy' = ReadSession.user
    /\ UNCHANGED <<now, dirVars, actors, jar, nav, flowVars, me, view, stored, mixed, faults>>

\* updateTask: credited to the user of the session, who must be in actors.
MarkTask(t) ==
    /\ nav[t].at = "app" /\ CanEdit(t) /\ view[t] # "none"
    /\ Admitted
    /\ ReadSession.user \in actors
    /\ doneBy' = ReadSession.user
    /\ UNCHANGED <<now, dirVars, actors, jar, nav, flowVars, me, view, stored, mixed, faults>>

-----------------------------------------------------------------------------
(* The environment *)

\* A user joins or leaves the administrators' groups.
ChangeGroups(u) ==
    /\ changes < MaxChanges
    /\ changes' = changes + 1
    /\ \/ /\ u \notin admins
          /\ admins' = admins \union {u}
          /\ UNCHANGED revoked
       \/ /\ u \in admins
          /\ admins' = admins \ {u}
          /\ revoked' = [revoked EXCEPT ![u] = now]
    /\ UNCHANGED <<now, actors, jar, nav, flowVars, appVars, faults>>

\* The cookies of a sign-in live for five minutes.  The browser drops the session
\* cookie no earlier than Read refuses it, which is left out.  A callback takes less
\* than an hour from the directory's answer to its own.
Tick ==
    /\ now < MaxTime
    /\ \A t \in Tabs : nav[t].at # "upsert"
    /\ now' = now + 1
    /\ jar' = [jar EXCEPT !.state = 0, !.nonce = 0]
    /\ UNCHANGED <<dirVars, actors, nav, flowVars, appVars, faults>>

SignInStep(t) ==
    \/ Login(t) \/ SignIn(t) \/ Resend(t) \/ Exchange(t) \/ Resolve(t)
    \/ UpsertActor(t) \/ Respond(t) \/ Logout(t)

AppStep(t) ==
    Boot(t) \/ Unauthenticated(t) \/ Fetch(t) \/ Save(t) \/ MarkTask(t)

Next ==
    \/ \E t \in Tabs : SignInStep(t) \/ AppStep(t)
    \/ \E u \in Users : ChangeGroups(u)
    \/ Tick

Spec == Init /\ [][Next]_vars

-----------------------------------------------------------------------------
(* Properties *)

Places == Callback \union {"app", "idp", "home", "failed"}
Flows == 0..MaxLogins
Request == [at : Places, flow : Flows, user : Users \union {None}, state : Flows,
            nonce : Flows, role : Roles, session : Session \union {None}]
Texts == {"full", "stripped"}

ServerTypeOK ==
    /\ now \in Nat
    /\ admins \subseteq Users /\ revoked \in [Users -> Nat]
    /\ changes \in 0..MaxChanges
    /\ actors \subseteq Users /\ doneBy \in actors \union {None}
    /\ stored \in Texts

BrowserTypeOK ==
    /\ jar \in [state : Flows, nonce : Flows, session : Session \union {None}]
    /\ nav \in [Tabs -> Request]
    /\ \A t \in Tabs :
        /\ nav[t].at \in Callback \union {"failed"} => nav[t].user \in Users
        /\ nav[t].session # None => nav[t].at = "respond"
    /\ me \in [Tabs -> [user : Users, role : Roles] \union {None}]
    /\ view \in [Tabs -> Texts \union {"none"}]

FlowTypeOK ==
    /\ logins \in Flows /\ faults \in 0..MaxFaults
    /\ codes \subseteq Flows /\ answered \subseteq Flows
    /\ mixed \in BOOLEAN

\* The state is well formed: a callback has a user, a session is set by an answer
\* only, and completions are credited to users with a row in actors.
TypeOK == ServerTypeOK /\ BrowserTypeOK /\ FlowTypeOK

\* RequireAdmin lets nobody through who is no administrator and has not been one
\* within sessionMaxAge, whatever sign-ins overlapped with the change of the groups
\* (the session keeps the role, Issue and Read bound its age).
RevocationBounded ==
    Admitted => \/ ReadSession.user \in admins
                \/ now <= revoked[ReadSession.user] + MaxAge

\* The internal texts of a rollout are replaced by what stripInternal left of them
\* only if a tab of an administrator fetched while the browser's session was one of
\* readonly: no other sequence of sign-ins, reloads and saves loses them.
InternalTextSurvives == stored = "stripped" => mixed

\* Once a callback has been answered, successfully or not, the state and nonce of its
\* sign-in are in no cookie any more (ClearOIDCCookies), so that no later request,
\* from any tab, can pass with them.
NoStaleNonce ==
    /\ jar.state # 0 => jar.state \notin answered
    /\ jar.nonce # 0 => jar.nonce \notin answered
=============================================================================
