----------------------------- MODULE LiveService -----------------------------
(***************************************************************************)
(* The browser's end of the live channel,                                  *)
(* frontend/src/app/core/live.service.ts.                                  *)
(*                                                                         *)
(* Every browser tab runs one LiveService.  Its private fields are the     *)
(* record svc[t]; the methods that call each other (openSocket,            *)
(* scheduleReconnect, handleDrop, ...) are operators from one such record  *)
(* to the next.  A timer handle is TRUE while the timeout is pending;      *)
(* how long it takes is left to the scheduler, so timers may fire in any   *)
(* order.                                                                  *)
(*                                                                         *)
(* net[k] is what the browser knows of WebSocket k.  A failing socket      *)
(* fires "error" and, later, "close"; a socket that is closed cleanly      *)
(* fires "close" only.                                                     *)
(***************************************************************************)
EXTENDS Integers, FiniteSets

CONSTANTS
    Tabs,           \* browser tabs, one LiveService each
    Sockets,        \* identities of WebSocket objects
    TabOf,          \* the tab a WebSocket belongs to
    NoSocket,       \* null, or the outcome of a socket factory that throws
    BACKOFF_START,  \* 500 ms in the code
    BACKOFF_CAP,    \* 8000 ms in the code
    MaxFrame        \* bound of the model: largest revision in a frame

ASSUME LiveServiceAssumption ==
    /\ TabOf \in [Sockets -> Tabs]
    /\ NoSocket \notin Sockets
    /\ BACKOFF_START \in Nat \ {0}
    /\ BACKOFF_CAP \in Nat
    /\ BACKOFF_START <= BACKOFF_CAP
    /\ MaxFrame \in Nat

VARIABLES
    svc,  \* svc[t]: the fields of tab t's LiveService
    net   \* net[k]: the browser's state of socket k

liveVars == <<svc, net>>

Statuses == {"connecting", "live", "reconnecting", "offline"}

Service ==
    [status         : Statuses,
     socket         : Sockets \union {NoSocket},
     attached       : SUBSET Sockets,   \* sockets whose on* handlers are set
     connecting     : BOOLEAN,
     stopped        : BOOLEAN,
     backoff        : BACKOFF_START .. BACKOFF_CAP,
     lastRev        : Nat,
     reconnectTimer : BOOLEAN,
     bumpTimer      : BOOLEAN,
     stableTimer    : BOOLEAN]

LiveTypeOK ==
    /\ svc \in [Tabs -> Service]
    /\ net \in [Sockets -> {"none", "opening", "open", "closing"}]

\* The field initialisers of the class.
NewService ==
    [status |-> "offline", socket |-> NoSocket, attached |-> {},
     connecting |-> FALSE, stopped |-> FALSE, backoff |-> BACKOFF_START,
     lastRev |-> 0, reconnectTimer |-> FALSE, bumpTimer |-> FALSE,
     stableTimer |-> FALSE]

LiveInit ==
    /\ svc = [t \in Tabs |-> NewService]
    /\ net = [k \in Sockets |-> "none"]

-----------------------------------------------------------------------------
(* Methods *)

\* Faulty variant: no cap.
NextBackoff_Uncapped(d) == 2 * d

\* Exponential growth up to the cap.
NextBackoff(d) == IF 2 * d <= BACKOFF_CAP THEN 2 * d ELSE BACKOFF_CAP

\* scheduleReconnect(): nothing when stopped, one timer at a time.
ScheduleReconnect(s) ==
    IF s.stopped \/ s.reconnectTimer
    THEN s
    ELSE [s EXCEPT !.backoff = NextBackoff(@), !.reconnectTimer = TRUE]

\* scheduleBump(): (re)start the debounce timer.
ScheduleBump(s) == [s EXCEPT !.bumpTimer = TRUE]

\* Faulty variant: lastRev survives the reconnect.
OpenSocket_KeepsRev(s, k) ==
    LET o == [s EXCEPT !.status = IF @ = "offline" THEN "connecting" ELSE @] IN
    IF k = NoSocket
    THEN ScheduleReconnect([o EXCEPT !.connecting = FALSE])
    ELSE [o EXCEPT !.connecting = TRUE, !.socket = k,
                   !.attached = @ \union {k}]

\* Faulty variant: a factory that throws is not retried.
OpenSocket_GivesUp(s, k) ==
    LET o == [s EXCEPT !.status = IF @ = "offline" THEN "connecting" ELSE @,
                       !.lastRev = 0] IN
    IF k = NoSocket
    THEN [o EXCEPT !.connecting = FALSE]
    ELSE [o EXCEPT !.connecting = TRUE, !.socket = k,
                   !.attached = @ \union {k}]

\* openSocket(); k is the socket the factory returns, NoSocket if it throws.
OpenSocket(s, k) ==
    LET o == [s EXCEPT !.status = IF @ = "offline" THEN "connecting" ELSE @,
                       !.lastRev = 0] IN
    IF k = NoSocket
    THEN ScheduleReconnect([o EXCEPT !.connecting = FALSE])
    ELSE [o EXCEPT !.connecting = TRUE, !.socket = k,
                   !.attached = @ \union {k}]

\* s.onopen: live, arm the stability timer, one debounced catch-up refetch.
OnOpen(s) ==
    ScheduleBump([s EXCEPT !.connecting = FALSE, !.status = "live",
                           !.stableTimer = TRUE])

\* s.onmessage: revision 0 stands for a malformed frame, ignored like a stale
\* one because lastRev is never negative.
OnMessage(s, r) ==
    IF r <= s.lastRev THEN s ELSE ScheduleBump([s EXCEPT !.lastRev = r])

\* Faulty variant: the handlers of the dropped socket stay attached.
HandleDrop_Attached(s) ==
    LET d == [s EXCEPT !.connecting = FALSE, !.socket = NoSocket,
                       !.stableTimer = FALSE] IN
    IF s.stopped THEN d
    ELSE ScheduleReconnect([d EXCEPT !.status = "reconnecting"])

\* Faulty variant: the stability timer keeps running.
HandleDrop_KeepsStable(s) ==
    LET d == [s EXCEPT !.connecting = FALSE, !.socket = NoSocket,
                       !.attached = @ \ {s.socket}] IN
    IF s.stopped THEN d
    ELSE ScheduleReconnect([d EXCEPT !.status = "reconnecting"])

\* handleDrop(): detach the dropped socket, and retry unless stopped.
HandleDrop(s) ==
    LET d == [s EXCEPT !.connecting = FALSE, !.socket = NoSocket,
                       !.attached = @ \ {s.socket}, !.stableTimer = FALSE] IN
    IF s.stopped THEN d
    ELSE ScheduleReconnect([d EXCEPT !.status = "reconnecting"])

\* Faulty variant: a pending reconnect survives the sign-out.
Disconnected_KeepsTimer(s) ==
    [s EXCEPT !.stopped = TRUE, !.connecting = FALSE,
              !.bumpTimer = FALSE, !.stableTimer = FALSE,
              !.attached = @ \ {s.socket}, !.socket = NoSocket,
              !.status = "offline"]

\* disconnect(): clear the timers, detach and close the socket.
Disconnected(s) ==
    [s EXCEPT !.stopped = TRUE, !.connecting = FALSE,
              !.reconnectTimer = FALSE, !.bumpTimer = FALSE,
              !.stableTimer = FALSE, !.attached = @ \ {s.socket},
              !.socket = NoSocket, !.status = "offline"]

-----------------------------------------------------------------------------
(* Calls, timers and socket events *)

\* A socket object the tab can create next, or a factory that throws.
Creatable(t) ==
    {k \in Sockets : TabOf[k] = t /\ net[k] = "none"} \union {NoSocket}

Dialed(k) == IF k = NoSocket THEN net ELSE [net EXCEPT ![k] = "opening"]

\* connect(), called once by the app initializer when a user is signed in.
\* The guard of the code also refuses a second call while a socket is up.
Connect(t, k) ==
    /\ svc[t].status = "offline" /\ ~svc[t].stopped
    /\ svc[t].socket = NoSocket /\ ~svc[t].connecting
    /\ k \in Creatable(t)
    /\ svc' = [svc EXCEPT ![t] = OpenSocket(@, k)]
    /\ net' = Dialed(k)

\* The reconnect timeout fires.
FireReconnect(t, k) ==
    /\ svc[t].reconnectTimer
    /\ k \in Creatable(t)
    /\ svc' = [svc EXCEPT
                 ![t] = OpenSocket([@ EXCEPT !.reconnectTimer = FALSE], k)]
    /\ net' = Dialed(k)

\* The debounce timeout fires: bus.bump().
FireBump(t) ==
    /\ svc[t].bumpTimer
    /\ svc' = [svc EXCEPT ![t].bumpTimer = FALSE]
    /\ UNCHANGED net

\* The connection has stayed open long enough: the backoff starts over.
FireStable(t) ==
    /\ svc[t].stableTimer
    /\ svc' = [svc EXCEPT ![t].stableTimer = FALSE,
                          ![t].backoff = BACKOFF_START]
    /\ UNCHANGED net

\* disconnect(), called by the auth interceptor on a 401 with a session.
Disconnect(t) ==
    /\ svc[t].status # "offline"
    /\ svc' = [svc EXCEPT ![t] = Disconnected(@)]
    /\ net' = [k \in Sockets |->
                 IF k = svc[t].socket THEN "closing" ELSE net[k]]

\* The page is loaded anew (a reload, or the sign-in round trip after a 401):
\* a fresh service; the sockets of the old page die without an event.
PageLoad(t) ==
    /\ svc[t].status # "offline" \/ svc[t].stopped
    /\ svc' = [svc EXCEPT ![t] = NewService]
    /\ net' = [k \in Sockets |-> IF TabOf[k] = t THEN "none" ELSE net[k]]

\* The handler of an event on socket k runs only while it is attached.
Handled(k, s) ==
    IF k \in svc[TabOf[k]].attached THEN [svc EXCEPT ![TabOf[k]] = s] ELSE svc

\* The handshake of socket k completes.
Opened(k) ==
    /\ net[k] = "opening"
    /\ net' = [net EXCEPT ![k] = "open"]
    /\ svc' = Handled(k, OnOpen(svc[TabOf[k]]))

\* A frame with revision r arrives on socket k.
Message(k, r) ==
    /\ net[k] = "open"
    /\ svc' = Handled(k, OnMessage(svc[TabOf[k]], r))
    /\ UNCHANGED net

\* Socket k fails: its error event; its close event follows.
Errored(k) ==
    /\ net[k] \in {"opening", "open"}
    /\ net' = [net EXCEPT ![k] = "closing"]
    /\ svc' = Handled(k, HandleDrop(svc[TabOf[k]]))

\* Socket k is closed: its close event.
Closed(k) ==
    /\ net[k] \in {"open", "closing"}
    /\ net' = [net EXCEPT ![k] = "none"]
    /\ svc' = Handled(k, HandleDrop(svc[TabOf[k]]))

LiveNext ==
    \/ \E t \in Tabs :
          \/ \E k \in Sockets \union {NoSocket} :
                Connect(t, k) \/ FireReconnect(t, k)
          \/ FireBump(t) \/ FireStable(t) \/ Disconnect(t) \/ PageLoad(t)
    \/ \E k \in Sockets :
          \/ Opened(k) \/ Errored(k) \/ Closed(k)
          \/ \E r \in 0 .. MaxFrame : Message(k, r)

LiveSpec == LiveInit /\ [][LiveNext]_liveVars

-----------------------------------------------------------------------------
(* Properties *)

\* A tab never leaks a WebSocket: one that is opening or open is the one the
\* service holds, with its handlers attached, and no other socket has handlers.
\* In particular the late "close" of a failed socket cannot tear down its
\* successor (handleDrop: "Detach the dropped socket's handlers").
NoLeakedSocket ==
    /\ \A k \in Sockets :
          net[k] \in {"opening", "open"} => svc[TabOf[k]].socket = k
    /\ \A t \in Tabs :
          svc[t].attached = {svc[t].socket} \ {NoSocket}

\* A signed-in tab is never wedged: once connect() has run, until disconnect()
\* there is a socket that is up or coming up, or a pending reconnect, and never
\* both ("one timer at a time", "guard double-connect").
NeverWedged ==
    \A t \in Tabs :
        LET s == svc[t] IN
        /\ s.status # "offline" => (s.socket = NoSocket <=> s.reconnectTimer)
        /\ s.socket # NoSocket => net[s.socket] \in {"opening", "open"}

\* After the 401 that ends a session the service is silent for good: no timer
\* of any kind, no socket, no handler, and the indicator says "offline".
StoppedIsSilent ==
    \A t \in Tabs :
        LET s == svc[t] IN
        s.stopped =>
            /\ ~s.reconnectTimer /\ ~s.bumpTimer /\ ~s.stableTimer
            /\ s.socket = NoSocket /\ s.attached = {}
            /\ s.status = "offline"

\* The header indicator tells the truth: "live" exactly while the service's
\* socket is open.
IndicatorTruthful ==
    \A t \in Tabs :
        LET s == svc[t] IN
        s.status = "live" <=> s.socket # NoSocket /\ net[s.socket] = "open"

\* The backoff is only ever reset by a connection that is open at that very
\* moment and has been since the stability timer was armed (STABLE_AFTER_MS:
\* an accept-then-drop server must not be hammered), or by loading the page.
BackoffResetsOnlyWhenLive ==
    [][\A t \in Tabs : svc'[t].backoff < svc[t].backoff =>
          \/ svc[t].status = "live" /\ svc'[t].socket = svc[t].socket
          \/ svc'[t] = NewService]_liveVars
=============================================================================
