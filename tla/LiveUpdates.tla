----------------------------- MODULE LiveUpdates -----------------------------
(***************************************************************************)
(* Live updates end to end: the mutation handlers                          *)
(* (backend/internal/api/handlers.go), the hub, the WebSocket handler with *)
(* its two pumps (backend/internal/api/ws.go), the browser's LiveService   *)
(* and a data view that refetches on every tick of the RefreshBus.         *)
(*                                                                         *)
(* The database is the number of committed mutations, dbv; a view is the   *)
(* number of mutations the last response it rendered had seen.  A socket   *)
(* of the browser is a client of the hub.                                  *)
(***************************************************************************)
EXTENDS Hub, LiveService

CONSTANTS
    MaxCommits,     \* bound of the model: mutations committed
    MaxFaults,      \* bound of the model: crashes, broken sockets, reloads
    RereadMayFail,  \* may the re-read after a commit fail? (repository.go)
    PromptRegister, \* does Register run within the 150 ms debounce of onopen?
    FetchMayFail,   \* may a refetch end in a transient error?
    KeepOnError     \* catchError => EMPTY (rollout-detail), else => of([])

ASSUME LiveUpdatesAssumption ==
    /\ Clients = Sockets
    /\ MaxFrame = MaxRev
    /\ MaxCommits \in Nat /\ MaxFaults \in Nat
    /\ RereadMayFail \in BOOLEAN /\ PromptRegister \in BOOLEAN
    /\ FetchMayFail \in BOOLEAN /\ KeepOnError \in BOOLEAN

VARIABLES
    dbv,       \* mutations committed so far
    mutating,  \* mutating[w]: w has committed and not yet called Broadcast
    peer,      \* peer[k]: where the ws handler of socket k is
    wire,      \* wire[k]: frames written and not yet received, oldest first
    fetch,     \* fetch[t]: the refetches whose response tab t would render
    view,      \* view[t]: what tab t shows; Blank when it shows nothing
    faults     \* faults so far

vars == <<hubVars, liveVars, dbv, mutating, peer, wire, fetch, view, faults>>

Blank == -1
Sent == [st |-> "sent", v |-> 0]
Requests == [st : {"sent", "served"}, v : 0 .. MaxCommits]

TypeOK ==
    /\ HubTypeOK /\ LiveTypeOK
    /\ dbv \in 0 .. MaxCommits
    /\ mutating \in [Broadcasters -> BOOLEAN]
    /\ peer \in [Sockets -> {"none", "accepted", "registered", "gone"}]
    /\ wire \in [Sockets -> Seq(Revs)]
    /\ fetch \in [Tabs -> SUBSET Requests]
    /\ view \in [Tabs -> {Blank} \union (0 .. MaxCommits)]
    /\ faults \in 0 .. MaxFaults

\* Every page starts with a fetch: tick$ has a startWith(0).
Init ==
    /\ HubInit /\ LiveInit
    /\ dbv = 0
    /\ mutating = [w \in Broadcasters |-> FALSE]
    /\ peer = [k \in Sockets |-> "none"]
    /\ wire = [k \in Sockets |-> <<>>]
    /\ fetch = [t \in Tabs |-> {Sent}]
    /\ view = [t \in Tabs |-> Blank]
    /\ faults = 0

\* One more of the faults the model allows.
Fault == faults < MaxFaults /\ faults' = faults + 1

-----------------------------------------------------------------------------
(* Mutation handlers *)

\* The repository commits the mutation of request w.
Commit(w) ==
    /\ ~mutating[w] /\ stamped[w] = 0
    /\ dbv < MaxCommits
    /\ dbv' = dbv + 1
    /\ mutating' = [mutating EXCEPT ![w] = TRUE]
    /\ UNCHANGED <<hubVars, liveVars, peer, wire, fetch, view, faults>>

\* CreateRollout and UpdateRollout read the row back after the commit; when that
\* fails (the request context is cancelled) the handler returns the error.
RereadFails(w) ==
    /\ RereadMayFail
    /\ mutating[w]
    /\ mutating' = [mutating EXCEPT ![w] = FALSE]
    /\ UNCHANGED <<hubVars, liveVars, dbv, peer, wire, fetch, view, faults>>

\* The handler calls Broadcast, which takes its revision ...
BroadcastStart(w) ==
    /\ mutating[w]
    /\ Stamp(w)
    /\ mutating' = [mutating EXCEPT ![w] = FALSE]
    /\ UNCHANGED <<liveVars, dbv, peer, wire, fetch, view, faults>>

\* ... and delivers under the mutex.
BroadcastEnd(w) ==
    /\ Deliver(w)
    /\ UNCHANGED <<liveVars, dbv, mutating, peer, wire, fetch, view, faults>>

-----------------------------------------------------------------------------
(* The ws handler *)

\* websocket.Accept: the handshake response is on its way to the browser.
Accept(k) ==
    /\ net[k] = "opening" /\ peer[k] = "none"
    /\ peer' = [peer EXCEPT ![k] = "accepted"]
    /\ UNCHANGED <<hubVars, liveVars, dbv, mutating, wire, fetch, view, faults>>

\* Hub.Register, or the policy-violation close when the user is at the cap.
RegisterConn(k) ==
    /\ peer[k] = "accepted"
    /\ \/ Register(k) /\ peer' = [peer EXCEPT ![k] = "registered"]
       \/ Refuse(k) /\ peer' = [peer EXCEPT ![k] = "gone"]
    /\ UNCHANGED <<liveVars, dbv, mutating, wire, fetch, view, faults>>

\* The write pump writes one event to the peer.
WritePump(k) ==
    /\ peer[k] = "registered"
    /\ Drain(k)
    /\ wire' = [wire EXCEPT ![k] = Append(@, Head(send[k]))]
    /\ UNCHANGED <<liveVars, dbv, mutating, peer, fetch, view, faults>>

\* Faulty variant: the deferred Unregister is missing.
PumpExit_Leaks(k) ==
    /\ peer[k] = "registered"
    /\ \/ net[k] \in {"none", "closing"} /\ UNCHANGED faults
       \/ net[k] \in {"opening", "open"} /\ Fault
    /\ UNCHANGED hubVars
    /\ peer' = [peer EXCEPT ![k] = "gone"]
    /\ UNCHANGED <<liveVars, dbv, mutating, wire, fetch, view>>

\* The pumps end and the deferred calls run: the read pump or a ping notices
\* that the peer has left, or a write fails or times out.
PumpExit(k) ==
    /\ peer[k] = "registered"
    /\ \/ net[k] \in {"none", "closing"} /\ UNCHANGED faults
       \/ net[k] \in {"opening", "open"} /\ Fault
    /\ Unregister(k)
    /\ peer' = [peer EXCEPT ![k] = "gone"]
    /\ UNCHANGED <<liveVars, dbv, mutating, wire, fetch, view>>

\* The server process dies and is started again.  Requests it was serving are
\* lost, a refetch among them, and so is every socket.
Crash ==
    /\ Fault
    /\ Restart
    /\ mutating' = [w \in Broadcasters |-> FALSE]
    /\ peer' = [k \in Sockets |-> IF peer[k] = "none" THEN "none" ELSE "gone"]
    /\ fetch' = [t \in Tabs |-> {f \in fetch[t] : f.st = "served"}]
    /\ view' = [t \in Tabs |-> IF fetch'[t] = fetch[t] \/ KeepOnError
                               THEN view[t] ELSE Blank]
    /\ UNCHANGED <<liveVars, dbv, wire>>

-----------------------------------------------------------------------------
(* The browser *)

\* A socket object is reused once both ends are done with the old connection.
Fresh(k) ==
    /\ k # NoSocket => peer[k] \in {"none", "gone"}
    /\ peer' = [j \in Sockets |-> IF j = k THEN "none" ELSE peer[j]]
    /\ wire' = [j \in Sockets |-> IF j = k THEN <<>> ELSE wire[j]]

Dial(t, k) ==
    /\ Connect(t, k) \/ FireReconnect(t, k)
    /\ Fresh(k)
    /\ UNCHANGED <<hubVars, dbv, mutating, fetch, view, faults>>

SocketOpens(k) ==
    /\ peer[k] # "none"
    /\ Opened(k)
    /\ UNCHANGED <<hubVars, dbv, mutating, peer, wire, fetch, view, faults>>

\* Frames arrive in order.
Receive(k) ==
    /\ wire[k] # <<>>
    /\ Message(k, Head(wire[k]))
    /\ wire' = [wire EXCEPT ![k] = Tail(@)]
    /\ UNCHANGED <<hubVars, dbv, mutating, peer, fetch, view, faults>>

\* The connection breaks, or cannot be set up.
SocketFails(k) ==
    /\ Fault
    /\ Errored(k)
    /\ UNCHANGED <<hubVars, dbv, mutating, peer, wire, fetch, view>>

\* The browser learns that the server's end is gone, or finishes its own close.
SocketCloses(k) ==
    /\ net[k] = "closing" \/ peer[k] = "gone"
    /\ Closed(k)
    /\ UNCHANGED <<hubVars, dbv, mutating, peer, wire, fetch, view, faults>>

\* Faulty variant: mergeMap, the older refetch goes on.
Refetch_Merge(t) == [fetch EXCEPT ![t] = @ \union {Sent}]

\* RefreshBus.bump() through the view's switchMap: a new refetch replaces the
\* one in flight.
Refetch(t) == [fetch EXCEPT ![t] = {Sent}]

\* The debounce timer fires.  Under PromptRegister the 150 ms it has run since
\* onopen outlast the ws handler's way from Accept to Register.
Bump(t) ==
    /\ PromptRegister => \A k \in Sockets :
          svc[t].socket = k /\ net[k] = "open" => peer[k] # "accepted"
    /\ FireBump(t)
    /\ fetch' = Refetch(t)
    /\ UNCHANGED <<hubVars, dbv, mutating, peer, wire, view, faults>>

Stabilise(t) ==
    /\ FireStable(t)
    /\ UNCHANGED <<hubVars, dbv, mutating, peer, wire, fetch, view, faults>>

\* The server answers a refetch with what is committed at that moment.
Serve(t) ==
    \E f \in fetch[t] :
        /\ f.st = "sent"
        /\ fetch' = [fetch EXCEPT
                       ![t] = (@ \ {f}) \union {[st |-> "served", v |-> dbv]}]
        /\ UNCHANGED <<hubVars, liveVars, dbv, mutating, peer, wire, view, faults>>

\* The response is rendered.
Render(t) ==
    \E f \in fetch[t] :
        /\ f.st = "served"
        /\ fetch' = [fetch EXCEPT ![t] = @ \ {f}]
        /\ view' = [view EXCEPT ![t] = f.v]
        /\ UNCHANGED <<hubVars, liveVars, dbv, mutating, peer, wire, faults>>

\* What catchError leaves on the screen.
OnError(t) == [view EXCEPT ![t] = IF KeepOnError THEN @ ELSE Blank]

\* A refetch ends in a transient error.
FetchFails(t) ==
    /\ FetchMayFail /\ Fault
    /\ \E f \in fetch[t] : fetch' = [fetch EXCEPT ![t] = @ \ {f}]
    /\ view' = OnError(t)
    /\ UNCHANGED <<hubVars, liveVars, dbv, mutating, peer, wire>>

\* A refetch is answered 401: the auth interceptor disconnects the service.
SessionExpires(t) ==
    /\ Fault
    /\ \E f \in fetch[t] : f.st = "sent" /\ fetch' = [fetch EXCEPT ![t] = @ \ {f}]
    /\ Disconnect(t)
    /\ view' = OnError(t)
    /\ UNCHANGED <<hubVars, dbv, mutating, peer, wire>>

\* The page is loaded again.
Reload(t) ==
    /\ Fault
    /\ PageLoad(t)
    /\ fetch' = [fetch EXCEPT ![t] = {Sent}]
    /\ view' = [view EXCEPT ![t] = Blank]
    /\ UNCHANGED <<hubVars, dbv, mutating, peer, wire>>

-----------------------------------------------------------------------------
Mutator(w) == Commit(w) \/ RereadFails(w) \/ BroadcastStart(w) \/ BroadcastEnd(w)

WsHandler(k) == Accept(k) \/ RegisterConn(k) \/ WritePump(k) \/ PumpExit(k)

SocketEvent(k) == SocketOpens(k) \/ Receive(k) \/ SocketFails(k) \/ SocketCloses(k)

Tab(t) ==
    \/ \E k \in Sockets \union {NoSocket} : Dial(t, k)
    \/ Bump(t) \/ Stabilise(t) \/ Serve(t) \/ Render(t)
    \/ FetchFails(t) \/ SessionExpires(t) \/ Reload(t)

Next ==
    \/ \E w \in Broadcasters : Mutator(w)
    \/ \E k \in Sockets : WsHandler(k) \/ SocketEvent(k)
    \/ \E t \in Tabs : Tab(t)
    \/ Crash

\* Goroutines that can run do run, timers fire, and once the faults are over the
\* network delivers: handshakes complete, frames and close events arrive,
\* refetches are answered.  Nothing forces a commit, a fault or a sign-out.
Fairness ==
    /\ \A w \in Broadcasters :
          WF_vars(BroadcastStart(w)) /\ WF_vars(BroadcastEnd(w))
    /\ \A k \in Sockets :
          /\ WF_vars(Accept(k)) /\ WF_vars(RegisterConn(k))
          /\ WF_vars(WritePump(k))
          /\ WF_vars(PumpExit(k) /\ net[k] \in {"none", "closing"})
          /\ WF_vars(SocketOpens(k)) /\ WF_vars(Receive(k))
          /\ WF_vars(SocketCloses(k))
    /\ \A t \in Tabs :
          /\ WF_vars(\E k \in Sockets : Dial(t, k))
          /\ WF_vars(Bump(t)) /\ WF_vars(Serve(t)) /\ WF_vars(Render(t))

Spec == Init /\ [][Next]_vars
FairSpec == Spec /\ Fairness

-----------------------------------------------------------------------------
(* Properties *)

Quiet == \A w \in Broadcasters : ~mutating[w] /\ stamped[w] = 0

\* Tab t is live, the server pushes to it, and nothing is on its way to it.
Settled(t) ==
    LET k == svc[t].socket IN
    /\ svc[t].status = "live" /\ ~svc[t].bumpTimer /\ fetch[t] = {}
    /\ peer[k] = "registered" /\ send[k] = <<>> /\ wire[k] = <<>>

\* No update is lost: when every mutation has been broadcast and a live tab has
\* nothing left to receive, it shows the state of the database.  Events may be
\* delivered out of revision order, dropped on a full channel and discarded by
\* the rev <= lastRev test, sockets break and the server restarts in between
\* (hub.go: "so no data is lost").
NoLostUpdate ==
    Quiet => \A t \in Tabs : Settled(t) => view[t] = dbv

\* Every commit is broadcast: with no request in flight as many revisions have
\* been handed out as mutations committed, since the server last started.
EveryCommitBroadcast ==
    Quiet /\ faults = 0 => rev = dbv

\* A user's slots are the connections whose handler is between Register and its
\* deferred Unregister, and never more than the cap: whichever pump ends first,
\* whichever end broke and however often the page was loaded, no slot leaks and
\* none is given back twice (ws.go, "defer s.Hub.Unregister(client)").
SlotsExact ==
    \A u \in Users :
        /\ counts[u] = Cardinality({k \in Sockets :
                                     peer[k] = "registered" /\ UserOf[k] = u})
        /\ counts[u] <= maxPerUser

\* What a tab shows never goes back in time and never turns blank, except when
\* the page is loaded again.
ViewNeverRegresses ==
    [][\A t \in Tabs : view'[t] >= view[t] \/ svc'[t] = NewService]_vars

\* Once commits and faults have ceased every tab ends up live and showing the
\* database, unless it was signed out: reconnects are not given up, half-open
\* sockets do not hold the user's slots for ever, and no event wedges the tab.
EventuallyFresh ==
    \A t \in Tabs :
        <>[](svc[t].stopped \/ (svc[t].status = "live" /\ view[t] = dbv))
=============================================================================
