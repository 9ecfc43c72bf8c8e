--------------------------------- MODULE Hub ---------------------------------
(***************************************************************************)
(* The in-process fan-out of live-update events,                           *)
(* backend/internal/hub/hub.go.                                            *)
(*                                                                         *)
(* A hub keeps the set of registered clients (one per WebSocket), the      *)
(* number of connections of every user, and a revision counter.  An event  *)
(* carries no domain data and its entity, id and action play no part in    *)
(* delivery, so an event is its revision.  A client's Send channel is a    *)
(* sequence of at most clientBuffer revisions.                             *)
(*                                                                         *)
(* Broadcast is two steps: the revision is taken with an atomic increment  *)
(* BEFORE the mutex is locked, so two broadcasters may deliver in the      *)
(* order opposite to their revisions.  Everything done under the mutex is  *)
(* one step.                                                               *)
(***************************************************************************)
EXTENDS Integers, Sequences, FiniteSets

CONSTANTS
    Users,         \* user ids a session can carry
    Clients,       \* identities of *Client values (one per WebSocket)
    UserOf,        \* the user a client is registered for
    Broadcasters,  \* request goroutines that may be inside Broadcast
    clientBuffer,  \* capacity of a client's Send channel (32 in the code)
    maxPerUser,    \* live connections allowed per user (8 in the code)
    MaxRev         \* bound of the model: revisions handed out per process

ASSUME HubAssumption ==
    /\ IsFiniteSet(Clients)
    /\ UserOf \in [Clients -> Users]
    /\ clientBuffer \in Nat \ {0}
    /\ maxPerUser \in Nat \ {0}
    /\ MaxRev \in Nat

VARIABLES
    clients,  \* h.clients: the registered clients
    counts,   \* h.counts: connections per user; 0 stands for an absent key
    rev,      \* h.rev: the last revision handed out
    send,     \* the content of every client's Send channel, oldest first
    stamped   \* the revision a broadcaster carries between rev.Add(1) and
              \* its turn at the mutex; 0 when it is not in Broadcast

hubVars == <<clients, counts, rev, send, stamped>>

Revs == 1 .. MaxRev

HubTypeOK ==
    /\ clients \in SUBSET Clients
    /\ counts \in [Users -> Nat]
    /\ rev \in 0 .. MaxRev
    /\ send \in [Clients -> Seq(Revs)]
    /\ \A c \in Clients : Len(send[c]) <= clientBuffer
    /\ stamped \in [Broadcasters -> 0 .. MaxRev]

\* hub.New: an empty hub.
HubInit ==
    /\ clients = {}
    /\ counts = [u \in Users |-> 0]
    /\ rev = 0
    /\ send = [c \in Clients |-> <<>>]
    /\ stamped = [w \in Broadcasters |-> 0]

-----------------------------------------------------------------------------
(* Registry *)

\* Faulty variant: one connection too many.
HasRoom_OffByOne(u) == counts[u] <= maxPerUser

\* The test of Register's early return: the user still has room.
HasRoom(u) == counts[u] < maxPerUser

\* Register(userID), ok = true: a fresh client with an empty channel.
Register(c) ==
    /\ c \notin clients
    /\ HasRoom(UserOf[c])
    /\ clients' = clients \union {c}
    /\ counts' = [counts EXCEPT ![UserOf[c]] = @ + 1]
    /\ send' = [send EXCEPT ![c] = <<>>]
    /\ UNCHANGED <<rev, stamped>>

\* Register(userID), ok = false: the hub is left alone.
Refuse(c) ==
    /\ c \notin clients
    /\ ~HasRoom(UserOf[c])
    /\ UNCHANGED hubVars

\* Unregister may be called more than once; only the first call counts.  The
\* key of a user whose count drops to zero is deleted.
Unregister(c) ==
    LET u == UserOf[c] IN
    /\ clients' = clients \ {c}
    /\ counts' = IF c \in clients
                 THEN [counts EXCEPT ![u] = IF @ - 1 <= 0 THEN 0 ELSE @ - 1]
                 ELSE counts
    /\ UNCHANGED <<rev, send, stamped>>

-----------------------------------------------------------------------------
(* Broadcast *)

\* Faulty variant: rev++ is a read and a write that another one may overwrite.
Stamp_NotAtomic(w) ==
    /\ stamped[w] = 0
    /\ rev < MaxRev
    /\ rev' \in {rev, rev + 1}
    /\ stamped' = [stamped EXCEPT ![w] = rev + 1]
    /\ UNCHANGED <<clients, counts, send>>

\* The first half of Broadcast: Rev: h.rev.Add(1), outside the mutex.
Stamp(w) ==
    /\ stamped[w] = 0
    /\ rev < MaxRev
    /\ rev' = rev + 1
    /\ stamped' = [stamped EXCEPT ![w] = rev + 1]
    /\ UNCHANGED <<clients, counts, send>>

\* Faulty variant: the channel grows without bound.
Offer_Unbounded(c, r) ==
    IF c \in clients THEN Append(send[c], r) ELSE send[c]

\* The non-blocking send to one client: a full channel drops the event.
Offer(c, r) ==
    IF c \in clients /\ Len(send[c]) < clientBuffer
    THEN Append(send[c], r)
    ELSE send[c]

\* The second half of Broadcast, under the mutex: offer to every client.
Deliver(w) ==
    /\ stamped[w] # 0
    /\ send' = [c \in Clients |-> Offer(c, stamped[w])]
    /\ stamped' = [stamped EXCEPT ![w] = 0]
    /\ UNCHANGED <<clients, counts, rev>>

\* The ws handler's write pump takes the oldest event: ev := <-client.Send.
\* The pump has returned before its deferred Unregister runs.
Drain(c) ==
    /\ c \in clients
    /\ send[c] # <<>>
    /\ send' = [send EXCEPT ![c] = Tail(@)]
    /\ UNCHANGED <<clients, counts, rev, stamped>>

\* The process is restarted: main builds a new hub, and the goroutines of the
\* old process are gone.
Restart ==
    /\ clients' = {}
    /\ counts' = [u \in Users |-> 0]
    /\ rev' = 0
    /\ send' = [c \in Clients |-> <<>>]
    /\ stamped' = [w \in Broadcasters |-> 0]

HubNext ==
    \/ \E c \in Clients : Register(c) \/ Refuse(c) \/ Unregister(c) \/ Drain(c)
    \/ \E w \in Broadcasters : Stamp(w) \/ Deliver(w)
    \/ Restart

HubSpec == HubInit /\ [][HubNext]_hubVars

-----------------------------------------------------------------------------
(* Properties *)

ConnectionsOf(u) == {c \in clients : UserOf[c] = u}

\* The counter the cap is enforced with never drifts from the registry, however
\* registrations, refusals and repeated Unregister calls interleave
\* (hub.go, Register and Unregister: "keep counts correct on double-unregister").
CountsExact ==
    \A u \in Users : counts[u] = Cardinality(ConnectionsOf(u))

\* No user ever holds more than maxPerUser registered connections (maxPerUser's
\* comment in hub.go).
CapHolds ==
    \A u \in Users : Cardinality(ConnectionsOf(u)) <= maxPerUser

InFlight == {stamped[w] : w \in Broadcasters} \ {0}

\* Every revision reaches a client at most once and names at most one event:
\* the revisions carried by concurrent broadcasters are distinct, none of them
\* is in a channel yet, no channel holds one twice, and none is ahead of the
\* counter.  The client's "rev <= lastRev" test relies on it.
RevisionsUnique ==
    /\ \A v, w \in Broadcasters :
          stamped[v] = stamped[w] /\ stamped[v] # 0 => v = w
    /\ \A w \in Broadcasters : stamped[w] <= rev
    /\ \A c \in Clients : \A i \in DOMAIN send[c] :
          /\ send[c][i] \notin InFlight
          /\ send[c][i] <= rev
          /\ \A j \in DOMAIN send[c] : send[c][i] = send[c][j] => i = j
=============================================================================
