------------------------- MODULE LiveUpdatesProofs -------------------------
(***************************************************************************)
(* The live channel.  First its two ends, each on its own: the hub, for    *)
(* any users, clients, concurrent broadcasters, channel capacity and cap,  *)
(* and the browser's LiveService, for any tabs, sockets and backoff        *)
(* parameters.  Then that handlers, browsers and hub together implement    *)
(* both, and what follows for live updates end to end.                     *)
(***************************************************************************)
EXTENDS LiveUpdates, FiniteSetTheorems, SequenceTheorems, TLAPS

-----------------------------------------------------------------------------
(* The hub *)

\* The non-blocking send keeps a channel a sequence of revisions within its
\* capacity, whatever revision is offered.
LEMMA OfferType ==
    ASSUME HubTypeOK, NEW c \in Clients, NEW r \in Revs
    PROVE  Offer(c, r) \in Seq(Revs) /\ Len(Offer(c, r)) <= clientBuffer
  <1>1. send[c] \in Seq(Revs) /\ Len(send[c]) \in Nat /\ Len(send[c]) <= clientBuffer
    BY DEF HubTypeOK
  <1>2. Append(send[c], r) \in Seq(Revs) /\ Len(Append(send[c], r)) = Len(send[c]) + 1
    BY <1>1
  <1> QED BY <1>1, <1>2, HubAssumption DEF HubAssumption, Offer

\* Every step of the hub preserves its type invariant.
LEMMA HubTypeStep == HubTypeOK /\ [HubNext]_hubVars => HubTypeOK'
  <1> SUFFICES ASSUME HubTypeOK, [HubNext]_hubVars
               PROVE  HubTypeOK'
    OBVIOUS
  <1> USE HubAssumption DEF HubAssumption
  <1>1. ASSUME NEW c \in Clients, Register(c)
        PROVE  HubTypeOK'
    <2>1. counts' \in [Users -> Nat]
      BY <1>1 DEF Register, HubTypeOK
    <2>2. send' \in [Clients -> Seq(Revs)] /\ \A d \in Clients : Len(send'[d]) <= clientBuffer
      BY <1>1 DEF Register, HubTypeOK
    <2> QED BY <1>1, <2>1, <2>2 DEF Register, HubTypeOK
  <1>2. ASSUME NEW c \in Clients, Refuse(c)
        PROVE  HubTypeOK'
    BY <1>2 DEF Refuse, HubTypeOK, hubVars
  <1>3. ASSUME NEW c \in Clients, Unregister(c)
        PROVE  HubTypeOK'
    <2>1. counts' \in [Users -> Nat]
      BY <1>3 DEF Unregister, HubTypeOK
    <2> QED BY <1>3, <2>1 DEF Unregister, HubTypeOK
  <1>4. ASSUME NEW c \in Clients, Drain(c)
        PROVE  HubTypeOK'
    <2>1. send[c] \in Seq(Revs) /\ send[c] # <<>> /\ Len(send[c]) <= clientBuffer
      BY <1>4 DEF Drain, HubTypeOK
    <2>2. Tail(send[c]) \in Seq(Revs) /\ Len(Tail(send[c])) <= clientBuffer
      BY <2>1
    <2> QED BY <1>4, <2>2 DEF Drain, HubTypeOK
  <1>5. ASSUME NEW w \in Broadcasters, Stamp(w)
        PROVE  HubTypeOK'
    BY <1>5 DEF Stamp, HubTypeOK
  <1>6. ASSUME NEW w \in Broadcasters, Deliver(w)
        PROVE  HubTypeOK'
    <2>1. stamped[w] \in Revs
      BY <1>6 DEF Deliver, HubTypeOK, Revs
    <2>2. \A c \in Clients : Offer(c, stamped[w]) \in Seq(Revs)
                             /\ Len(Offer(c, stamped[w])) <= clientBuffer
      BY <2>1, OfferType
    <2> QED BY <1>6, <2>2 DEF Deliver, HubTypeOK
  <1>7. CASE Restart
    BY <1>7 DEF Restart, HubTypeOK
  <1>8. CASE UNCHANGED hubVars
    BY <1>8 DEF hubVars, HubTypeOK
  <1> QED
    BY <1>1, <1>2, <1>3, <1>4, <1>5, <1>6, <1>7, <1>8 DEF HubNext

\* The hub's variables always have their types and no channel exceeds its
\* capacity (New, Register, Unregister, Broadcast and the write pump).
THEOREM HubTypeCorrect == HubSpec => []HubTypeOK
  <1>1. HubInit => HubTypeOK
    BY HubAssumption DEF HubAssumption, HubInit, HubTypeOK
  <1> QED BY <1>1, HubTypeStep, PTL DEF HubSpec

-----------------------------------------------------------------------------
(* The registry and its counters *)

\* Adding or removing one client moves the number of connections of its user by
\* one and leaves those of the other users alone.
LEMMA ConnectionsChange ==
    ASSUME NEW S \in SUBSET Clients, NEW c \in Clients, NEW u \in Users
    PROVE  LET Of(T) == {d \in T : UserOf[d] = u} IN
           /\ Cardinality(Of(S)) \in Nat
           /\ c \notin S => Cardinality(Of(S \union {c})) =
                 IF UserOf[c] = u THEN Cardinality(Of(S)) + 1 ELSE Cardinality(Of(S))
           /\ c \in S => Cardinality(Of(S \ {c})) =
                 IF UserOf[c] = u THEN Cardinality(Of(S)) - 1 ELSE Cardinality(Of(S))
           /\ c \in S /\ UserOf[c] = u => Cardinality(Of(S)) > 0
  <1> DEFINE Of(T) == {d \in T : UserOf[d] = u}
  <1>1. IsFiniteSet(Of(S))
    <2>1. Of(S) \subseteq Clients
      OBVIOUS
    <2> QED BY <2>1, HubAssumption, FS_Subset DEF HubAssumption
  <1>2. Cardinality(Of(S)) \in Nat
    BY <1>1, FS_CardinalityType
  <1>3. ASSUME c \notin S
        PROVE  Cardinality(Of(S \union {c})) =
                 IF UserOf[c] = u THEN Cardinality(Of(S)) + 1 ELSE Cardinality(Of(S))
    <2>1. CASE UserOf[c] = u
      <3>1. Of(S \union {c}) = Of(S) \union {c} /\ c \notin Of(S)
        BY <1>3, <2>1
      <3> HIDE DEF Of
      <3> QED BY <1>1, <2>1, <3>1, FS_AddElement
    <2>2. CASE UserOf[c] # u
      <3>1. Of(S \union {c}) = Of(S)
        BY <2>2
      <3> QED BY <2>2, <3>1
    <2> QED BY <2>1, <2>2
  <1>4. ASSUME c \in S
        PROVE  Cardinality(Of(S \ {c})) =
                 IF UserOf[c] = u THEN Cardinality(Of(S)) - 1 ELSE Cardinality(Of(S))
    <2>1. CASE UserOf[c] = u
      <3>1. Of(S \ {c}) = Of(S) \ {c} /\ c \in Of(S)
        BY <1>4, <2>1
      <3>2. Cardinality(Of(S) \ {c}) = Cardinality(Of(S)) - 1
        <4> HIDE DEF Of
        <4> QED BY <1>1, <3>1, FS_RemoveElement
      <3> QED BY <2>1, <3>1, <3>2
    <2>2. CASE UserOf[c] # u
      <3>1. Of(S \ {c}) = Of(S)
        BY <2>2
      <3> QED BY <2>2, <3>1
    <2> QED BY <2>1, <2>2
  <1>5. ASSUME c \in S, UserOf[c] = u
        PROVE  Cardinality(Of(S)) > 0
    <2>1. Of(S) # {}
      BY <1>5
    <2> HIDE DEF Of
    <2> QED BY <1>1, <1>2, <2>1, FS_EmptySet
  <1> QED BY <1>2, <1>3, <1>4, <1>5

\* The strengthening that makes the cap inductive: the cap is enforced on the
\* counters, and the counters are exact.
RegistryInv ==
    /\ HubTypeOK
    /\ CountsExact
    /\ \A u \in Users : counts[u] <= maxPerUser

\* Every step of the hub preserves the registry's invariant.
LEMMA RegistryStep == RegistryInv /\ [HubNext]_hubVars => RegistryInv'
  <1> SUFFICES ASSUME RegistryInv, [HubNext]_hubVars
               PROVE  RegistryInv'
    OBVIOUS
  <1> USE HubAssumption DEF HubAssumption
  <1>0. HubTypeOK'
    BY HubTypeStep DEF RegistryInv
  <1>1. ASSUME NEW c \in Clients, Register(c)
        PROVE  RegistryInv'
    <2>1. ASSUME NEW u \in Users
          PROVE  counts'[u] = Cardinality(ConnectionsOf(u))' /\ counts'[u] <= maxPerUser
      <3>1. counts[u] = Cardinality({d \in clients : UserOf[d] = u}) /\ counts[u] \in Nat
            /\ counts[u] <= maxPerUser
        BY DEF RegistryInv, CountsExact, ConnectionsOf, HubTypeOK
      <3>2. counts'[u] = IF UserOf[c] = u THEN counts[u] + 1 ELSE counts[u]
        BY <1>1 DEF Register, RegistryInv, HubTypeOK
      <3>3. clients' = clients \union {c} /\ c \notin clients /\ clients \in SUBSET Clients
        BY <1>1 DEF Register, RegistryInv, HubTypeOK
      <3>4. Cardinality({d \in clients' : UserOf[d] = u}) = counts'[u]
        BY <3>1, <3>2, <3>3, ConnectionsChange
      <3>5. counts'[u] <= maxPerUser
        BY <1>1, <3>1, <3>2 DEF Register, HasRoom
      <3> QED BY <3>4, <3>5 DEF ConnectionsOf
    <2> QED BY <1>0, <2>1 DEF RegistryInv, CountsExact
  <1>2. ASSUME NEW c \in Clients, Unregister(c)
        PROVE  RegistryInv'
    <2>1. ASSUME NEW u \in Users
          PROVE  counts'[u] = Cardinality(ConnectionsOf(u))' /\ counts'[u] <= maxPerUser
      <3>1. counts[u] = Cardinality({d \in clients : UserOf[d] = u}) /\ counts[u] \in Nat
            /\ counts[u] <= maxPerUser /\ clients \in SUBSET Clients
        BY DEF RegistryInv, CountsExact, ConnectionsOf, HubTypeOK
      <3>2. CASE c \in clients
        <4>1. counts'[u] = IF UserOf[c] = u
                           THEN (IF counts[u] - 1 <= 0 THEN 0 ELSE counts[u] - 1)
                           ELSE counts[u]
          BY <1>2, <3>2 DEF Unregister, RegistryInv, HubTypeOK
        <4>2. UserOf[c] = u => counts[u] > 0
          <5>1. UserOf[c] = u => Cardinality({d \in clients : UserOf[d] = u}) > 0
            BY <3>1, <3>2, ConnectionsChange, ZenonT(30)
          <5> QED BY <3>1, <5>1, ZenonT(30)
        <4>3. Cardinality({d \in clients \ {c} : UserOf[d] = u}) = counts'[u]
          BY <3>1, <3>2, <4>1, <4>2, ConnectionsChange
        <4>4. counts'[u] <= maxPerUser
          BY <3>1, <4>1
        <4> QED BY <1>2, <4>3, <4>4 DEF Unregister, ConnectionsOf
      <3>3. CASE c \notin clients
        <4>1. clients' = clients /\ counts' = counts
          BY <1>2, <3>3 DEF Unregister
        <4> QED BY <3>1, <4>1 DEF ConnectionsOf
      <3> QED BY <3>2, <3>3
    <2> QED BY <1>0, <2>1 DEF RegistryInv, CountsExact
  <1>3. CASE Restart
    <2>1. ASSUME NEW u \in Users
          PROVE  counts'[u] = 0 /\ Cardinality(ConnectionsOf(u))' = 0
      <3>1. ConnectionsOf(u)' = {}
        BY <1>3 DEF Restart, ConnectionsOf
      <3> QED BY <1>3, <3>1, FS_EmptySet DEF Restart
    <2> QED BY <1>0, <2>1 DEF RegistryInv, CountsExact
  <1>4. CASE UNCHANGED <<clients, counts>>
    BY <1>0, <1>4 DEF RegistryInv, CountsExact, ConnectionsOf
  <1> QED
    BY <1>1, <1>2, <1>3, <1>4
    DEF HubNext, Refuse, Drain, Stamp, Deliver, hubVars

LEMMA RegistryCorrect == HubSpec => []RegistryInv
  <1>1. HubInit => RegistryInv
    <2> SUFFICES ASSUME HubInit PROVE RegistryInv
      OBVIOUS
    <2>1. ASSUME NEW u \in Users
          PROVE  counts[u] = 0 /\ Cardinality(ConnectionsOf(u)) = 0
      <3>1. ConnectionsOf(u) = {}
        BY DEF HubInit, ConnectionsOf
      <3> QED BY <3>1, FS_EmptySet DEF HubInit
    <2>2. HubTypeOK
      BY HubAssumption DEF HubAssumption, HubInit, HubTypeOK
    <2> QED BY <2>1, <2>2, HubAssumption DEF HubAssumption, RegistryInv, CountsExact
  <1> QED BY <1>1, RegistryStep, PTL DEF HubSpec

\* The connection counter of every user equals the number of its registered
\* clients after any sequence of Register, Unregister (repeated or not) and
\* restarts.
THEOREM HubCountsExact == HubSpec => []CountsExact
  <1>1. RegistryInv => CountsExact
    BY DEF RegistryInv
  <1> QED BY <1>1, RegistryCorrect, PTL

\* No user ever has more than maxPerUser registered connections.
THEOREM HubCapHolds == HubSpec => []CapHolds
  <1>1. RegistryInv => CapHolds
    BY DEF RegistryInv, CountsExact, CapHolds
  <1> QED BY <1>1, RegistryCorrect, PTL

-----------------------------------------------------------------------------
(* Revisions *)

\* The atomic increment gives every broadcast a revision of its own, and the
\* single delivery under the mutex keeps it out of every channel until then.
LEMMA RevisionStep ==
    HubTypeOK /\ RevisionsUnique /\ [HubNext]_hubVars => RevisionsUnique'
  <1> SUFFICES ASSUME HubTypeOK, RevisionsUnique, [HubNext]_hubVars
               PROVE  RevisionsUnique'
    OBVIOUS
  <1> USE HubAssumption DEF HubAssumption
  <1>1. ASSUME NEW c \in Clients, Register(c)
        PROVE  RevisionsUnique'
    <2>1. ASSUME NEW d \in Clients
          PROVE  send'[d] = send[d] \/ send'[d] = <<>>
      BY <1>1 DEF Register, HubTypeOK
    <2>2. stamped' = stamped /\ rev' = rev /\ InFlight' = InFlight
      BY <1>1 DEF Register, InFlight
    <2> QED BY <2>1, <2>2 DEF RevisionsUnique
  <1>2. ASSUME NEW c \in Clients, Drain(c)
        PROVE  RevisionsUnique'
    <2>1. stamped' = stamped /\ rev' = rev /\ InFlight' = InFlight
      BY <1>2 DEF Drain, InFlight
    <2>2. ASSUME NEW d \in Clients, d # c
          PROVE  send'[d] = send[d]
      BY <1>2, <2>2 DEF Drain, HubTypeOK
    <2>3. /\ send'[c] = Tail(send[c]) /\ send[c] \in Seq(Revs) /\ send[c] # <<>>
          /\ DOMAIN send'[c] = 1 .. Len(send[c]) - 1
          /\ \A i \in DOMAIN send'[c] : send'[c][i] = send[c][i + 1] /\ i + 1 \in DOMAIN send[c]
      <3>1. send'[c] = Tail(send[c]) /\ send[c] \in Seq(Revs) /\ send[c] # <<>>
        BY <1>2 DEF Drain, HubTypeOK
      <3> QED BY <3>1
    <2>4. ASSUME NEW i \in DOMAIN send'[c]
          PROVE  /\ send'[c][i] \notin InFlight
                 /\ send'[c][i] <= rev
                 /\ \A j \in DOMAIN send'[c] : send'[c][i] = send'[c][j] => i = j
      BY <2>3 DEF RevisionsUnique
    <2> QED BY <2>1, <2>2, <2>4 DEF RevisionsUnique
  <1>3. ASSUME NEW w \in Broadcasters, Stamp(w)
        PROVE  RevisionsUnique'
    <2>1. /\ stamped' = [stamped EXCEPT ![w] = rev + 1] /\ rev' = rev + 1 /\ send' = send
          /\ stamped \in [Broadcasters -> 0 .. MaxRev] /\ rev \in 0 .. MaxRev
      BY <1>3 DEF Stamp, HubTypeOK
    <2>2. \A v \in Broadcasters : stamped[v] <= rev /\ stamped[v] \in Nat
      BY <2>1 DEF RevisionsUnique
    <2>3. \A u, v \in Broadcasters :
             stamped'[u] = stamped'[v] /\ stamped'[u] # 0 => u = v
      BY <2>1, <2>2 DEF RevisionsUnique
    <2>4. \A v \in Broadcasters : stamped'[v] <= rev'
      BY <2>1, <2>2
    <2>5. InFlight' \subseteq InFlight \union {rev + 1}
      BY <2>1 DEF InFlight
    <2>6. ASSUME NEW c \in Clients, NEW i \in DOMAIN send[c]
          PROVE  send[c][i] \notin InFlight' /\ send[c][i] <= rev'
      <3>1. send[c] \in Seq(Revs)
        BY DEF HubTypeOK
      <3>2. send[c][i] \in Revs /\ send[c][i] <= rev /\ send[c][i] \notin InFlight
        BY <3>1 DEF RevisionsUnique
      <3> QED BY <2>1, <2>5, <3>2 DEF Revs
    <2> QED BY <2>1, <2>3, <2>4, <2>6 DEF RevisionsUnique
  <1>4. ASSUME NEW w \in Broadcasters, Deliver(w)
        PROVE  RevisionsUnique'
    <2>1. /\ stamped' = [stamped EXCEPT ![w] = 0] /\ rev' = rev
          /\ stamped \in [Broadcasters -> 0 .. MaxRev] /\ rev \in 0 .. MaxRev
          /\ stamped[w] # 0 /\ stamped[w] \in InFlight
      BY <1>4 DEF Deliver, HubTypeOK, InFlight
    <2>2. \A u, v \in Broadcasters :
             stamped'[u] = stamped'[v] /\ stamped'[u] # 0 => u = v
      BY <2>1 DEF RevisionsUnique
    <2>3. \A v \in Broadcasters : stamped'[v] <= rev'
      BY <2>1 DEF RevisionsUnique
    <2>4. InFlight' = InFlight \ {stamped[w]}
      BY <2>1 DEF InFlight, RevisionsUnique
    <2>5. ASSUME NEW c \in Clients, NEW i \in DOMAIN send'[c]
          PROVE  /\ send'[c][i] \notin InFlight'
                 /\ send'[c][i] <= rev'
                 /\ \A j \in DOMAIN send'[c] : send'[c][i] = send'[c][j] => i = j
      <3>1. send[c] \in Seq(Revs) /\ stamped[w] <= rev
        BY DEF HubTypeOK, RevisionsUnique
      <3>2. CASE send'[c] = send[c]
        BY <2>1, <2>4, <3>2 DEF RevisionsUnique
      <3>3. CASE send'[c] = Append(send[c], stamped[w])
        <4>1. /\ DOMAIN send'[c] = 1 .. Len(send[c]) + 1 /\ Len(send[c]) \in Nat
              /\ DOMAIN send[c] = 1 .. Len(send[c])
              /\ send'[c][Len(send[c]) + 1] = stamped[w]
              /\ \A j \in 1 .. Len(send[c]) : send'[c][j] = send[c][j]
          BY <3>1, <3>3
        <4>2. \A j \in 1 .. Len(send[c]) :
                 send[c][j] \notin InFlight /\ send[c][j] <= rev /\ send[c][j] # stamped[w]
          BY <2>1, <4>1 DEF RevisionsUnique
        <4>3. \A j, l \in 1 .. Len(send[c]) : send[c][j] = send[c][l] => j = l
          BY <4>1 DEF RevisionsUnique
        <4>4. CASE i = Len(send[c]) + 1
          <5>1. send'[c][i] = stamped[w]
            BY <4>1, <4>4
          <5>2. \A j \in DOMAIN send'[c] : stamped[w] = send'[c][j] => i = j
            BY <4>1, <4>2, <4>4
          <5> QED BY <2>1, <2>4, <3>1, <5>1, <5>2
        <4>5. CASE i \in 1 .. Len(send[c])
          <5>1. send'[c][i] = send[c][i] /\ send[c][i] # stamped[w]
            BY <4>1, <4>2, <4>5
          <5>2. ASSUME NEW j \in DOMAIN send'[c], send'[c][i] = send'[c][j] PROVE i = j
            <6>1. j # Len(send[c]) + 1
              BY <4>1, <5>1, <5>2
            <6>2. j \in 1 .. Len(send[c])
              BY <4>1, <6>1
            <6>3. send'[c][j] = send[c][j]
              BY <4>1, <6>2
            <6> QED BY <4>3, <4>5, <5>1, <5>2, <6>2, <6>3
          <5> QED BY <2>1, <2>4, <4>2, <4>5, <5>1, <5>2
        <4> QED BY <4>1, <4>4, <4>5
      <3> QED BY <1>4, <3>2, <3>3 DEF Deliver, Offer
    <2> QED BY <2>2, <2>3, <2>5 DEF RevisionsUnique
  <1>5. CASE Restart
    BY <1>5 DEF Restart, RevisionsUnique, InFlight
  <1>6. CASE UNCHANGED <<rev, send, stamped>>
    BY <1>6 DEF RevisionsUnique, InFlight
  <1> QED
    BY <1>1, <1>2, <1>3, <1>4, <1>5, <1>6 DEF HubNext, Refuse, Unregister, hubVars

\* No two events in flight or in one channel ever carry the same revision, and
\* none is ahead of the counter (Broadcast's h.rev.Add(1) outside the mutex).
THEOREM HubRevisionsUnique == HubSpec => []RevisionsUnique
  <1>1. HubInit => RevisionsUnique
    BY HubAssumption DEF HubAssumption, HubInit, RevisionsUnique, InFlight
  <1> QED BY <1>1, HubTypeCorrect, RevisionStep, PTL DEF HubSpec

-----------------------------------------------------------------------------
(* LiveService: what the methods do to the fields *)

\* The backoff doubles within its bounds.
LEMMA NextBackoffBounds ==
    ASSUME NEW d \in BACKOFF_START .. BACKOFF_CAP
    PROVE  NextBackoff(d) \in BACKOFF_START .. BACKOFF_CAP /\ NextBackoff(d) >= d
  BY LiveServiceAssumption DEF LiveServiceAssumption, NextBackoff

\* scheduleReconnect leaves a pending timer unless the service is stopped, and
\* touches nothing but the timer and the backoff, which never shrinks.
LEMMA ScheduleReconnectFields ==
    ASSUME NEW s \in Service
    PROVE  LET n == ScheduleReconnect(s) IN
           /\ n \in Service
           /\ n.status = s.status /\ n.socket = s.socket /\ n.attached = s.attached
           /\ n.connecting = s.connecting /\ n.stopped = s.stopped
           /\ n.bumpTimer = s.bumpTimer /\ n.stableTimer = s.stableTimer
           /\ n.backoff >= s.backoff
           /\ ~s.stopped => n.reconnectTimer
           /\ s.stopped => n = s
  <1>1. s.backoff \in BACKOFF_START .. BACKOFF_CAP
    BY DEF Service
  <1>2. NextBackoff(s.backoff) \in BACKOFF_START .. BACKOFF_CAP /\ NextBackoff(s.backoff) >= s.backoff
    BY <1>1, NextBackoffBounds
  <1>3. CASE s.stopped \/ s.reconnectTimer
    BY <1>1, <1>3, LiveServiceAssumption DEF LiveServiceAssumption, ScheduleReconnect
  <1>4. CASE ~(s.stopped \/ s.reconnectTimer)
    BY <1>2, <1>4 DEF ScheduleReconnect, Service
  <1> QED BY <1>3, <1>4

\* openSocket holds the new socket with its handlers attached, or schedules a
\* retry when the factory throws.
LEMMA OpenSocketFields ==
    ASSUME NEW s \in Service, NEW k \in Sockets \union {NoSocket},
           ~s.stopped, s.socket = NoSocket, s.attached = {}
    PROVE  LET n == OpenSocket(s, k) IN
           /\ n \in Service
           /\ n.status = IF s.status = "offline" THEN "connecting" ELSE s.status
           /\ n.socket = k /\ n.attached = {k} \ {NoSocket}
           /\ ~n.stopped
           /\ n.bumpTimer = s.bumpTimer /\ n.stableTimer = s.stableTimer
           /\ n.backoff >= s.backoff
           /\ k = NoSocket => n.reconnectTimer
           /\ k # NoSocket => n.reconnectTimer = s.reconnectTimer
  <1> DEFINE o == [s EXCEPT !.status = IF @ = "offline" THEN "connecting" ELSE @,
                            !.lastRev = 0]
  <1>1. /\ o \in Service /\ o.status = IF s.status = "offline" THEN "connecting" ELSE s.status
        /\ o.socket = NoSocket /\ o.attached = {} /\ ~o.stopped
        /\ o.bumpTimer = s.bumpTimer /\ o.stableTimer = s.stableTimer
        /\ o.backoff = s.backoff /\ o.reconnectTimer = s.reconnectTimer
    BY DEF Service, Statuses
  <1>2. s.backoff \in Int
    BY LiveServiceAssumption DEF LiveServiceAssumption, Service
  <1> HIDE DEF o
  <1>3. CASE k = NoSocket
    <2> DEFINE p == [o EXCEPT !.connecting = FALSE]
    <2>1. /\ p \in Service /\ p.status = o.status /\ p.socket = o.socket
          /\ p.attached = o.attached /\ p.stopped = o.stopped
          /\ p.bumpTimer = o.bumpTimer /\ p.stableTimer = o.stableTimer
          /\ p.backoff = o.backoff /\ p.reconnectTimer = o.reconnectTimer
      BY <1>1 DEF Service
    <2>2. OpenSocket(s, k) = ScheduleReconnect(p)
      BY <1>3 DEF OpenSocket, o
    <2> HIDE DEF p
    <2> QED BY <1>1, <1>3, <2>1, <2>2, ScheduleReconnectFields
  <1>4. CASE k # NoSocket
    <2>0. o.attached \union {k} = {k} /\ {k} \in SUBSET Sockets /\ {k} = {k} \ {NoSocket}
      BY <1>1, <1>4
    <2>1. OpenSocket(s, k) = [o EXCEPT !.connecting = TRUE, !.socket = k, !.attached = {k}]
      BY <1>4, <2>0 DEF OpenSocket, o
    <2>2. OpenSocket(s, k) \in Service
      BY <1>1, <1>4, <2>0, <2>1 DEF Service
    <2>3. OpenSocket(s, k).attached = {k} \ {NoSocket} /\ OpenSocket(s, k).socket = k
      BY <1>1, <2>0, <2>1 DEF Service
    <2>4. /\ OpenSocket(s, k).status = o.status /\ OpenSocket(s, k).stopped = o.stopped
          /\ OpenSocket(s, k).bumpTimer = o.bumpTimer
          /\ OpenSocket(s, k).stableTimer = o.stableTimer
          /\ OpenSocket(s, k).backoff = o.backoff
          /\ OpenSocket(s, k).reconnectTimer = o.reconnectTimer
      BY <1>1, <2>1 DEF Service
    <2> QED BY <1>1, <1>2, <1>4, <2>2, <2>3, <2>4
  <1> QED BY <1>3, <1>4

\* handleDrop lets go of the socket and, unless stopped, schedules a retry.
LEMMA HandleDropFields ==
    ASSUME NEW s \in Service, ~s.stopped, s.attached = {s.socket} \ {NoSocket}
    PROVE  LET n == HandleDrop(s) IN
           /\ n \in Service
           /\ n.status = "reconnecting" /\ n.socket = NoSocket /\ n.attached = {}
           /\ ~n.stopped /\ n.reconnectTimer /\ ~n.stableTimer
           /\ n.backoff >= s.backoff
  <1> DEFINE d == [[s EXCEPT !.connecting = FALSE, !.socket = NoSocket,
                             !.attached = @ \ {s.socket}, !.stableTimer = FALSE]
                      EXCEPT !.status = "reconnecting"]
  <1>1. /\ d \in Service /\ d.status = "reconnecting" /\ d.socket = NoSocket
        /\ d.attached = {} /\ ~d.stopped /\ d.stableTimer = FALSE
        /\ d.backoff = s.backoff
    BY DEF Service, Statuses
  <1>2. HandleDrop(s) = ScheduleReconnect(d)
    BY DEF HandleDrop
  <1> HIDE DEF d
  <1> QED BY <1>1, <1>2, ScheduleReconnectFields
\* The reconnect timer fires: its handle is cleared.
LEMMA FiredReconnectFields ==
    ASSUME NEW s \in Service
    PROVE  LET n == [s EXCEPT !.reconnectTimer = FALSE] IN
           /\ n \in Service /\ n.status = s.status /\ n.socket = s.socket
           /\ n.attached = s.attached /\ n.stopped = s.stopped
           /\ n.reconnectTimer = FALSE /\ n.stableTimer = s.stableTimer
           /\ n.backoff = s.backoff
  BY DEF Service

\* The debounce timer fires: its handle is cleared.
LEMMA FiredBumpFields ==
    ASSUME NEW s \in Service
    PROVE  LET n == [s EXCEPT !.bumpTimer = FALSE] IN
           /\ n \in Service /\ n.status = s.status /\ n.socket = s.socket
           /\ n.attached = s.attached /\ n.stopped = s.stopped
           /\ n.reconnectTimer = s.reconnectTimer /\ n.stableTimer = s.stableTimer
           /\ n.bumpTimer = FALSE /\ n.backoff = s.backoff
  BY DEF Service

\* The stability timer fires: its handle is cleared and the backoff reset.
LEMMA FiredStableFields ==
    ASSUME NEW s \in Service
    PROVE  LET n == [s EXCEPT !.stableTimer = FALSE, !.backoff = BACKOFF_START] IN
           /\ n \in Service /\ n.status = s.status /\ n.socket = s.socket
           /\ n.attached = s.attached /\ n.stopped = s.stopped
           /\ n.reconnectTimer = s.reconnectTimer /\ n.stableTimer = FALSE
           /\ n.bumpTimer = s.bumpTimer
  <1>1. BACKOFF_START \in BACKOFF_START .. BACKOFF_CAP
    BY LiveServiceAssumption DEF LiveServiceAssumption
  <1> QED BY <1>1 DEF Service

\* onopen makes the service live, onmessage at most arms the bump timer.
LEMMA SocketEventFields ==
    ASSUME NEW s \in Service, NEW r \in Nat
    PROVE  /\ LET n == OnOpen(s) IN
              /\ n \in Service /\ n.status = "live" /\ n.socket = s.socket
              /\ n.attached = s.attached /\ n.stopped = s.stopped
              /\ n.reconnectTimer = s.reconnectTimer /\ n.backoff = s.backoff
           /\ LET n == OnMessage(s, r) IN
              /\ n \in Service /\ n.status = s.status /\ n.socket = s.socket
              /\ n.attached = s.attached /\ n.stopped = s.stopped
              /\ n.reconnectTimer = s.reconnectTimer /\ n.stableTimer = s.stableTimer
              /\ n.backoff = s.backoff
  <1>1. LET n == OnOpen(s) IN
        /\ n \in Service /\ n.status = "live" /\ n.socket = s.socket
        /\ n.attached = s.attached /\ n.stopped = s.stopped
        /\ n.reconnectTimer = s.reconnectTimer /\ n.backoff = s.backoff
    BY DEF OnOpen, ScheduleBump, Service, Statuses
  <1>2. LET n == OnMessage(s, r) IN
        /\ n \in Service /\ n.status = s.status /\ n.socket = s.socket
        /\ n.attached = s.attached /\ n.stopped = s.stopped
        /\ n.reconnectTimer = s.reconnectTimer /\ n.stableTimer = s.stableTimer
        /\ n.backoff = s.backoff
    BY DEF OnMessage, ScheduleBump, Service, Statuses
  <1> QED BY <1>1, <1>2

\* disconnect() clears everything but the backoff and the revision.
LEMMA DisconnectedFields ==
    ASSUME NEW s \in Service, s.attached = {s.socket} \ {NoSocket}
    PROVE  LET n == Disconnected(s) IN
           /\ n \in Service /\ n.status = "offline" /\ n.socket = NoSocket
           /\ n.attached = {} /\ n.reconnectTimer = FALSE
           /\ n.bumpTimer = FALSE /\ n.stableTimer = FALSE /\ n.backoff = s.backoff
  BY DEF Disconnected, Service, Statuses

-----------------------------------------------------------------------------
(* The inductive invariant *)

\* What holds of the fields s of tab t when the browser's sockets are n.  The
\* parts that no property states are the owner of the socket, that an offline
\* service is at rest, and that the stability timer runs only while live.
TabOK(s, t, n) ==
    /\ s.socket # NoSocket => TabOf[s.socket] = t /\ n[s.socket] \in {"opening", "open"}
    /\ s.attached = {s.socket} \ {NoSocket}
    /\ s.status = "offline" => s.socket = NoSocket /\ ~s.reconnectTimer /\ ~s.stableTimer
    /\ s.status # "offline" => (s.socket = NoSocket <=> s.reconnectTimer)
    /\ s.stopped => ~s.bumpTimer /\ s.status = "offline"
    /\ s.status = "live" <=> s.socket # NoSocket /\ n[s.socket] = "open"
    /\ s.stableTimer => s.status = "live"

\* A socket that is up is held by its tab.
Held(k) == net[k] \in {"opening", "open"} => svc[TabOf[k]].socket = k

ServiceInv ==
    /\ LiveTypeOK
    /\ \A t \in Tabs : TabOK(svc[t], t, net)
    /\ \A k \in Sockets : Held(k)

\* A step of one tab and its sockets cannot disturb the other tabs.
LEMMA OtherTabs ==
    ASSUME ServiceInv, NEW t \in Tabs,
           \A u \in Tabs \ {t} : svc'[u] = svc[u],
           \A k \in Sockets : TabOf[k] # t => net'[k] = net[k],
           svc'[t] \in Service,
           DOMAIN svc' = Tabs, svc' = [u \in Tabs |-> svc'[u]],
           net' \in [Sockets -> {"none", "opening", "open", "closing"}],
           TabOK(svc'[t], t, net'),
           \A k \in Sockets : TabOf[k] = t => Held(k)'
    PROVE  ServiceInv'
  <1>1. LiveTypeOK'
    BY DEF ServiceInv, LiveTypeOK
  <1>2. ASSUME NEW u \in Tabs, u # t
        PROVE  TabOK(svc'[u], u, net')
    <2>1. svc'[u] = svc[u] /\ TabOK(svc[u], u, net) /\ svc[u] \in Service
      BY <1>2 DEF ServiceInv, LiveTypeOK
    <2>2. svc[u].socket # NoSocket => net'[svc[u].socket] = net[svc[u].socket]
      BY <1>2, <2>1 DEF TabOK, Service
    <2> QED BY <2>1, <2>2 DEF TabOK
  <1>3. ASSUME NEW k \in Sockets, TabOf[k] # t
        PROVE  Held(k)'
    <2>1. TabOf[k] \in Tabs
      BY LiveServiceAssumption DEF LiveServiceAssumption
    <2> QED BY <1>3, <2>1 DEF ServiceInv, Held
  <1> QED BY <1>1, <1>2, <1>3 DEF ServiceInv
\* Connect and the reconnect timer: openSocket from a service without a socket.
LEMMA OpenStep ==
    ASSUME ServiceInv, NEW t \in Tabs, NEW k \in Creatable(t),
           NEW s \in Service,
           s.socket = NoSocket, s.attached = {}, ~s.stopped,
           ~s.reconnectTimer, ~s.stableTimer, s.status # "live",
           svc' = [svc EXCEPT ![t] = OpenSocket(s, k)], net' = Dialed(k),
           svc[t].socket = NoSocket
    PROVE  ServiceInv'
  <1> DEFINE n == OpenSocket(s, k)
  <1>1. k \in Sockets \union {NoSocket} /\ NoSocket \notin Sockets
        /\ (k # NoSocket => TabOf[k] = t /\ net[k] = "none")
    BY LiveServiceAssumption DEF LiveServiceAssumption, Creatable
  <1>2. /\ n \in Service
        /\ n.status = IF s.status = "offline" THEN "connecting" ELSE s.status
        /\ n.socket = k /\ n.attached = {k} \ {NoSocket}
        /\ ~n.stopped /\ n.stableTimer = s.stableTimer
        /\ k = NoSocket => n.reconnectTimer
        /\ k # NoSocket => n.reconnectTimer = s.reconnectTimer
    BY <1>1, OpenSocketFields
  <1>3. svc \in [Tabs -> Service] /\ net \in [Sockets -> {"none", "opening", "open", "closing"}]
    BY DEF ServiceInv, LiveTypeOK
  <1> HIDE DEF n
  <1>4. svc'[t] = n /\ svc' \in [Tabs -> Service] /\ \A u \in Tabs \ {t} : svc'[u] = svc[u]
    BY <1>2, <1>3 DEF n
  <1>5. /\ net' \in [Sockets -> {"none", "opening", "open", "closing"}]
        /\ k # NoSocket => net'[k] = "opening"
        /\ \A j \in Sockets : j # k => net'[j] = net[j]
    BY <1>1, <1>3 DEF Dialed
  <1>6. TabOK(n, t, net')
    <2>1. n.status # "offline" /\ n.status # "live"
      BY <1>2 DEF Service, Statuses
    <2> QED BY <1>1, <1>2, <1>5, <2>1 DEF TabOK
  <1>7. ASSUME NEW j \in Sockets, TabOf[j] = t
        PROVE  Held(j)'
    <2>1. net[j] \notin {"opening", "open"}
      BY <1>1, <1>7 DEF ServiceInv, Held
    <2> QED BY <1>2, <1>4, <1>5, <1>7, <2>1 DEF Held
  <1>8. \A j \in Sockets : TabOf[j] # t => net'[j] = net[j]
    BY <1>1, <1>5
  <1> QED BY <1>4, <1>5, <1>6, <1>7, <1>8, OtherTabs

\* Errored and Closed: handleDrop, when the handlers are attached.
LEMMA DropStep ==
    ASSUME ServiceInv, NEW k \in Sockets, NEW x \in {"none", "closing"},
           net' = [net EXCEPT ![k] = x],
           svc' = Handled(k, HandleDrop(svc[TabOf[k]]))
    PROVE  ServiceInv'
  <1> DEFINE t == TabOf[k]  s == svc[t]  n == HandleDrop(s)
  <1>1. t \in Tabs /\ NoSocket \notin Sockets
    BY LiveServiceAssumption DEF LiveServiceAssumption
  <1>2. /\ svc \in [Tabs -> Service] /\ s \in Service
        /\ net \in [Sockets -> {"none", "opening", "open", "closing"}]
        /\ TabOK(s, t, net) /\ \A j \in Sockets : Held(j)
    BY <1>1 DEF ServiceInv, LiveTypeOK
  <1>3. /\ net' \in [Sockets -> {"none", "opening", "open", "closing"}]
        /\ net'[k] = x /\ \A j \in Sockets \ {k} : net'[j] = net[j]
    BY <1>2
  <1>4. CASE k \in s.attached
    <2>1. s.socket = k /\ ~s.stopped
      BY <1>4, <1>2 DEF TabOK
    <2>2. /\ n \in Service /\ n.status = "reconnecting" /\ n.socket = NoSocket
          /\ n.attached = {} /\ ~n.stopped /\ n.reconnectTimer /\ ~n.stableTimer
      BY <1>2, <2>1, HandleDropFields DEF TabOK
    <2>3. svc' = [svc EXCEPT ![t] = n]
      BY <1>4 DEF Handled
    <2> HIDE DEF n
    <2>4. svc'[t] = n /\ svc' \in [Tabs -> Service] /\ \A u \in Tabs \ {t} : svc'[u] = svc[u]
      BY <1>1, <1>2, <2>2, <2>3
    <2>5. TabOK(n, t, net')
      BY <2>2 DEF TabOK
    <2>6. ASSUME NEW j \in Sockets, TabOf[j] = t
          PROVE  Held(j)'
      BY <1>2, <1>3, <2>1, <2>6 DEF Held
    <2> QED BY <1>1, <1>3, <2>2, <2>4, <2>5, <2>6, OtherTabs
  <1>5. CASE k \notin s.attached
    <2>1. svc' = svc
      BY <1>5 DEF Handled
    <2>2. s.socket # k
      BY <1>1, <1>2, <1>5 DEF TabOK
    <2>3. TabOK(s, t, net')
      <3>1. s.socket \in Sockets \union {NoSocket}
        BY <1>2 DEF Service
      <3>2. s.socket # NoSocket => net'[s.socket] = net[s.socket]
        BY <1>3, <2>2, <3>1
      <3> QED BY <1>2, <3>2 DEF TabOK
    <2>4. ASSUME NEW j \in Sockets, TabOf[j] = t
          PROVE  Held(j)'
      BY <1>2, <1>3, <2>1, <2>4 DEF Held
    <2> QED BY <1>1, <1>2, <1>3, <2>1, <2>3, <2>4, OtherTabs
  <1> QED BY <1>4, <1>5
\* The handshake completes: onopen, when the handlers are attached.
LEMMA OpenedStep ==
    ASSUME ServiceInv, NEW k \in Sockets, Opened(k)
    PROVE  ServiceInv'
  <1> DEFINE t == TabOf[k]  s == svc[t]  n == OnOpen(s)
  <1>1. t \in Tabs /\ NoSocket \notin Sockets
    BY LiveServiceAssumption DEF LiveServiceAssumption
  <1>2. /\ svc \in [Tabs -> Service] /\ s \in Service
        /\ net \in [Sockets -> {"none", "opening", "open", "closing"}]
        /\ TabOK(s, t, net) /\ \A j \in Sockets : Held(j)
    BY <1>1 DEF ServiceInv, LiveTypeOK
  <1>3. /\ net' \in [Sockets -> {"none", "opening", "open", "closing"}]
        /\ net'[k] = "open" /\ \A j \in Sockets \ {k} : net'[j] = net[j]
        /\ net[k] = "opening"
    BY <1>2 DEF Opened
  <1>4. s.socket = k /\ k \in s.attached
    BY <1>1, <1>2, <1>3 DEF TabOK, Held
  <1>5. svc' = [svc EXCEPT ![t] = n]
    BY <1>4 DEF Opened, Handled
  <1>6. /\ n \in Service /\ n.status = "live" /\ n.socket = s.socket
        /\ n.attached = s.attached /\ n.stopped = s.stopped
        /\ n.reconnectTimer = s.reconnectTimer
    BY <1>2, SocketEventFields
  <1> HIDE DEF n
  <1>7. svc'[t] = n /\ svc' \in [Tabs -> Service] /\ \A u \in Tabs \ {t} : svc'[u] = svc[u]
    BY <1>1, <1>2, <1>5, <1>6
  <1>8. TabOK(n, t, net')
    BY <1>1, <1>2, <1>3, <1>4, <1>6 DEF TabOK
  <1>9. ASSUME NEW j \in Sockets, TabOf[j] = t
        PROVE  Held(j)'
    BY <1>2, <1>3, <1>4, <1>6, <1>7, <1>9 DEF Held
  <1> QED BY <1>1, <1>3, <1>6, <1>7, <1>8, <1>9, OtherTabs

\* A change of a tab's fields that concerns only the revision, the backoff, the
\* bump timer of a service that is not stopped, or the end of the stability timer.
LEMMA TimerStep ==
    ASSUME ServiceInv, NEW t \in Tabs, NEW n \in Service,
           svc' = [svc EXCEPT ![t] = n], UNCHANGED net,
           n.status = svc[t].status, n.socket = svc[t].socket,
           n.attached = svc[t].attached, n.stopped = svc[t].stopped,
           n.reconnectTimer = svc[t].reconnectTimer,
           n.stableTimer => svc[t].stableTimer,
           n.stopped => ~n.bumpTimer
    PROVE  ServiceInv'
  <1>1. /\ svc \in [Tabs -> Service]
        /\ net \in [Sockets -> {"none", "opening", "open", "closing"}]
        /\ TabOK(svc[t], t, net) /\ \A j \in Sockets : Held(j)
    BY DEF ServiceInv, LiveTypeOK
  <1>2. svc'[t] = n /\ svc' \in [Tabs -> Service] /\ \A u \in Tabs \ {t} : svc'[u] = svc[u]
    BY <1>1
  <1>3. TabOK(n, t, net')
    BY <1>1 DEF TabOK
  <1>4. ASSUME NEW j \in Sockets, TabOf[j] = t
        PROVE  Held(j)'
    BY <1>1, <1>2, <1>4 DEF Held
  <1> QED BY <1>1, <1>2, <1>3, <1>4, OtherTabs

\* disconnect() and a page load leave a service at rest and no socket up.
LEMMA RestStep ==
    ASSUME ServiceInv, NEW t \in Tabs, NEW n \in Service,
           svc' = [svc EXCEPT ![t] = n],
           net' \in [Sockets -> {"none", "opening", "open", "closing"}],
           n.status = "offline", n.socket = NoSocket, n.attached = {},
           ~n.reconnectTimer, ~n.bumpTimer, ~n.stableTimer,
           \A k \in Sockets : TabOf[k] # t => net'[k] = net[k],
           \A k \in Sockets : TabOf[k] = t => net'[k] \notin {"opening", "open"}
    PROVE  ServiceInv'
  <1>1. svc \in [Tabs -> Service]
    BY DEF ServiceInv, LiveTypeOK
  <1>2. svc'[t] = n /\ svc' \in [Tabs -> Service] /\ \A u \in Tabs \ {t} : svc'[u] = svc[u]
    BY <1>1
  <1>3. TabOK(n, t, net')
    BY DEF TabOK
  <1>4. \A k \in Sockets : TabOf[k] = t => Held(k)'
    BY DEF Held
  <1> QED BY <1>1, <1>2, <1>3, <1>4, OtherTabs

\* Every step of the service preserves the invariant.
LEMMA ServiceStep == ServiceInv /\ [LiveNext]_liveVars => ServiceInv'
  <1> SUFFICES ASSUME ServiceInv, [LiveNext]_liveVars
               PROVE  ServiceInv'
    OBVIOUS
  <1>0. /\ NoSocket \notin Sockets /\ TabOf \in [Sockets -> Tabs]
        /\ svc \in [Tabs -> Service]
        /\ net \in [Sockets -> {"none", "opening", "open", "closing"}]
        /\ \A t \in Tabs : TabOK(svc[t], t, net)
        /\ \A k \in Sockets : Held(k)
    BY LiveServiceAssumption DEF LiveServiceAssumption, ServiceInv, LiveTypeOK
  <1>1. ASSUME NEW t \in Tabs, NEW k \in Sockets \union {NoSocket}, Connect(t, k)
        PROVE  ServiceInv'
    <2>1. /\ svc[t] \in Service /\ svc[t].socket = NoSocket /\ svc[t].attached = {}
          /\ ~svc[t].stopped /\ ~svc[t].reconnectTimer /\ ~svc[t].stableTimer
          /\ svc[t].status # "live"
      BY <1>0, <1>1 DEF Connect, TabOK
    <2> QED BY <1>1, <2>1, OpenStep DEF Connect
  <1>2. ASSUME NEW t \in Tabs, NEW k \in Sockets \union {NoSocket}, FireReconnect(t, k)
        PROVE  ServiceInv'
    <2> DEFINE s == [svc[t] EXCEPT !.reconnectTimer = FALSE]
    <2>1. /\ svc[t] \in Service /\ svc[t].socket = NoSocket /\ svc[t].attached = {}
          /\ ~svc[t].stopped /\ ~svc[t].stableTimer /\ svc[t].status # "live"
      BY <1>0, <1>2 DEF FireReconnect, TabOK
    <2>2. /\ s \in Service /\ s.socket = NoSocket /\ s.attached = {}
          /\ ~s.stopped /\ ~s.reconnectTimer /\ ~s.stableTimer /\ s.status # "live"
      BY <2>1, FiredReconnectFields
    <2>3. svc' = [svc EXCEPT ![t] = OpenSocket(s, k)] /\ net' = Dialed(k) /\ k \in Creatable(t)
      BY <1>2 DEF FireReconnect
    <2> HIDE DEF s
    <2> QED BY <2>1, <2>2, <2>3, OpenStep
  <1>3. ASSUME NEW t \in Tabs, FireBump(t)
        PROVE  ServiceInv'
    <2> DEFINE n == [svc[t] EXCEPT !.bumpTimer = FALSE]
    <2>1. /\ n \in Service /\ n.status = svc[t].status /\ n.socket = svc[t].socket
          /\ n.attached = svc[t].attached /\ n.stopped = svc[t].stopped
          /\ n.reconnectTimer = svc[t].reconnectTimer
          /\ n.stableTimer = svc[t].stableTimer /\ n.bumpTimer = FALSE
      BY <1>0, FiredBumpFields
    <2>2. svc' = [svc EXCEPT ![t] = n] /\ UNCHANGED net
      BY <1>3 DEF FireBump
    <2> HIDE DEF n
    <2> QED BY <2>1, <2>2, TimerStep
  <1>4. ASSUME NEW t \in Tabs, FireStable(t)
        PROVE  ServiceInv'
    <2> DEFINE n == [svc[t] EXCEPT !.stableTimer = FALSE, !.backoff = BACKOFF_START]
    <2>1. /\ n \in Service /\ n.status = svc[t].status /\ n.socket = svc[t].socket
          /\ n.attached = svc[t].attached /\ n.stopped = svc[t].stopped
          /\ n.reconnectTimer = svc[t].reconnectTimer
          /\ n.stableTimer = FALSE /\ n.bumpTimer = svc[t].bumpTimer
      BY <1>0, FiredStableFields
    <2>2. svc' = [svc EXCEPT ![t] = n] /\ UNCHANGED net
      BY <1>0, <1>4 DEF FireStable
    <2>3. svc[t].stopped => ~svc[t].bumpTimer
      BY <1>0 DEF TabOK
    <2> HIDE DEF n
    <2> QED BY <2>1, <2>2, <2>3, TimerStep
  <1>5. ASSUME NEW t \in Tabs, Disconnect(t)
        PROVE  ServiceInv'
    <2> DEFINE n == Disconnected(svc[t])
    <2>1. svc[t] \in Service /\ svc[t].attached = {svc[t].socket} \ {NoSocket}
      BY <1>0 DEF TabOK
    <2>2. /\ n \in Service /\ n.status = "offline" /\ n.socket = NoSocket
          /\ n.attached = {} /\ n.reconnectTimer = FALSE
          /\ n.bumpTimer = FALSE /\ n.stableTimer = FALSE
      BY <2>1, DisconnectedFields
    <2>3. svc' = [svc EXCEPT ![t] = n]
      BY <1>5 DEF Disconnect
    <2>4. net' = [k \in Sockets |-> IF k = svc[t].socket THEN "closing" ELSE net[k]]
      BY <1>5 DEF Disconnect
    <2>5. \A k \in Sockets : TabOf[k] # t => net'[k] = net[k]
      BY <1>0, <2>4 DEF TabOK
    <2>6. \A k \in Sockets : TabOf[k] = t => net'[k] \notin {"opening", "open"}
      BY <1>0, <2>4 DEF Held
    <2>7. net' \in [Sockets -> {"none", "opening", "open", "closing"}]
      BY <1>0, <2>4
    <2> HIDE DEF n
    <2> QED BY <2>2, <2>3, <2>5, <2>6, <2>7, RestStep
  <1>6. ASSUME NEW t \in Tabs, PageLoad(t)
        PROVE  ServiceInv'
    <2>1. /\ NewService \in Service /\ NewService.status = "offline"
          /\ NewService.socket = NoSocket /\ NewService.attached = {}
          /\ NewService.reconnectTimer = FALSE
          /\ NewService.bumpTimer = FALSE /\ NewService.stableTimer = FALSE
      BY LiveServiceAssumption DEF LiveServiceAssumption, NewService, Service, Statuses
    <2>2. /\ svc' = [svc EXCEPT ![t] = NewService]
          /\ net' = [k \in Sockets |-> IF TabOf[k] = t THEN "none" ELSE net[k]]
      BY <1>6 DEF PageLoad
    <2>3. /\ \A k \in Sockets : TabOf[k] # t => net'[k] = net[k]
          /\ \A k \in Sockets : TabOf[k] = t => net'[k] \notin {"opening", "open"}
          /\ net' \in [Sockets -> {"none", "opening", "open", "closing"}]
      BY <1>0, <2>2
    <2> QED BY <2>1, <2>2, <2>3, RestStep
  <1>7. ASSUME NEW k \in Sockets, Opened(k)
        PROVE  ServiceInv'
    BY <1>7, OpenedStep
  <1>8. ASSUME NEW k \in Sockets, Errored(k) \/ Closed(k)
        PROVE  ServiceInv'
    BY <1>8, DropStep DEF Errored, Closed
  <1>9. ASSUME NEW k \in Sockets, NEW r \in 0 .. MaxFrame, Message(k, r)
        PROVE  ServiceInv'
    <2> DEFINE t == TabOf[k]  s == svc[t]  n == OnMessage(s, r)
    <2>1. t \in Tabs /\ s \in Service /\ s.socket = k /\ k \in s.attached /\ ~s.stopped
      BY <1>0, <1>9 DEF Message, TabOK, Held
    <2>2. svc' = [svc EXCEPT ![t] = n] /\ UNCHANGED net
      BY <1>9, <2>1 DEF Message, Handled
    <2>3. r \in Nat
      BY LiveServiceAssumption DEF LiveServiceAssumption
    <2>4. /\ n \in Service /\ n.status = s.status /\ n.socket = s.socket
          /\ n.attached = s.attached /\ n.stopped = s.stopped
          /\ n.reconnectTimer = s.reconnectTimer /\ n.stableTimer = s.stableTimer
      BY <2>1, <2>3, SocketEventFields
    <2> HIDE DEF n
    <2> QED BY <2>1, <2>2, <2>4, TimerStep
  <1>10. CASE UNCHANGED liveVars
    BY <1>10 DEF liveVars, ServiceInv, LiveTypeOK, Held
  <1> QED
    BY <1>1, <1>2, <1>3, <1>4, <1>5, <1>6, <1>7, <1>8, <1>9, <1>10 DEF LiveNext

-----------------------------------------------------------------------------
(* LiveService: the theorems *)

LEMMA ServiceCorrect == LiveSpec => []ServiceInv
  <1>1. LiveInit => ServiceInv
    <2> SUFFICES ASSUME LiveInit PROVE ServiceInv
      OBVIOUS
    <2>1. /\ NewService \in Service /\ NewService.status = "offline"
          /\ NewService.socket = NoSocket /\ NewService.attached = {}
          /\ NewService.reconnectTimer = FALSE /\ NewService.stopped = FALSE
          /\ NewService.bumpTimer = FALSE /\ NewService.stableTimer = FALSE
      BY LiveServiceAssumption DEF LiveServiceAssumption, NewService, Service, Statuses
    <2>2. LiveTypeOK
      BY <2>1 DEF LiveInit, LiveTypeOK
    <2>3. \A t \in Tabs : TabOK(svc[t], t, net)
      BY <2>1 DEF LiveInit, TabOK
    <2>4. \A k \in Sockets : Held(k)
      BY DEF LiveInit, Held
    <2> QED BY <2>2, <2>3, <2>4 DEF ServiceInv
  <1> QED BY <1>1, ServiceStep, PTL DEF LiveSpec

\* The fields of every service always have their types; in particular the backoff
\* stays between its start and its cap (scheduleReconnect).
THEOREM LiveTypeCorrect == LiveSpec => []LiveTypeOK
  <1>1. ServiceInv => LiveTypeOK
    BY DEF ServiceInv
  <1> QED BY <1>1, ServiceCorrect, PTL

\* No WebSocket is leaked and the late events of a dropped one reach nobody
\* (openSocket, handleDrop and disconnect).
THEOREM LiveNoLeakedSocket == LiveSpec => []NoLeakedSocket
  <1>1. ServiceInv => NoLeakedSocket
    BY DEF ServiceInv, TabOK, Held, NoLeakedSocket
  <1> QED BY <1>1, ServiceCorrect, PTL

\* Between connect() and disconnect() there is a socket that is up or coming up,
\* or else a pending reconnect, never both.
THEOREM LiveNeverWedged == LiveSpec => []NeverWedged
  <1>1. ServiceInv => NeverWedged
    BY DEF ServiceInv, TabOK, NeverWedged
  <1> QED BY <1>1, ServiceCorrect, PTL

\* After disconnect() no timer, socket or handler is left.
THEOREM LiveStoppedIsSilent == LiveSpec => []StoppedIsSilent
  <1>1. ServiceInv => StoppedIsSilent
    BY DEF ServiceInv, TabOK, StoppedIsSilent
  <1> QED BY <1>1, ServiceCorrect, PTL

\* The indicator says "live" exactly while the service's socket is open.
THEOREM LiveIndicatorTruthful == LiveSpec => []IndicatorTruthful
  <1>1. ServiceInv => IndicatorTruthful
    BY DEF ServiceInv, TabOK, IndicatorTruthful
  <1> QED BY <1>1, ServiceCorrect, PTL

\* The backoff shrinks only by the stability timer of a connection that is open,
\* or by a page load (STABLE_AFTER_MS and the clearing of the timer in handleDrop).
THEOREM LiveBackoffResets == LiveSpec => BackoffResetsOnlyWhenLive
  <1> DEFINE Resets(t) == svc'[t].backoff < svc[t].backoff =>
                            \/ svc[t].status = "live" /\ svc'[t].socket = svc[t].socket
                            \/ svc'[t] = NewService
  <1>1. ServiceInv /\ [LiveNext]_liveVars => [\A t \in Tabs : Resets(t)]_liveVars
    <2> SUFFICES ASSUME ServiceInv, LiveNext, NEW t \in Tabs
                 PROVE  Resets(t)
      OBVIOUS
    <2>0. /\ NoSocket \notin Sockets /\ TabOf \in [Sockets -> Tabs]
          /\ svc \in [Tabs -> Service] /\ svc[t].backoff \in Int
          /\ \A u \in Tabs : TabOK(svc[u], u, net)
          /\ \A k \in Sockets : Held(k)
      BY LiveServiceAssumption
      DEF LiveServiceAssumption, ServiceInv, LiveTypeOK, Service
    <2>1. ASSUME svc'[t].backoff >= svc[t].backoff
          PROVE  Resets(t)
      <3>1. svc'[t].backoff \in Int
        <4>1. ServiceInv'
          BY ServiceStep
        <4> QED BY <4>1, LiveServiceAssumption
                DEF LiveServiceAssumption, ServiceInv, LiveTypeOK, Service
      <3> QED BY <2>0, <2>1, <3>1
    <2>2. ASSUME NEW u \in Tabs, NEW s \in Service, svc' = [svc EXCEPT ![u] = s],
                 u = t => s.backoff >= svc[t].backoff
          PROVE  Resets(t)
      <3>1. svc'[t].backoff >= svc[t].backoff
        BY <2>0, <2>2
      <3> QED BY <2>1, <3>1
    <2>3. ASSUME NEW u \in Tabs, NEW k \in Sockets \union {NoSocket}, Connect(u, k)
          PROVE  Resets(t)
      <3>1. /\ svc[u] \in Service /\ ~svc[u].stopped
            /\ svc[u].socket = NoSocket /\ svc[u].attached = {}
        BY <2>0, <2>3 DEF Connect, TabOK
      <3>2. OpenSocket(svc[u], k) \in Service /\ OpenSocket(svc[u], k).backoff >= svc[u].backoff
        BY <3>1, OpenSocketFields
      <3>3. svc' = [svc EXCEPT ![u] = OpenSocket(svc[u], k)]
        BY <2>3 DEF Connect
      <3> QED BY <2>2, <3>2, <3>3
    <2>4. ASSUME NEW u \in Tabs, NEW k \in Sockets \union {NoSocket}, FireReconnect(u, k)
          PROVE  Resets(t)
      <3> DEFINE s == [svc[u] EXCEPT !.reconnectTimer = FALSE]
      <3>1. /\ svc[u] \in Service /\ ~svc[u].stopped
            /\ svc[u].socket = NoSocket /\ svc[u].attached = {}
        BY <2>0, <2>4 DEF FireReconnect, TabOK
      <3>2. s \in Service /\ ~s.stopped /\ s.socket = NoSocket /\ s.attached = {}
            /\ s.backoff = svc[u].backoff
        BY <3>1, FiredReconnectFields
      <3>3. svc' = [svc EXCEPT ![u] = OpenSocket(s, k)]
        BY <2>4 DEF FireReconnect
      <3> HIDE DEF s
      <3>4. OpenSocket(s, k) \in Service /\ OpenSocket(s, k).backoff >= s.backoff
        BY <3>2, OpenSocketFields
      <3> QED BY <2>2, <3>2, <3>3, <3>4
    <2>5. ASSUME NEW u \in Tabs, FireBump(u)
          PROVE  Resets(t)
      <3> DEFINE n == [svc[u] EXCEPT !.bumpTimer = FALSE]
      <3>1. n \in Service /\ n.backoff = svc[u].backoff
        BY <2>0, FiredBumpFields
      <3>2. svc' = [svc EXCEPT ![u] = n]
        BY <2>5 DEF FireBump
      <3> HIDE DEF n
      <3> QED BY <2>0, <2>2, <3>1, <3>2
    <2>6. ASSUME NEW u \in Tabs, FireStable(u)
          PROVE  Resets(t)
      <3> DEFINE n == [svc[u] EXCEPT !.stableTimer = FALSE, !.backoff = BACKOFF_START]
      <3>1. n \in Service /\ n.socket = svc[u].socket
        BY <2>0, FiredStableFields
      <3>2. svc' = [svc EXCEPT ![u] = n]
        BY <2>0, <2>6 DEF FireStable
      <3>3. svc[u].status = "live"
        BY <2>0, <2>6 DEF FireStable, TabOK
      <3> HIDE DEF n
      <3>4. CASE u = t
        BY <2>0, <3>1, <3>2, <3>3, <3>4
      <3>5. CASE u # t
        BY <2>0, <2>2, <3>1, <3>2, <3>5
      <3> QED BY <3>4, <3>5
    <2>7. ASSUME NEW u \in Tabs, Disconnect(u)
          PROVE  Resets(t)
      <3>1. svc[u] \in Service /\ svc[u].attached = {svc[u].socket} \ {NoSocket}
        BY <2>0 DEF TabOK
      <3>2. Disconnected(svc[u]) \in Service /\ Disconnected(svc[u]).backoff = svc[u].backoff
        BY <3>1, DisconnectedFields
      <3>3. svc' = [svc EXCEPT ![u] = Disconnected(svc[u])]
        BY <2>7 DEF Disconnect
      <3> QED BY <2>0, <2>2, <3>2, <3>3
    <2>8. ASSUME NEW u \in Tabs, PageLoad(u)
          PROVE  Resets(t)
      <3>1. svc' = [svc EXCEPT ![u] = NewService]
        BY <2>8 DEF PageLoad
      <3>2. svc'[t] = NewService \/ svc'[t] = svc[t]
        BY <2>0, <3>1
      <3> QED BY <2>0, <2>1, <3>2
    <2>9. ASSUME NEW k \in Sockets, NEW n \in Service, svc' = Handled(k, n),
                 n.backoff >= svc[TabOf[k]].backoff
          PROVE  Resets(t)
      <3>1. svc' = svc \/ svc' = [svc EXCEPT ![TabOf[k]] = n]
        BY <2>9 DEF Handled
      <3>2. TabOf[k] \in Tabs
        BY <2>0
      <3> QED BY <2>0, <2>1, <2>2, <2>9, <3>1, <3>2
    <2>10. ASSUME NEW k \in Sockets
           PROVE  /\ Opened(k) => Resets(t)
                  /\ \A r \in 0 .. MaxFrame : Message(k, r) => Resets(t)
                  /\ Errored(k) \/ Closed(k) => Resets(t)
      <3> DEFINE s == svc[TabOf[k]]
      <3>1. s \in Service /\ s.backoff \in Int
        BY <2>0, LiveServiceAssumption DEF LiveServiceAssumption, Service
      <3>2. OnOpen(s) \in Service /\ OnOpen(s).backoff = s.backoff
        BY <3>1, SocketEventFields
      <3>3. \A r \in 0 .. MaxFrame : OnMessage(s, r) \in Service
                                     /\ OnMessage(s, r).backoff = s.backoff
        BY <3>1, SocketEventFields, LiveServiceAssumption DEF LiveServiceAssumption
      <3>4. ASSUME Errored(k) \/ Closed(k)
            PROVE  Resets(t)
        <4>1. svc' = Handled(k, HandleDrop(s))
          BY <3>4 DEF Errored, Closed
        <4>2. CASE k \in s.attached
          <5>1. ~s.stopped /\ s.attached = {s.socket} \ {NoSocket}
            BY <2>0, <4>2 DEF TabOK
          <5>2. HandleDrop(s) \in Service /\ HandleDrop(s).backoff >= s.backoff
            BY <3>1, <5>1, HandleDropFields
          <5> QED BY <2>9, <4>1, <5>2
        <4>3. CASE k \notin s.attached
          BY <2>0, <2>1, <4>1, <4>3 DEF Handled
        <4> QED BY <4>2, <4>3
      <3>5. ASSUME Opened(k)
            PROVE  Resets(t)
        BY <2>9, <3>1, <3>2, <3>5 DEF Opened
      <3>6. ASSUME NEW r \in 0 .. MaxFrame, Message(k, r)
            PROVE  Resets(t)
        BY <2>9, <3>1, <3>3, <3>6 DEF Message
      <3> QED BY <3>4, <3>5, <3>6
    <2> HIDE DEF Resets
    <2> QED BY <2>3, <2>4, <2>5, <2>6, <2>7, <2>8, <2>10 DEF LiveNext
  <1> QED BY <1>1, ServiceCorrect, PTL DEF LiveSpec, BackoffResetsOnlyWhenLive

-----------------------------------------------------------------------------
(* The types, and the counting of broadcasts *)

ServerInv ==
    /\ dbv \in 0 .. MaxCommits
    /\ mutating \in [Broadcasters -> BOOLEAN]
    /\ peer \in [Sockets -> {"none", "accepted", "registered", "gone"}]
    /\ wire \in [Sockets -> Seq(Revs)]
    /\ faults \in 0 .. MaxFaults

TabsInv ==
    /\ fetch \in [Tabs -> SUBSET Requests]
    /\ view \in [Tabs -> {Blank} \union (0 .. MaxCommits)]

\* A view has one refetch at a time (switchMap), whose answer is no older than what
\* is shown.
FetchInv ==
    \A t \in Tabs :
        /\ view[t] <= dbv
        /\ \A f \in fetch[t] : f.st = "served" => view[t] <= f.v /\ f.v <= dbv
        /\ \A f, g \in fetch[t] : f = g

Committing == {w \in Broadcasters : mutating[w]}

\* Until something fails, every commit has a revision or a handler about to take one.
CountInv ==
    /\ IsFiniteSet(Committing)
    /\ faults = 0 => dbv = rev + Cardinality(Committing)

-----------------------------------------------------------------------------
(* No update is lost *)

\* What is on its way to the browser on socket k, oldest first.
Queue(k) == wire[k] \o send[k]

Queued(k) == {Queue(k)[i] : i \in DOMAIN Queue(k)}

\* The revisions up to r that reach socket k behind position i of its queue.
Behind(k, i, r) ==
    {q \in {Queue(k)[j] : j \in {n \in DOMAIN Queue(k) : n > i}} \union InFlight : q <= r}

Few(S) == IsFiniteSet(S) /\ Cardinality(S) < Cardinality(Broadcasters)

\* The registry of the hub and the ws handlers agree, and a socket that is not
\* registered yet has received nothing.
PeerOK(k) ==
    /\ k \in clients <=> peer[k] = "registered"
    /\ peer[k] \in {"none", "accepted"} => wire[k] = <<>>
    /\ peer[k] = "registered" => \A q \in Queued(k) : q <= rev

PeerInv == \A k \in Sockets : PeerOK(k)

\* A revision can be overtaken only by those in flight when it was delivered.
LateInv ==
    \A k \in Sockets : peer[k] = "registered" =>
        \A i \in DOMAIN Queue(k) : Few(Behind(k, i, Queue(k)[i]))

\* The tab has seen the database, or will fetch again, or an event that makes it do so
\* is on its way to it.
Informed(t, k) ==
    \/ svc[t].bumpTimer
    \/ \E f \in fetch[t] : f.st = "sent" \/ f.v = dbv
    \/ fetch[t] = {} /\ view[t] = dbv
    \/ \E w \in Broadcasters : mutating[w]
    \/ \E r \in InFlight \union Queued(k) : r > svc[t].lastRev

RevInv(t, k) ==
    /\ peer[k] \in {"none", "accepted"} => svc[t].lastRev = 0
    /\ peer[k] = "registered" => /\ svc[t].lastRev <= rev
                                 /\ svc[t].lastRev > 0 => Few(Behind(k, 0, svc[t].lastRev))

LiveTabInv(t, k) ==
    svc[t].status = "live" =>
        /\ peer[k] # "none"
        /\ peer[k] = "accepted" => svc[t].bumpTimer
        /\ peer[k] = "registered" => Informed(t, k)

TabInv ==
    \A t \in Tabs : svc[t].socket \in Sockets =>
        RevInv(t, svc[t].socket) /\ LiveTabInv(t, svc[t].socket)

DeliveryInv == PeerInv /\ LateInv /\ TabInv

-----------------------------------------------------------------------------
(* The composition implements the hub and the service *)

LEMMA HubStep ==
    ASSUME [Next]_vars
    PROVE  [HubNext]_hubVars
<1>1. CASE UNCHANGED vars
  BY <1>1 DEF vars
<1>2. ASSUME NEW w \in Broadcasters, Mutator(w) PROVE [HubNext]_hubVars
  <2>1. CASE BroadcastStart(w) \/ BroadcastEnd(w)
    <3>1. Stamp(w) \/ Deliver(w)
      BY <2>1 DEF BroadcastStart, BroadcastEnd
    <3> QED BY <3>1 DEF HubNext
  <2>2. CASE Commit(w) \/ RereadFails(w)
    BY <2>2 DEF Commit, RereadFails
  <2> QED BY <1>2, <2>1, <2>2 DEF Mutator
<1>3. ASSUME NEW k \in Sockets, WsHandler(k) PROVE [HubNext]_hubVars
  BY <1>3, LiveUpdatesAssumption DEF WsHandler, Accept, RegisterConn, WritePump, PumpExit, HubNext
<1>4. ASSUME NEW k \in Sockets, SocketEvent(k) PROVE [HubNext]_hubVars
  BY <1>4 DEF SocketEvent, SocketOpens, Receive, SocketFails, SocketCloses
<1>5. ASSUME NEW t \in Tabs, Tab(t) PROVE [HubNext]_hubVars
  BY <1>5 DEF Tab, Dial, Bump, Stabilise, Serve, Render, FetchFails, SessionExpires, Reload
<1>6. CASE Crash
  BY <1>6 DEF Crash, HubNext
<1> QED BY <1>1, <1>2, <1>3, <1>4, <1>5, <1>6 DEF Next

\* Composed with the mutation handlers, the ws handlers and the browsers, the hub does
\* only what its own specification allows, so what is proved of it alone holds here.
THEOREM LiveUpdatesImplementHub == Spec => HubSpec
<1>1. Init => HubInit
  BY DEF Init
<1>2. [Next]_vars => [HubNext]_hubVars
  BY HubStep
<1> QED BY <1>1, <1>2, PTL DEF Spec, HubSpec

LEMMA RegistryHolds == Spec => []RegistryInv
BY LiveUpdatesImplementHub, RegistryCorrect, PTL

LEMMA HubHolds == Spec => [](HubTypeOK /\ RevisionsUnique)
BY LiveUpdatesImplementHub, HubTypeCorrect, HubRevisionsUnique, PTL

LEMMA ServerInit == Init => ServerInv
BY LiveUpdatesAssumption, EmptySeq DEF Init, ServerInv

LEMMA ServerStep ==
    ASSUME HubTypeOK, ServerInv, [Next]_vars
    PROVE  ServerInv'
<1> USE LiveUpdatesAssumption DEF ServerInv
<1>1. CASE UNCHANGED vars
  BY <1>1 DEF vars
<1>2. ASSUME NEW w \in Broadcasters, Mutator(w) PROVE ServerInv'
  <2>1. CASE Commit(w)
    <3>1. dbv' \in 0 .. MaxCommits
      BY <2>1 DEF Commit
    <3> QED BY <2>1, <3>1 DEF Commit
  <2>2. CASE RereadFails(w) \/ BroadcastStart(w) \/ BroadcastEnd(w)
    BY <2>2 DEF RereadFails, BroadcastStart, BroadcastEnd
  <2> QED BY <1>2, <2>1, <2>2 DEF Mutator
<1>3. ASSUME NEW k \in Sockets, WsHandler(k) PROVE ServerInv'
  <2>1. CASE WritePump(k)
    <3>1. send[k] \in Seq(Revs) /\ send[k] # <<>>
      BY <2>1 DEF HubTypeOK, WritePump, Drain
    <3>2. Append(wire[k], Head(send[k])) \in Seq(Revs)
      BY <3>1, HeadTailProperties, AppendProperties
    <3> QED BY <2>1, <3>2 DEF WritePump
  <2>2. CASE Accept(k) \/ RegisterConn(k)
    BY <2>2 DEF Accept, RegisterConn
  <2>3. CASE PumpExit(k)
    BY <2>3 DEF PumpExit, Fault
  <2> QED BY <1>3, <2>1, <2>2, <2>3 DEF WsHandler
<1>4. ASSUME NEW k \in Sockets, SocketEvent(k) PROVE ServerInv'
  <2>1. CASE Receive(k)
    <3>1. Tail(wire[k]) \in Seq(Revs)
      BY <2>1, HeadTailProperties DEF Receive
    <3> QED BY <2>1, <3>1 DEF Receive
  <2>2. CASE SocketOpens(k) \/ SocketFails(k) \/ SocketCloses(k)
    BY <2>2 DEF SocketOpens, SocketFails, SocketCloses, Fault
  <2> QED BY <1>4, <2>1, <2>2 DEF SocketEvent
<1>5. ASSUME NEW t \in Tabs, Tab(t) PROVE ServerInv'
  <2>1. ASSUME NEW k \in Sockets \union {NoSocket}, Dial(t, k) PROVE ServerInv'
    BY <2>1, EmptySeq DEF Dial, Fresh
  <2>2. CASE Bump(t) \/ Stabilise(t) \/ Serve(t) \/ Render(t)
    BY <2>2 DEF Bump, Stabilise, Serve, Render
  <2>3. CASE FetchFails(t) \/ SessionExpires(t) \/ Reload(t)
    BY <2>3 DEF FetchFails, SessionExpires, Reload, Fault
  <2> QED BY <1>5, <2>1, <2>2, <2>3 DEF Tab
<1>6. CASE Crash
  BY <1>6 DEF Crash, Fault
<1> QED BY <1>1, <1>2, <1>3, <1>4, <1>5, <1>6 DEF Next

LEMMA ServerHolds == Spec => []ServerInv
<1>1. Init => ServerInv
  BY ServerInit
<1>2. HubTypeOK /\ ServerInv /\ [Next]_vars => ServerInv'
  BY ServerStep
<1>3. HubTypeOK /\ RevisionsUnique => HubTypeOK
  OBVIOUS
<1> QED BY <1>1, <1>2, <1>3, HubHolds, PTL DEF Spec

LEMMA LiveStep ==
    ASSUME ServerInv, [Next]_vars
    PROVE  [LiveNext]_liveVars
<1>1. CASE UNCHANGED vars
  BY <1>1 DEF vars
<1>2. ASSUME NEW w \in Broadcasters, Mutator(w) PROVE [LiveNext]_liveVars
  BY <1>2 DEF Mutator, Commit, RereadFails, BroadcastStart, BroadcastEnd
<1>3. ASSUME NEW k \in Sockets, WsHandler(k) PROVE [LiveNext]_liveVars
  BY <1>3 DEF WsHandler, Accept, RegisterConn, WritePump, PumpExit
<1>4. ASSUME NEW k \in Sockets, SocketEvent(k) PROVE [LiveNext]_liveVars
  <2>1. CASE Receive(k)
    <3>1. Head(wire[k]) \in Revs
      BY <2>1, HeadTailProperties DEF Receive, ServerInv
    <3>2. Head(wire[k]) \in 0 .. MaxFrame
      BY <3>1, LiveUpdatesAssumption DEF Revs
    <3> QED BY <2>1, <3>2 DEF Receive, LiveNext
  <2>2. CASE SocketOpens(k) \/ SocketFails(k) \/ SocketCloses(k)
    BY <2>2 DEF SocketOpens, SocketFails, SocketCloses, LiveNext
  <2> QED BY <1>4, <2>1, <2>2 DEF SocketEvent
<1>5. ASSUME NEW t \in Tabs, Tab(t) PROVE [LiveNext]_liveVars
  BY <1>5 DEF Tab, Dial, Bump, Stabilise, Serve, Render, FetchFails, SessionExpires, Reload, LiveNext
<1>6. CASE Crash
  BY <1>6 DEF Crash
<1> QED BY <1>1, <1>2, <1>3, <1>4, <1>5, <1>6 DEF Next

\* The browser's service sees of the server only what its own specification foresees:
\* events on its sockets in an order that can happen, and frames with a revision.
THEOREM LiveUpdatesImplementService == Spec => LiveSpec
<1>1. Init => LiveInit
  BY DEF Init
<1>2. ServerInv /\ [Next]_vars => [LiveNext]_liveVars
  BY LiveStep
<1> QED BY <1>1, <1>2, ServerHolds, PTL DEF Spec, LiveSpec

LEMMA ServiceHolds == Spec => []ServiceInv
BY LiveUpdatesImplementService, ServiceCorrect, PTL

-----------------------------------------------------------------------------
(* What the tabs fetch and show *)

\* A step that is no tab's and no crash leaves fetches and views alone.
LEMMA TabsKept ==
    ASSUME \/ UNCHANGED vars
           \/ \E w \in Broadcasters : Mutator(w)
           \/ \E k \in Sockets : WsHandler(k) \/ SocketEvent(k)
    PROVE  UNCHANGED <<fetch, view>>
<1>1. ASSUME NEW w \in Broadcasters, Mutator(w) PROVE UNCHANGED <<fetch, view>>
  BY <1>1 DEF Mutator, Commit, RereadFails, BroadcastStart, BroadcastEnd
<1>2. ASSUME NEW k \in Sockets, WsHandler(k) PROVE UNCHANGED <<fetch, view>>
  BY <1>2 DEF WsHandler, Accept, RegisterConn, WritePump, PumpExit
<1>3. ASSUME NEW k \in Sockets, SocketEvent(k) PROVE UNCHANGED <<fetch, view>>
  BY <1>3 DEF SocketEvent, SocketOpens, Receive, SocketFails, SocketCloses
<1> QED BY <1>1, <1>2, <1>3 DEF vars

LEMMA SentRequest == Sent \in Requests /\ Sent.st = "sent"
BY LiveUpdatesAssumption DEF Sent, Requests

LEMMA CrashTabs ==
    ASSUME TabsInv, Crash, NEW t \in Tabs
    PROVE  /\ fetch'[t] = {f \in fetch[t] : f.st = "served"}
           /\ view'[t] = view[t] \/ (~KeepOnError /\ view'[t] = Blank)
BY DEF Crash, TabsInv

\* The answer of refetch f, and its rendering.
LEMMA ServeTab ==
    ASSUME ServerInv, TabsInv, NEW t \in Tabs, Serve(t)
    PROVE  \E f \in fetch[t], g \in Requests :
              /\ g.st = "served" /\ g.v = dbv
              /\ fetch' = [fetch EXCEPT ![t] = (fetch[t] \ {f}) \union {g}]
<1> DEFINE g == [st |-> "served", v |-> dbv]
<1>1. g \in Requests /\ g.st = "served" /\ g.v = dbv
  BY DEF ServerInv, Requests
<1> QED BY <1>1 DEF Serve, TabsInv

LEMMA TabsStep ==
    ASSUME ServerInv, TabsInv, [Next]_vars
    PROVE  TabsInv'
<1>1. ASSUME UNCHANGED <<fetch, view>> PROVE TabsInv'
  BY <1>1 DEF TabsInv
<1>2. ASSUME NEW t \in Tabs, Tab(t) PROVE TabsInv'
  <2>1. CASE (\E k \in Sockets \union {NoSocket} : Dial(t, k)) \/ Stabilise(t)
    BY <1>1, <2>1 DEF Dial, Stabilise
  <2>2. CASE Bump(t)
    BY <2>2, SentRequest DEF Bump, Refetch, TabsInv
  <2>3. CASE Serve(t)
    <3>1. PICK f \in fetch[t], g \in Requests : fetch' = [fetch EXCEPT ![t] = (fetch[t] \ {f}) \union {g}]
      BY <2>3, ServeTab
    <3>2. (fetch[t] \ {f}) \union {g} \in SUBSET Requests
      BY DEF TabsInv
    <3> QED BY <2>3, <3>1, <3>2 DEF Serve, TabsInv
  <2>4. CASE Render(t)
    BY <2>4 DEF Render, TabsInv, Requests
  <2>5. CASE FetchFails(t) \/ SessionExpires(t)
    BY <2>5 DEF FetchFails, SessionExpires, OnError, TabsInv
  <2>6. CASE Reload(t)
    BY <2>6, SentRequest DEF Reload, TabsInv
  <2> QED BY <1>2, <2>1, <2>2, <2>3, <2>4, <2>5, <2>6 DEF Tab
<1>3. CASE Crash
  BY <1>3 DEF Crash, TabsInv
<1> QED BY <1>1, <1>2, <1>3, TabsKept DEF Next

LEMMA TabsHolds == Spec => []TabsInv
<1>1. Init => TabsInv
  BY SentRequest DEF Init, TabsInv
<1>2. ServerInv /\ TabsInv /\ [Next]_vars => TabsInv'
  BY TabsStep
<1> QED BY <1>1, <1>2, ServerHolds, PTL DEF Spec

\* Every variable of the composition has its type (hub.go, ws.go, live.service.ts).
THEOREM LiveUpdatesTypeCorrect == Spec => []TypeOK
<1>1. (HubTypeOK /\ RevisionsUnique) /\ ServiceInv /\ ServerInv /\ TabsInv => TypeOK
  BY DEF TypeOK, ServiceInv, ServerInv, TabsInv
<1> QED BY <1>1, HubHolds, ServiceHolds, ServerHolds, TabsHolds, PTL

LEMMA FetchStep ==
    ASSUME ServerInv, TabsInv, FetchInv, [Next]_vars
    PROVE  FetchInv'
<1>1. dbv \in Nat /\ dbv' \in Nat /\ dbv <= dbv'
  <2>1. ASSUME UNCHANGED dbv PROVE dbv' \in Nat /\ dbv <= dbv'
    BY <2>1 DEF ServerInv
  <2>2. ASSUME NEW w \in Broadcasters, Mutator(w) PROVE UNCHANGED dbv \/ dbv' = dbv + 1
    BY <2>2 DEF Mutator, Commit, RereadFails, BroadcastStart, BroadcastEnd
  <2>3. ASSUME NEW k \in Sockets, WsHandler(k) \/ SocketEvent(k) PROVE UNCHANGED dbv
    BY <2>3 DEF WsHandler, Accept, RegisterConn, WritePump, PumpExit,
                SocketEvent, SocketOpens, Receive, SocketFails, SocketCloses
  <2>4. ASSUME NEW t \in Tabs, Tab(t) PROVE UNCHANGED dbv
    BY <2>4 DEF Tab, Dial, Bump, Stabilise, Serve, Render, FetchFails, SessionExpires, Reload
  <2>5. dbv \in Nat
    BY DEF ServerInv
  <2> QED BY <2>1, <2>2, <2>3, <2>4, <2>5 DEF Next, Crash, vars
<1>2. \A t \in Tabs : view[t] \in Int /\ \A f \in fetch[t] : f.v \in Nat
  BY DEF TabsInv, Requests, Blank
<1>3. ASSUME NEW t \in Tabs, UNCHANGED <<fetch[t], view[t]>>
      PROVE  /\ view'[t] <= dbv'
             /\ \A f \in fetch'[t] : f.st = "served" => view'[t] <= f.v /\ f.v <= dbv'
             /\ \A f, g \in fetch'[t] : f = g
  BY <1>1, <1>2, <1>3 DEF FetchInv
<1>4. ASSUME UNCHANGED <<fetch, view>> PROVE FetchInv'
  BY <1>3, <1>4 DEF FetchInv
<1>5. ASSUME NEW t \in Tabs, Tab(t) PROVE FetchInv'
  <2>1. CASE (\E k \in Sockets \union {NoSocket} : Dial(t, k)) \/ Stabilise(t)
    BY <1>4, <2>1 DEF Dial, Stabilise
  <2>2. ASSUME UNCHANGED dbv, NEW F, NEW v \in Int,
               fetch' = [fetch EXCEPT ![t] = F], view' = [view EXCEPT ![t] = v],
               v <= dbv, \A f \in F : f.st = "served" => v <= f.v /\ f.v <= dbv,
               \A f, g \in F : f = g
        PROVE  FetchInv'
    BY <2>2 DEF FetchInv, TabsInv
  <2>3. view = [view EXCEPT ![t] = view[t]]
    BY DEF TabsInv
  <2>4. view[t] \in Int /\ view[t] <= dbv /\ Blank \in Int /\ Blank <= dbv
    BY <1>1, <1>2 DEF FetchInv, Blank
  <2>10. (\A f \in {Sent} : f.st # "served") /\ \A f, g \in {Sent} : f = g
    BY SentRequest
  <2>5. CASE Bump(t)
    <3>1. fetch' = [fetch EXCEPT ![t] = {Sent}] /\ UNCHANGED <<dbv, view>>
      BY <2>5 DEF Bump, Refetch
    <3>2. view' = [view EXCEPT ![t] = view[t]]
      BY <2>3, <3>1
    <3> DEFINE F == {Sent}
    <3>3. /\ fetch' = [fetch EXCEPT ![t] = F] /\ \A f \in F : f.st # "served"
          /\ \A f, g \in F : f = g
      BY <2>10, <3>1
    <3> HIDE DEF F
    <3> QED BY <2>2, <2>4, <3>1, <3>2, <3>3
  <2>6. CASE Serve(t)
    <3>1. PICK f \in fetch[t], g \in Requests :
            /\ g.st = "served" /\ g.v = dbv
            /\ fetch' = [fetch EXCEPT ![t] = (fetch[t] \ {f}) \union {g}]
      BY <2>6, ServeTab
    <3>2. fetch[t] \ {f} = {}
      BY DEF FetchInv
    <3>3. fetch' = [fetch EXCEPT ![t] = {g}] /\ UNCHANGED <<dbv, view>>
      BY <2>6, <3>1, <3>2 DEF Serve
    <3>4. view' = [view EXCEPT ![t] = view[t]]
      BY <2>3, <3>3
    <3>5. \A h \in {g} : view[t] <= h.v /\ h.v <= dbv
      BY <1>1, <2>4, <3>1
    <3> DEFINE F == {g}
    <3>6. /\ fetch' = [fetch EXCEPT ![t] = F] /\ \A h \in F : view[t] <= h.v /\ h.v <= dbv
          /\ \A h, i \in F : h = i
      BY <3>3, <3>5
    <3> HIDE DEF F
    <3> QED BY <2>2, <2>4, <3>3, <3>4, <3>6
  <2>7. CASE Render(t)
    <3>1. PICK f \in fetch[t] : /\ f.st = "served" /\ UNCHANGED dbv
                                /\ fetch' = [fetch EXCEPT ![t] = fetch[t] \ {f}]
                                /\ view' = [view EXCEPT ![t] = f.v]
      BY <2>7 DEF Render
    <3>2. fetch[t] \ {f} = {} /\ f.v <= dbv /\ f.v \in Int
      BY <1>2, <3>1 DEF FetchInv
    <3> QED BY <2>2, <3>1, <3>2
  <2>8. CASE FetchFails(t) \/ SessionExpires(t)
    <3>1. PICK f \in fetch[t] : fetch' = [fetch EXCEPT ![t] = fetch[t] \ {f}]
      BY <2>8 DEF FetchFails, SessionExpires
    <3>2. fetch[t] \ {f} = {}
      BY DEF FetchInv
    <3>3. UNCHANGED dbv /\ \E v \in {view[t], Blank} : view' = [view EXCEPT ![t] = v]
      BY <2>8 DEF FetchFails, SessionExpires, OnError
    <3> QED BY <2>2, <2>4, <3>1, <3>2, <3>3
  <2>9. CASE Reload(t)
    <3>1. fetch' = [fetch EXCEPT ![t] = {Sent}] /\ view' = [view EXCEPT ![t] = Blank] /\ UNCHANGED dbv
      BY <2>9 DEF Reload
    <3> DEFINE F == {Sent}
    <3>3. /\ fetch' = [fetch EXCEPT ![t] = F] /\ \A f \in F : f.st # "served"
          /\ \A f, g \in F : f = g
      BY <2>10, <3>1
    <3> HIDE DEF F
    <3> QED BY <2>2, <2>4, <3>1, <3>3
  <2> QED BY <1>5, <2>1, <2>5, <2>6, <2>7, <2>8, <2>9 DEF Tab
<1>6. CASE Crash
  <2>1. UNCHANGED dbv /\ Blank <= dbv /\ \A f \in Nat : Blank <= f
    BY <1>1, <1>6 DEF Crash, Blank
  <2> QED BY <1>2, <1>6, <2>1, CrashTabs DEF FetchInv
<1> QED BY <1>4, <1>5, <1>6, TabsKept DEF Next

LEMMA FetchHolds == Spec => []FetchInv
<1>1. Init => FetchInv
  BY SentRequest DEF Init, FetchInv, Blank
<1>2. ServerInv /\ TabsInv /\ FetchInv /\ [Next]_vars => FetchInv'
  BY FetchStep
<1> QED BY <1>1, <1>2, ServerHolds, TabsHolds, PTL DEF Spec

\* Where a failed refetch leaves the screen alone (the detail view's catchError), what a
\* tab shows never goes back in time: a response is older than what is on screen only
\* if a newer refetch has replaced the one it answers (switchMap).
THEOREM LiveUpdatesViewMonotone == KeepOnError => (Spec => ViewNeverRegresses)
<1> SUFFICES ASSUME KeepOnError PROVE Spec => ViewNeverRegresses
  OBVIOUS
<1>1. ServerInv /\ TabsInv /\ FetchInv /\ ServiceInv /\ [Next]_vars =>
      [\A t \in Tabs : view'[t] >= view[t] \/ svc'[t] = NewService]_vars
  <2> SUFFICES ASSUME ServerInv, TabsInv, FetchInv, ServiceInv, [Next]_vars, NEW t \in Tabs
               PROVE  view'[t] >= view[t] \/ svc'[t] = NewService
    BY Zenon
  <2>1. view[t] \in Int /\ view \in [Tabs -> Int] /\ \A f \in fetch[t] : f.v \in Nat
    BY DEF TabsInv, Requests, Blank
  <2>2. ASSUME view'[t] = view[t] PROVE view'[t] >= view[t]
    BY <2>1, <2>2
  <2>3. ASSUME NEW u \in Tabs, Tab(u) PROVE view'[t] >= view[t] \/ svc'[t] = NewService
    <3>1. CASE (\E k \in Sockets \union {NoSocket} : Dial(u, k)) \/ Stabilise(u) \/ Bump(u) \/ Serve(u)
      BY <2>2, <3>1 DEF Dial, Stabilise, Bump, Serve
    <3>2. CASE Render(u)
      BY <2>1, <3>2 DEF Render, FetchInv
    <3>3. CASE FetchFails(u) \/ SessionExpires(u)
      BY <2>1, <3>3 DEF FetchFails, SessionExpires, OnError
    <3>4. CASE Reload(u)
      <4>1. CASE u = t
        <5>1. svc' = [svc EXCEPT ![u] = NewService]
          BY <3>4 DEF Reload, PageLoad
        <5>2. svc \in [Tabs -> Service]
          BY DEF ServiceInv, LiveTypeOK
        <5> QED BY <4>1, <5>1, <5>2
      <4>2. CASE u # t
        BY <2>1, <3>4, <4>2 DEF Reload
      <4> QED BY <4>1, <4>2
    <3> QED BY <2>3, <3>1, <3>2, <3>3, <3>4 DEF Tab
  <2>4. CASE Crash
    BY <2>1, <2>4, CrashTabs
  <2> QED BY <2>2, <2>3, <2>4, TabsKept DEF Next
<1> QED BY <1>1, ServerHolds, TabsHolds, FetchHolds, ServiceHolds, PTL DEF Spec, ViewNeverRegresses

-----------------------------------------------------------------------------
(* Every commit is broadcast *)

LEMMA CountStep ==
    ASSUME ~RereadMayFail, HubTypeOK, ServerInv, CountInv, [Next]_vars
    PROVE  CountInv'
<1>1. /\ dbv \in Nat /\ rev \in Nat /\ faults \in Nat /\ mutating \in [Broadcasters -> BOOLEAN]
      /\ Cardinality(Committing) \in Nat /\ IsFiniteSet(Committing)
  BY FS_CardinalityType DEF ServerInv, HubTypeOK, CountInv
<1>2. ASSUME UNCHANGED <<dbv, rev, mutating>>, faults' = 0 => faults = 0 PROVE CountInv'
  BY <1>2 DEF CountInv, Committing
<1>3. ASSUME NEW w \in Broadcasters, Commit(w) PROVE CountInv'
  <2>1. Committing' = Committing \union {w} /\ w \notin Committing
    BY <1>1, <1>3 DEF Commit, Committing
  <2>2. IsFiniteSet(Committing') /\ Cardinality(Committing') = Cardinality(Committing) + 1
    BY <1>1, <2>1, FS_AddElement
  <2> QED BY <1>1, <1>3, <2>2 DEF Commit, CountInv, hubVars
<1>4. ASSUME NEW w \in Broadcasters, BroadcastStart(w) PROVE CountInv'
  <2>1. Committing' = Committing \ {w} /\ w \in Committing
    BY <1>1, <1>4 DEF BroadcastStart, Committing
  <2>2. IsFiniteSet(Committing') /\ Cardinality(Committing') = Cardinality(Committing) - 1
    BY <1>1, <2>1, FS_RemoveElement
  <2>3. rev' = rev + 1 /\ UNCHANGED <<dbv, faults>>
    BY <1>4 DEF BroadcastStart, Stamp
  <2> QED BY <1>1, <2>2, <2>3 DEF CountInv
<1>5. ASSUME NEW w \in Broadcasters, RereadFails(w) \/ BroadcastEnd(w) PROVE CountInv'
  BY <1>2, <1>5 DEF RereadFails, BroadcastEnd, Deliver
<1>6. ASSUME NEW k \in Sockets, WsHandler(k) PROVE CountInv'
  <2>1. UNCHANGED <<dbv, rev, mutating>> /\ (UNCHANGED faults \/ faults' = faults + 1)
    BY <1>6 DEF WsHandler, Accept, RegisterConn, WritePump, PumpExit, Fault,
                Register, Refuse, Unregister, Drain, hubVars
  <2> QED BY <1>1, <1>2, <2>1
<1>7. ASSUME NEW k \in Sockets, SocketEvent(k) PROVE CountInv'
  <2>1. UNCHANGED <<dbv, rev, mutating>> /\ (UNCHANGED faults \/ faults' = faults + 1)
    BY <1>7 DEF SocketEvent, SocketOpens, Receive, SocketFails, SocketCloses, Fault, hubVars
  <2> QED BY <1>1, <1>2, <2>1
<1>8. ASSUME NEW t \in Tabs, Tab(t) PROVE CountInv'
  <2>1. UNCHANGED <<dbv, rev, mutating>> /\ (UNCHANGED faults \/ faults' = faults + 1)
    BY <1>8 DEF Tab, Dial, Bump, Stabilise, Serve, Render, FetchFails, SessionExpires, Reload, Fault, hubVars
  <2> QED BY <1>1, <1>2, <2>1
<1>9. CASE Crash
  <2>1. Committing' = {}
    BY <1>9 DEF Crash, Committing
  <2>2. faults' # 0
    BY <1>1, <1>9 DEF Crash, Fault
  <2> QED BY <2>1, <2>2, FS_EmptySet DEF CountInv
<1>10. CASE UNCHANGED vars
  BY <1>2, <1>10 DEF vars, hubVars
<1> QED BY <1>3, <1>4, <1>5, <1>6, <1>7, <1>8, <1>9, <1>10 DEF Next, Mutator

\* Where the re-read after a commit does not fail, every commit is broadcast: a handler
\* that has committed takes exactly one revision, however handlers interleave, so
\* with none in flight there are as many revisions as commits (handlers.go).
THEOREM LiveUpdatesEveryCommitBroadcast == ~RereadMayFail => (Spec => []EveryCommitBroadcast)
<1> SUFFICES ASSUME ~RereadMayFail PROVE Spec => []EveryCommitBroadcast
  OBVIOUS
<1>1. Init => CountInv
  <2> SUFFICES ASSUME Init PROVE CountInv
    OBVIOUS
  <2>1. Committing = {}
    BY DEF Init, Committing
  <2> QED BY <2>1, FS_EmptySet DEF Init, HubInit, CountInv
<1>2. (HubTypeOK /\ RevisionsUnique) /\ ServerInv /\ CountInv /\ [Next]_vars => CountInv'
  BY CountStep
<1>3. (HubTypeOK /\ RevisionsUnique) /\ ServerInv /\ CountInv => EveryCommitBroadcast
  <2> SUFFICES ASSUME HubTypeOK, CountInv, Quiet, faults = 0 PROVE rev = dbv
    BY DEF EveryCommitBroadcast
  <2>1. Committing = {}
    BY DEF Quiet, Committing
  <2> QED BY <2>1, FS_EmptySet DEF CountInv, HubTypeOK
<1> QED BY <1>1, <1>2, <1>3, HubHolds, ServerHolds, PTL DEF Spec

-----------------------------------------------------------------------------
(* What a step does to the queue of a socket *)

Types == HubTypeOK /\ ServerInv /\ TabsInv

LEMMA QueueType ==
    ASSUME Types, NEW k \in Sockets
    PROVE  /\ wire[k] \in Seq(Revs) /\ send[k] \in Seq(Revs) /\ Queue(k) \in Seq(Revs)
           /\ Queued(k) \subseteq Revs
<1>1. wire[k] \in Seq(Revs) /\ send[k] \in Seq(Revs)
  BY LiveUpdatesAssumption DEF Types, HubTypeOK, ServerInv
<1>2. Queue(k) \in Seq(Revs)
  BY <1>1, ConcatProperties DEF Queue
<1>3. \A i \in DOMAIN Queue(k) : Queue(k)[i] \in Revs
  BY <1>2, LenProperties, ElementOfSeq
<1> QED BY <1>1, <1>2, <1>3 DEF Queued

LEMMA InFlightRevs ==
    ASSUME Types
    PROVE  InFlight \subseteq Revs
BY DEF Types, HubTypeOK, InFlight, Revs

\* The write pump passes on the oldest event.
LEMMA PassOn ==
    ASSUME NEW S, NEW a \in Seq(S), NEW b \in Seq(S), b # <<>>
    PROVE  Append(a, Head(b)) \o Tail(b) = a \o b
<1>1. b = <<Head(b)>> \o Tail(b) /\ Head(b) \in S /\ Tail(b) \in Seq(S)
  BY HeadTailProperties, ConcatSimplifications
<1>2. Append(a, Head(b)) = a \o <<Head(b)>>
  BY <1>1, AppendIsConcat
<1>3. <<Head(b)>> \in Seq(S)
  BY <1>1
<1>4. (a \o <<Head(b)>>) \o Tail(b) = a \o (<<Head(b)>> \o Tail(b))
  BY <1>1, <1>3, ConcatAssociative
<1> QED BY <1>1, <1>2, <1>4

LEMMA TakeFirst ==
    ASSUME NEW S, NEW a \in Seq(S), NEW b \in Seq(S), a # <<>>
    PROVE  /\ Tail(a) \o b = Tail(a \o b) /\ a \o b # <<>> /\ (a \o b)[1] = Head(a)
BY HeadTailProperties, ConcatProperties

LEMMA OfferLast ==
    ASSUME NEW S
    PROVE  \A a, b \in Seq(S) : \A r \in S : a \o Append(b, r) = Append(a \o b, r)
<1> SUFFICES ASSUME NEW a \in Seq(S), NEW b \in Seq(S), NEW r \in S
             PROVE  a \o Append(b, r) = Append(a \o b, r)
  OBVIOUS
<1>1. Append(b, r) = b \o <<r>> /\ <<r>> \in Seq(S)
  BY AppendIsConcat
<1>2. Append(a \o b, r) = (a \o b) \o <<r>>
  BY AppendIsConcat, ConcatProperties
<1>3. (a \o b) \o <<r>> = a \o (b \o <<r>>)
  BY <1>1, ConcatAssociative
<1> QED BY <1>1, <1>2, <1>3

\* The revision of the counter, and what is carried to the mutex.
CountedKept == rev' = rev /\ InFlight' \subseteq InFlight
CountedUp == rev' = rev + 1 /\ InFlight' \subseteq InFlight \union {rev + 1}

LEMMA CountedCases ==
    ASSUME Types, [Next]_vars, ~Crash
    PROVE  /\ CountedKept \/ CountedUp
           /\ (\A w \in Broadcasters : ~BroadcastStart(w)) => CountedKept
<1>1. ASSUME UNCHANGED <<rev, stamped>> PROVE CountedKept
  BY <1>1 DEF CountedKept, InFlight
<1>2. ASSUME NEW w \in Broadcasters, BroadcastStart(w) PROVE CountedUp
  <2>1. \A v \in Broadcasters : stamped'[v] = stamped[v] \/ stamped'[v] = rev + 1
    BY <1>2 DEF BroadcastStart, Stamp, Types, HubTypeOK
  <2> QED BY <1>2, <2>1 DEF BroadcastStart, Stamp, CountedUp, InFlight
<1>3. ASSUME NEW w \in Broadcasters, BroadcastEnd(w) PROVE CountedKept
  <2>1. \A v \in Broadcasters : stamped'[v] = stamped[v] \/ stamped'[v] = 0
    BY <1>3 DEF BroadcastEnd, Deliver, Types, HubTypeOK
  <2> QED BY <1>3, <2>1 DEF BroadcastEnd, Deliver, CountedKept, InFlight
<1>4. ASSUME NEW w \in Broadcasters, Commit(w) \/ RereadFails(w) PROVE UNCHANGED <<rev, stamped>>
  BY <1>4 DEF Commit, RereadFails, hubVars
<1>5. ASSUME NEW k \in Sockets, WsHandler(k) PROVE UNCHANGED <<rev, stamped>>
  BY <1>5 DEF WsHandler, Accept, RegisterConn, WritePump, PumpExit,
              Register, Refuse, Unregister, Drain, hubVars
<1>6. ASSUME NEW k \in Sockets, SocketEvent(k) PROVE UNCHANGED <<rev, stamped>>
  BY <1>6 DEF SocketEvent, SocketOpens, Receive, SocketFails, SocketCloses, hubVars
<1>7. ASSUME NEW t \in Tabs, Tab(t) PROVE UNCHANGED <<rev, stamped>>
  BY <1>7 DEF Tab, Dial, Bump, Stabilise, Serve, Render, FetchFails, SessionExpires, Reload, hubVars
<1>8. CASE UNCHANGED vars
  BY <1>1, <1>8 DEF vars, hubVars
<1> QED BY <1>1, <1>2, <1>3, <1>4, <1>5, <1>6, <1>7, <1>8 DEF Next, Mutator

\* What happens to the queue of a socket that is registered afterwards.
QueueNew(k) == RegisterConn(k) /\ peer[k] = "accepted" /\ Queue(k)' = <<>>
QueueKept(k) == peer[k] = "registered" /\ Queue(k)' = Queue(k)
QueueTaken(k) ==
    /\ peer[k] = "registered" /\ Receive(k)
    /\ Queue(k) # <<>> /\ Queue(k)' = Tail(Queue(k)) /\ Queue(k)[1] = Head(wire[k])
QueueGrown(k) ==
    /\ peer[k] = "registered"
    /\ \E w \in Broadcasters : BroadcastEnd(w) /\ Queue(k)' = Append(Queue(k), stamped[w])

LEMMA QueueCases ==
    ASSUME Types, PeerInv, [Next]_vars, NEW k \in Sockets, peer'[k] = "registered"
    PROVE  QueueNew(k) \/ QueueKept(k) \/ QueueTaken(k) \/ QueueGrown(k)
<1>0. /\ wire[k] \in Seq(Revs) /\ send[k] \in Seq(Revs) /\ Queue(k) = wire[k] \o send[k]
      /\ Queue(k)' = wire'[k] \o send'[k]
      /\ wire \in [Sockets -> Seq(Revs)] /\ send \in [Sockets -> Seq(Revs)]
      /\ peer \in [Sockets -> {"none", "accepted", "registered", "gone"}]
  BY QueueType, LiveUpdatesAssumption DEF Queue, Types, ServerInv, HubTypeOK
<1>1. ASSUME UNCHANGED <<peer, wire[k], send[k]>> PROVE QueueKept(k)
  BY <1>0, <1>1 DEF QueueKept
<1>2. ASSUME NEW w \in Broadcasters, Mutator(w) PROVE QueueKept(k) \/ QueueGrown(k)
  <2>1. CASE Commit(w) \/ RereadFails(w) \/ BroadcastStart(w)
    BY <1>1, <2>1 DEF Commit, RereadFails, BroadcastStart, Stamp, hubVars
  <2>2. CASE BroadcastEnd(w)
    <3>1. UNCHANGED <<peer, wire>> /\ send'[k] = Offer(k, stamped[w]) /\ stamped[w] \in Revs
      BY <2>2, LiveUpdatesAssumption DEF BroadcastEnd, Deliver, Types, HubTypeOK, Revs
    <3>2. CASE send'[k] = send[k]
      BY <1>1, <3>1, <3>2
    <3>3. CASE send'[k] = Append(send[k], stamped[w])
      <4>1. wire[k] \o Append(send[k], stamped[w]) = Append(wire[k] \o send[k], stamped[w])
        BY <1>0, <3>1, OfferLast
      <4>2. Queue(k)' = Append(Queue(k), stamped[w])
        BY <1>0, <3>1, <3>3, <4>1
      <4> QED BY <2>2, <3>1, <4>2 DEF QueueGrown
    <3> QED BY <3>1, <3>2, <3>3 DEF Offer
  <2> QED BY <1>2, <2>1, <2>2 DEF Mutator
<1>3. ASSUME NEW j \in Sockets, WsHandler(j) PROVE QueueNew(k) \/ QueueKept(k)
  <2>1. CASE Accept(j)
    <3>1. j # k /\ peer'[k] = peer[k] /\ UNCHANGED <<wire, send>>
      BY <1>0, <2>1 DEF Accept, hubVars
    <3> QED BY <1>0, <3>1 DEF QueueKept
  <2>2. CASE RegisterConn(j)
    <3>1. UNCHANGED wire /\ peer[j] = "accepted"
      BY <2>2 DEF RegisterConn
    <3>2. CASE j = k
      <4>1. Register(k)
        BY <1>0, <2>2, <3>2 DEF RegisterConn
      <4>2. send'[k] = <<>> /\ wire'[k] = <<>>
        BY <1>0, <3>1, <3>2, <4>1 DEF Register, PeerInv, PeerOK
      <4>3. Queue(k)' = <<>>
        BY <1>0, <4>2, EmptySeq, ConcatEmptySeq
      <4> QED BY <2>2, <3>1, <3>2, <4>3 DEF QueueNew
    <3>3. CASE j # k
      <4>1. peer'[k] = peer[k] /\ send'[k] = send[k]
        BY <1>0, <2>2, <3>3, LiveUpdatesAssumption DEF RegisterConn, Register, Refuse, hubVars
      <4> QED BY <1>0, <3>1, <4>1 DEF QueueKept
    <3> QED BY <3>2, <3>3
  <2>3. CASE WritePump(j)
    <3>1. UNCHANGED peer
      BY <2>3 DEF WritePump
    <3>2. CASE j = k
      <4>1. /\ send[k] # <<>> /\ wire'[k] = Append(wire[k], Head(send[k])) /\ send'[k] = Tail(send[k])
        BY <1>0, <2>3, <3>2 DEF WritePump, Drain
      <4> QED BY <1>0, <3>1, <4>1, PassOn DEF QueueKept
    <3>3. CASE j # k
      BY <1>0, <1>1, <2>3, <3>1, <3>3 DEF WritePump, Drain
    <3> QED BY <3>2, <3>3
  <2>4. CASE PumpExit(j)
    <3>1. j # k /\ peer'[k] = peer[k] /\ UNCHANGED <<wire, send>>
      BY <1>0, <2>4 DEF PumpExit, Unregister
    <3> QED BY <1>0, <3>1 DEF QueueKept
  <2> QED BY <1>3, <2>1, <2>2, <2>3, <2>4 DEF WsHandler
<1>4. ASSUME NEW j \in Sockets, SocketEvent(j) PROVE QueueKept(k) \/ QueueTaken(k)
  <2>1. CASE SocketOpens(j) \/ SocketFails(j) \/ SocketCloses(j)
    BY <1>1, <2>1 DEF SocketOpens, SocketFails, SocketCloses, hubVars
  <2>2. CASE Receive(j)
    <3>1. UNCHANGED <<peer, send>>
      BY <2>2 DEF Receive, hubVars
    <3>2. CASE j = k
      <4>1. wire[k] # <<>> /\ wire'[k] = Tail(wire[k])
        BY <1>0, <2>2, <3>2 DEF Receive
      <4> QED BY <1>0, <2>2, <3>1, <3>2, <4>1, TakeFirst DEF QueueTaken
    <3>3. CASE j # k
      BY <1>0, <1>1, <2>2, <3>1, <3>3 DEF Receive
    <3> QED BY <3>2, <3>3
  <2> QED BY <1>4, <2>1, <2>2 DEF SocketEvent
<1>5. ASSUME NEW t \in Tabs, Tab(t) PROVE QueueKept(k)
  <2>1. ASSUME NEW j \in Sockets \union {NoSocket}, Dial(t, j) PROVE QueueKept(k)
    <3>1. j # k /\ peer'[k] = peer[k] /\ wire'[k] = wire[k] /\ UNCHANGED send
      BY <2>1 DEF Dial, Fresh, hubVars
    <3> QED BY <1>0, <3>1 DEF QueueKept
  <2>2. CASE Bump(t) \/ Stabilise(t) \/ Serve(t) \/ Render(t) \/ FetchFails(t) \/ SessionExpires(t) \/ Reload(t)
    BY <1>1, <2>2 DEF Bump, Stabilise, Serve, Render, FetchFails, SessionExpires, Reload, hubVars
  <2> QED BY <1>5, <2>1, <2>2 DEF Tab
<1>6. CASE Crash
  BY <1>6 DEF Crash
<1>7. CASE UNCHANGED vars
  BY <1>1, <1>7 DEF vars, hubVars
<1> QED BY <1>2, <1>3, <1>4, <1>5, <1>6, <1>7 DEF Next

LEMMA RegisteredNoCrash ==
    ASSUME Crash, NEW k \in Sockets
    PROVE  peer'[k] \in {"none", "gone"}
BY DEF Crash

-----------------------------------------------------------------------------
(* Registry and revisions *)

\* The revisions queued for a socket afterwards were queued or carried before.
LEMMA QueuedCases ==
    ASSUME Types, PeerInv, [Next]_vars, NEW k \in Sockets, peer'[k] = "registered"
    PROVE  /\ Queued(k)' \subseteq Queued(k) \union InFlight
           /\ Queued(k)' \subseteq Queued(k) \/ QueueGrown(k)
           /\ peer[k] # "registered" => Queued(k)' = {}
<1>1. Queue(k) \in Seq(Revs)
  BY QueueType
<1>2. CASE QueueNew(k)
  BY <1>2 DEF QueueNew, Queued
<1>3. CASE QueueKept(k)
  BY <1>3 DEF QueueKept, Queued
<1>4. CASE QueueTaken(k)
  <2>1. /\ Queue(k)' \in Seq(Revs) /\ Len(Queue(k)') = Len(Queue(k)) - 1
        /\ \A i \in 1 .. Len(Queue(k)') : Queue(k)'[i] = Queue(k)[i + 1]
    BY <1>1, <1>4, HeadTailProperties DEF QueueTaken
  <2>2. \A i \in DOMAIN Queue(k)' : i + 1 \in DOMAIN Queue(k) /\ Queue(k)'[i] = Queue(k)[i + 1]
    BY <1>1, <2>1, LenProperties
  <2> QED BY <1>4, <2>2 DEF QueueTaken, Queued
<1>5. CASE QueueGrown(k)
  <2>1. PICK w \in Broadcasters : BroadcastEnd(w) /\ Queue(k)' = Append(Queue(k), stamped[w])
    BY <1>5 DEF QueueGrown
  <2>2. stamped[w] \in InFlight /\ stamped[w] \in Revs
    BY <2>1, InFlightRevs DEF BroadcastEnd, Deliver, InFlight
  <2>3. /\ Queue(k)' \in Seq(Revs) /\ Len(Queue(k)') = Len(Queue(k)) + 1
        /\ \A i \in 1 .. Len(Queue(k)) : Queue(k)'[i] = Queue(k)[i]
        /\ Queue(k)'[Len(Queue(k)) + 1] = stamped[w]
    BY <1>1, <2>1, <2>2, AppendProperties
  <2>4. \A i \in DOMAIN Queue(k)' : Queue(k)'[i] \in Queued(k) \union {stamped[w]}
    <3>1. DOMAIN Queue(k)' = 1 .. (Len(Queue(k)) + 1) /\ DOMAIN Queue(k) = 1 .. Len(Queue(k)) /\ Len(Queue(k)) \in Nat
      BY <1>1, <2>3, LenProperties
    <3> QED BY <2>3, <3>1 DEF Queued
  <2> QED BY <1>5, <2>2, <2>4 DEF QueueGrown, Queued
<1> QED BY <1>2, <1>3, <1>4, <1>5, QueueCases

LEMMA RegistryPeer ==
    ASSUME Types, PeerInv, [Next]_vars, NEW k \in Sockets
    PROVE  /\ (k \in clients <=> peer[k] = "registered")'
           /\ peer'[k] \in {"none", "accepted"} => wire'[k] = <<>>
           /\ peer'[k] \in {"none", "accepted"} /\ peer'[k] # peer[k] =>
                  \/ \E t \in Tabs : Dial(t, k)
                  \/ Accept(k) /\ peer[k] = "none"
           /\ peer'[k] = "registered" /\ peer[k] # "registered" => RegisterConn(k) /\ peer[k] = "accepted"
<1>0. /\ k \in clients <=> peer[k] = "registered"
      /\ peer[k] \in {"none", "accepted"} => wire[k] = <<>>
      /\ wire \in [Sockets -> Seq(Revs)] /\ clients \subseteq Sockets
      /\ peer \in [Sockets -> {"none", "accepted", "registered", "gone"}]
  BY LiveUpdatesAssumption DEF PeerInv, PeerOK, Types, ServerInv, HubTypeOK
<1>1. ASSUME UNCHANGED <<clients, peer, wire>>
      PROVE  (k \in clients <=> peer[k] = "registered")' /\ UNCHANGED <<peer[k], wire[k]>>
  BY <1>0, <1>1
<1>2. ASSUME NEW w \in Broadcasters, Mutator(w) PROVE UNCHANGED <<clients, peer, wire>>
  BY <1>2 DEF Mutator, Commit, RereadFails, BroadcastStart, BroadcastEnd, Stamp, Deliver, hubVars
<1>3. ASSUME NEW t \in Tabs, Bump(t) \/ Stabilise(t) \/ Serve(t) \/ Render(t) \/ FetchFails(t)
                             \/ SessionExpires(t) \/ Reload(t)
      PROVE  UNCHANGED <<clients, peer, wire>>
  BY <1>3 DEF Bump, Stabilise, Serve, Render, FetchFails, SessionExpires, Reload, hubVars
<1>4. ASSUME NEW j \in Sockets, SocketOpens(j) \/ SocketFails(j) \/ SocketCloses(j)
      PROVE  UNCHANGED <<clients, peer, wire>>
  BY <1>4 DEF SocketOpens, SocketFails, SocketCloses, hubVars
<1>5. CASE UNCHANGED <<clients, peer, wire>>
  BY <1>0, <1>1, <1>5
<1>6. ASSUME NEW j \in Sockets, Accept(j)
      PROVE  /\ UNCHANGED <<clients, wire>> /\ peer[j] = "none"
             /\ peer' = [peer EXCEPT ![j] = "accepted"]
  BY <1>6 DEF Accept, hubVars
<1>7. ASSUME NEW j \in Sockets, RegisterConn(j)
      PROVE  /\ UNCHANGED wire /\ peer[j] = "accepted"
             /\ \/ clients' = clients \union {j} /\ peer' = [peer EXCEPT ![j] = "registered"]
                \/ clients' = clients /\ peer' = [peer EXCEPT ![j] = "gone"]
  BY <1>7 DEF RegisterConn, Register, Refuse, hubVars
<1>8. ASSUME NEW j \in Sockets, WritePump(j) \/ Receive(j)
      PROVE  /\ UNCHANGED <<clients, peer>> /\ \E q : wire' = [wire EXCEPT ![j] = q]
             /\ peer[j] \notin {"none", "accepted"}
  <2>1. CASE WritePump(j)
    BY <2>1 DEF WritePump, Drain
  <2>2. CASE Receive(j)
    <3>1. wire[j] # <<>> /\ (peer[j] \in {"none", "accepted"} => wire[j] = <<>>)
      BY <2>2 DEF Receive, PeerInv, PeerOK
    <3> QED BY <2>2, <3>1 DEF Receive, hubVars
  <2> QED BY <1>8, <2>1, <2>2
<1>9. ASSUME NEW j \in Sockets, PumpExit(j)
      PROVE  /\ UNCHANGED wire /\ peer[j] = "registered"
             /\ clients' = clients \ {j} /\ peer' = [peer EXCEPT ![j] = "gone"]
  BY <1>9 DEF PumpExit, Unregister
<1>10. ASSUME NEW t \in Tabs, NEW j \in Sockets \union {NoSocket}, Dial(t, j)
       PROVE  /\ UNCHANGED clients
              /\ j = k => peer[k] \in {"none", "gone"} /\ peer'[k] = "none" /\ wire'[k] = <<>>
              /\ j # k => peer'[k] = peer[k] /\ wire'[k] = wire[k]
  BY <1>10, LiveServiceAssumption DEF Dial, Fresh, hubVars
<1>11. CASE Crash
  BY <1>0, <1>11 DEF Crash, Restart
<1>12. CASE \E j \in Sockets : Accept(j)
  BY <1>0, <1>6, <1>12
<1>13. CASE \E j \in Sockets : RegisterConn(j)
  BY <1>0, <1>7, <1>13
<1>14. CASE \E j \in Sockets : WritePump(j) \/ Receive(j)
  BY <1>0, <1>8, <1>14
<1>15. CASE \E j \in Sockets : PumpExit(j)
  BY <1>0, <1>9, <1>15
<1>16. CASE \E t \in Tabs, j \in Sockets \union {NoSocket} : Dial(t, j)
  BY <1>0, <1>10, <1>16
<1>17. CASE UNCHANGED vars
  BY <1>5, <1>17 DEF vars, hubVars
<1> QED
  BY <1>2, <1>3, <1>4, <1>5, <1>11, <1>12, <1>13, <1>14, <1>15, <1>16, <1>17
     DEF Next, WsHandler, SocketEvent, Tab

LEMMA PeerStep ==
    ASSUME Types, RevisionsUnique, PeerInv, [Next]_vars
    PROVE  PeerInv'
<1>1. ASSUME NEW k \in Sockets, peer'[k] = "registered" PROVE \A q \in Queued(k)' : q <= rev'
  <2>1. ~Crash
    BY <1>1, RegisteredNoCrash
  <2>2. rev \in Nat /\ rev' >= rev /\ rev' \in Nat
    BY <2>1, CountedCases DEF CountedKept, CountedUp, Types, HubTypeOK
  <2>3. \A q \in InFlight : q <= rev
    BY DEF RevisionsUnique, InFlight
  <2>4. Queued(k) \subseteq Nat /\ InFlight \subseteq Nat
    BY QueueType, InFlightRevs DEF Revs
  <2>5. CASE peer[k] = "registered"
    <3>1. \A q \in Queued(k) \union InFlight : q \in Nat /\ q <= rev
      BY <2>3, <2>4, <2>5 DEF PeerInv, PeerOK
    <3>2. \A q \in Queued(k)' : q \in Nat /\ q <= rev
      BY <1>1, <3>1, QueuedCases
    <3> QED BY <2>2, <3>2
  <2>6. CASE peer[k] # "registered"
    BY <1>1, <2>6, QueuedCases
  <2> QED BY <2>5, <2>6
<1>2. \A k \in Sockets :
        /\ (k \in clients <=> peer[k] = "registered")'
        /\ peer'[k] \in {"none", "accepted"} => wire'[k] = <<>>
  BY RegistryPeer
<1>3. ASSUME NEW k \in Sockets PROVE PeerOK(k)'
  BY <1>1, <1>2 DEF PeerOK
<1> QED BY <1>3 DEF PeerInv

\* The counters the cap is tested with are exact: they count the connections whose ws
\* handler has registered and not yet run its deferred Unregister, so no slot leaks or
\* comes back twice whatever breaks, and no user exceeds the cap.
THEOREM LiveUpdatesSlotsExact == Spec => []SlotsExact
<1> DEFINE Known == HubTypeOK /\ RevisionsUnique /\ ServerInv /\ TabsInv /\ RegistryInv
<1>1. Spec => []Known
  BY HubHolds, ServerHolds, TabsHolds, RegistryHolds, PTL
<1>2. Init => PeerInv
  <2> SUFFICES ASSUME Init, NEW k \in Sockets PROVE PeerOK(k)
    BY DEF PeerInv
  <2> QED BY DEF Init, HubInit, PeerOK
<1>3. Known /\ PeerInv /\ [Next]_vars => PeerInv'
  BY PeerStep DEF Types
<1>4. Known /\ PeerInv => SlotsExact
  <2> SUFFICES ASSUME Known, PeerInv, NEW u \in Users
               PROVE  /\ counts[u] = Cardinality({k \in Sockets :
                                                    peer[k] = "registered" /\ UserOf[k] = u})
                      /\ counts[u] <= maxPerUser
    BY DEF SlotsExact
  <2>1. {k \in Sockets : peer[k] = "registered" /\ UserOf[k] = u} = ConnectionsOf(u)
    BY LiveUpdatesAssumption DEF PeerInv, PeerOK, HubTypeOK, ConnectionsOf
  <2> QED BY <2>1 DEF RegistryInv, CountsExact
<1> HIDE DEF Known
<1> QED BY <1>1, <1>2, <1>3, <1>4, PTL DEF Spec

-----------------------------------------------------------------------------
(* Few revisions are late *)

\* Once one broadcaster is done, fewer are in flight than there are broadcasters.
LEMMA OthersFew ==
    ASSUME IsFiniteSet(Broadcasters), NEW w \in Broadcasters, NEW s
    PROVE  Few({s[v] : v \in Broadcasters \ {w}})
<1> DEFINE B == Broadcasters \ {w}
           T == {s[v] : v \in B}
           f == [v \in B |-> s[v]]
<1>1. IsFiniteSet(B) /\ Cardinality(B) = Cardinality(Broadcasters) - 1 /\ Cardinality(Broadcasters) \in Nat
  BY FS_RemoveElement, FS_CardinalityType
<1>2. f \in Surjection(B, T)
  BY DEF Surjection
<1>3. IsFiniteSet(T) /\ Cardinality(T) <= Cardinality(B) /\ Cardinality(T) \in Nat
  BY <1>1, <1>2, FS_Surjection, FS_CardinalityType
<1> QED BY <1>1, <1>3 DEF Few

LEMMA FewSubset ==
    ASSUME IsFiniteSet(Broadcasters), NEW S, Few(S), NEW R \in SUBSET S
    PROVE  Few(R)
<1>1. IsFiniteSet(R) /\ Cardinality(R) <= Cardinality(S)
  BY FS_Subset DEF Few
<1>2. Cardinality(R) \in Nat /\ Cardinality(S) \in Nat /\ Cardinality(Broadcasters) \in Nat
  BY <1>1, FS_CardinalityType DEF Few
<1> QED BY <1>1, <1>2 DEF Few

\* The revisions in flight up to r, one of those handed out, do not grow.
LEMMA InFlightKept ==
    ASSUME Types, [Next]_vars, ~Crash, NEW r \in Nat, r <= rev
    PROVE  \A q \in InFlight' : q <= r => q \in InFlight
BY CountedCases DEF CountedKept, CountedUp, Types, HubTypeOK

\* What lies behind a place in the queue does not grow but by what is in flight.
LEMMA BehindKept ==
    ASSUME Types, PeerInv, [Next]_vars, ~Crash, NEW k \in Sockets, peer[k] = "registered",
           NEW i \in Nat, i <= Len(Queue(k)), NEW r \in Nat, r <= rev
    PROVE  /\ QueueKept(k) \/ QueueGrown(k) => Behind(k, i, r)' \subseteq Behind(k, i, r)
           /\ QueueTaken(k) => \A n \in Nat : i <= n + 1 => Behind(k, n, r)' \subseteq Behind(k, i, r)
<1>0. \A q \in InFlight' : q <= r => q \in InFlight
  BY InFlightKept
<1>1. Queue(k) \in Seq(Revs) /\ DOMAIN Queue(k) = 1 .. Len(Queue(k)) /\ Len(Queue(k)) \in Nat
  BY QueueType, LenProperties
<1>2. CASE QueueKept(k)
  <2>1. Queue(k)' = Queue(k)
    BY <1>2 DEF QueueKept
  <2>2. ~QueueTaken(k) \/ Queue(k)' # Queue(k)
    <3>1. SUFFICES ASSUME QueueTaken(k) PROVE Queue(k)' # Queue(k)
      OBVIOUS
    <3>2. Len(Queue(k)') = Len(Queue(k)) - 1
      BY <1>1, <3>1, HeadTailProperties DEF QueueTaken
    <3> QED BY <1>1, <3>2
  <2>3. Behind(k, i, r)' \subseteq Behind(k, i, r)
    BY <1>0, <2>1 DEF Behind
  <2> QED BY <2>1, <2>2, <2>3
<1>3. CASE QueueTaken(k)
  <2>1. /\ Queue(k)' \in Seq(Revs) /\ Len(Queue(k)') = Len(Queue(k)) - 1
        /\ \A j \in 1 .. Len(Queue(k)') : Queue(k)'[j] = Queue(k)[j + 1]
    BY <1>1, <1>3, HeadTailProperties DEF QueueTaken
  <2>2. \A n, j \in Nat : i <= n + 1 /\ j \in DOMAIN Queue(k)' /\ j > n =>
            j + 1 \in DOMAIN Queue(k) /\ j + 1 > i /\ Queue(k)'[j] = Queue(k)[j + 1]
    BY <1>1, <2>1, LenProperties
  <2>3. DOMAIN Queue(k)' \subseteq Nat
    BY <2>1, LenProperties
  <2>4. ASSUME NEW n \in Nat, i <= n + 1 PROVE Behind(k, n, r)' \subseteq Behind(k, i, r)
    <3> SUFFICES ASSUME NEW q \in Behind(k, n, r)' PROVE q \in Behind(k, i, r)
      OBVIOUS
    <3>1. q <= r /\ (q \in InFlight' \/ \E j \in DOMAIN Queue(k)' : j > n /\ q = Queue(k)'[j])
      BY DEF Behind
    <3>2. CASE q \in InFlight'
      BY <1>0, <3>1, <3>2 DEF Behind
    <3>3. CASE \E j \in DOMAIN Queue(k)' : j > n /\ q = Queue(k)'[j]
      <4>1. PICK j \in DOMAIN Queue(k)' : j > n /\ q = Queue(k)'[j]
        BY <3>3
      <4>2. j + 1 \in DOMAIN Queue(k) /\ j + 1 > i /\ q = Queue(k)[j + 1]
        BY <2>2, <2>3, <2>4, <4>1
      <4> QED BY <3>1, <4>2 DEF Behind
    <3> QED BY <3>1, <3>2, <3>3
  <2>5. ~QueueKept(k)
    BY <1>1, <2>1 DEF QueueKept
  <2>6. ~QueueGrown(k)
    <3>1. SUFFICES ASSUME NEW w \in Broadcasters, Queue(k)' = Append(Queue(k), stamped[w]), BroadcastEnd(w)
                   PROVE  FALSE
      BY DEF QueueGrown
    <3>2. stamped[w] \in Revs
      BY <3>1, InFlightRevs DEF BroadcastEnd, Deliver, InFlight
    <3>3. Len(Queue(k)') = Len(Queue(k)) + 1
      BY <1>1, <3>1, <3>2, AppendProperties
    <3> QED BY <1>1, <2>1, <3>3
  <2> QED BY <2>4, <2>5, <2>6
<1>4. CASE QueueGrown(k)
  <2>1. PICK w \in Broadcasters : BroadcastEnd(w) /\ Queue(k)' = Append(Queue(k), stamped[w])
    BY <1>4 DEF QueueGrown
  <2>2. stamped[w] \in InFlight /\ stamped[w] \in Revs
    BY <2>1, InFlightRevs DEF BroadcastEnd, Deliver, InFlight
  <2>3. /\ Queue(k)' \in Seq(Revs) /\ Len(Queue(k)') = Len(Queue(k)) + 1
        /\ \A j \in 1 .. Len(Queue(k)) : Queue(k)'[j] = Queue(k)[j]
        /\ Queue(k)'[Len(Queue(k)) + 1] = stamped[w]
    BY <1>1, <2>1, <2>2, AppendProperties
  <2>4. \A j \in DOMAIN Queue(k)' :
            (j \in DOMAIN Queue(k) /\ Queue(k)'[j] = Queue(k)[j]) \/ Queue(k)'[j] = stamped[w]
    BY <1>1, <2>3, LenProperties
  <2>5. Behind(k, i, r)' \subseteq Behind(k, i, r)
    <3> SUFFICES ASSUME NEW q \in Behind(k, i, r)' PROVE q \in Behind(k, i, r)
      OBVIOUS
    <3>1. q <= r /\ (q \in InFlight' \/ \E j \in DOMAIN Queue(k)' : j > i /\ q = Queue(k)'[j])
      BY DEF Behind
    <3> QED BY <1>0, <2>2, <2>4, <3>1 DEF Behind
  <2>6. ~QueueTaken(k)
    <3>1. SUFFICES ASSUME QueueTaken(k) PROVE FALSE
      OBVIOUS
    <3>2. Len(Queue(k)') = Len(Queue(k)) - 1
      BY <1>1, <3>1, HeadTailProperties DEF QueueTaken
    <3> QED BY <1>1, <2>3, <3>2
  <2> QED BY <2>5, <2>6
<1> QED BY <1>2, <1>3, <1>4

LEMMA LateStep ==
    ASSUME IsFiniteSet(Broadcasters), Types, PeerInv, LateInv, [Next]_vars
    PROVE  LateInv'
<1> SUFFICES ASSUME NEW k \in Sockets, peer'[k] = "registered", NEW i \in DOMAIN Queue(k)'
             PROVE  Few(Behind(k, i, Queue(k)[i]))'
  BY DEF LateInv
<1>0. ~Crash
  BY RegisteredNoCrash
<1>1. Queue(k) \in Seq(Revs) /\ DOMAIN Queue(k) = 1 .. Len(Queue(k)) /\ Len(Queue(k)) \in Nat
  BY QueueType, LenProperties
<1>2. \A j \in DOMAIN Queue(k) : Queue(k)[j] \in Nat /\ Queue(k)[j] \in Queued(k)
  <2>1. \A j \in DOMAIN Queue(k) : Queue(k)[j] \in Queued(k)
    BY DEF Queued
  <2>2. Queued(k) \subseteq Nat
    BY QueueType DEF Revs
  <2> QED BY <2>1, <2>2
<1>3. peer[k] = "registered" => \A j \in DOMAIN Queue(k) :
          j \in Nat /\ j <= Len(Queue(k)) /\ Queue(k)[j] <= rev /\ Few(Behind(k, j, Queue(k)[j]))
  BY <1>1, <1>2 DEF PeerInv, PeerOK, LateInv
<1>4. CASE QueueNew(k)
  BY <1>4 DEF QueueNew
<1>5. CASE QueueKept(k)
  <2>1. Queue(k)' = Queue(k) /\ peer[k] = "registered" /\ i \in DOMAIN Queue(k)
    BY <1>5 DEF QueueKept
  <2>2. Behind(k, i, Queue(k)[i])' \subseteq Behind(k, i, Queue(k)[i])
    <3>1. \A r \in Nat : r <= rev => Behind(k, i, r)' \subseteq Behind(k, i, r)
      BY <1>0, <1>3, <1>5, <2>1, BehindKept
    <3> QED BY <1>2, <1>3, <2>1, <3>1 DEF Behind
  <2> QED BY <1>3, <2>1, <2>2, FewSubset DEF Few
<1>6. CASE QueueTaken(k)
  <2>1. /\ Queue(k)' \in Seq(Revs) /\ Len(Queue(k)') = Len(Queue(k)) - 1
        /\ \A j \in 1 .. Len(Queue(k)') : Queue(k)'[j] = Queue(k)[j + 1]
    BY <1>1, <1>6, HeadTailProperties DEF QueueTaken
  <2>2. i \in Nat /\ i + 1 \in DOMAIN Queue(k) /\ Queue(k)'[i] = Queue(k)[i + 1]
    BY <1>1, <2>1, LenProperties
  <2>3. peer[k] = "registered"
    BY <1>6 DEF QueueTaken
  <2>4. Behind(k, i, Queue(k)[i])' \subseteq Behind(k, i + 1, Queue(k)[i + 1])
    <3>1. \A r \in Nat : r <= rev => Behind(k, i, r)' \subseteq Behind(k, i + 1, r)
      BY <1>0, <1>3, <1>6, <2>2, <2>3, BehindKept
    <3> QED BY <1>2, <1>3, <2>2, <2>3, <3>1 DEF Behind
  <2> QED BY <1>3, <2>2, <2>3, <2>4, FewSubset DEF Few
<1>7. CASE QueueGrown(k)
  <2>1. PICK w \in Broadcasters : BroadcastEnd(w) /\ Queue(k)' = Append(Queue(k), stamped[w])
    BY <1>7 DEF QueueGrown
  <2>2. stamped[w] \in InFlight /\ stamped[w] \in Revs /\ peer[k] = "registered"
    BY <1>7, <2>1, InFlightRevs DEF BroadcastEnd, Deliver, InFlight, QueueGrown
  <2>3. /\ Queue(k)' \in Seq(Revs) /\ Len(Queue(k)') = Len(Queue(k)) + 1
        /\ \A j \in 1 .. Len(Queue(k)) : Queue(k)'[j] = Queue(k)[j]
        /\ Queue(k)'[Len(Queue(k)) + 1] = stamped[w]
    BY <1>1, <2>1, <2>2, AppendProperties
  <2>4. DOMAIN Queue(k)' = 1 .. (Len(Queue(k)) + 1)
    BY <2>3, LenProperties
  <2>5. CASE i \in DOMAIN Queue(k)
    <3>1. Queue(k)'[i] = Queue(k)[i]
      BY <1>1, <2>3, <2>5
    <3>2. \A r \in Nat : r <= rev => Behind(k, i, r)' \subseteq Behind(k, i, r)
      BY <1>0, <1>3, <1>7, <2>2, <2>5, BehindKept
    <3>3. Behind(k, i, Queue(k)[i])' \subseteq Behind(k, i, Queue(k)[i])
      BY <1>2, <1>3, <2>2, <2>5, <3>1, <3>2 DEF Behind
    <3> QED BY <1>3, <2>2, <2>5, <3>3, FewSubset DEF Few
  <2>6. CASE i \notin DOMAIN Queue(k)
    <3>1. i = Len(Queue(k)) + 1
      BY <1>1, <2>4, <2>6
    <3>2. ~\E j \in DOMAIN Queue(k)' : j > i
      BY <1>1, <2>4, <3>1
    <3>3. InFlight' \subseteq {stamped'[v] : v \in Broadcasters \ {w}}
      BY <2>1 DEF BroadcastEnd, Deliver, InFlight, Types, HubTypeOK
    <3>4. Behind(k, i, Queue(k)[i])' \subseteq {stamped'[v] : v \in Broadcasters \ {w}}
      BY <3>2, <3>3 DEF Behind
    <3>5. Few({stamped'[v] : v \in Broadcasters \ {w}})
      BY OthersFew
    <3> QED BY <3>4, <3>5, FewSubset DEF Few
  <2> QED BY <2>5, <2>6
<1> QED BY <1>4, <1>5, <1>6, <1>7, QueueCases

-----------------------------------------------------------------------------
(* What a step does to a tab and its socket *)

SameTab(t) ==
    /\ svc'[t].socket = svc[t].socket /\ svc'[t].status = svc[t].status
    /\ svc'[t].lastRev = svc[t].lastRev /\ svc'[t].bumpTimer = svc[t].bumpTimer

LEMMA OpenSocketRev ==
    ASSUME NEW s \in Service, NEW k \in Sockets
    PROVE  OpenSocket(s, k).lastRev = 0
<1>1. k # NoSocket
  BY LiveServiceAssumption
<1> QED BY <1>1 DEF OpenSocket, Service

LEMMA DialCases ==
    ASSUME ServiceInv, NEW u \in Tabs, NEW j \in Sockets \union {NoSocket}, Dial(u, j)
    PROVE  /\ \A t \in Tabs \ {u} : svc'[t] = svc[t]
           /\ svc'[u].socket = j
           /\ svc'[u].status # "live"
           /\ j \in Sockets => svc'[u].lastRev = 0 /\ peer'[j] = "none"
<1>1. svc \in [Tabs -> Service] /\ TabOK(svc[u], u, net)
  BY DEF ServiceInv, LiveTypeOK
<1>2. CASE Connect(u, j)
  <2>1. ~svc[u].stopped /\ svc[u].socket = NoSocket /\ svc[u].attached = {} /\ svc[u].status = "offline"
    BY <1>1, <1>2 DEF Connect, TabOK
  <2>2. svc' = [svc EXCEPT ![u] = OpenSocket(svc[u], j)]
    BY <1>2 DEF Connect
  <2>3. OpenSocket(svc[u], j).socket = j /\ OpenSocket(svc[u], j).status = "connecting"
    BY <1>1, <2>1, OpenSocketFields
  <2> QED BY <1>1, <2>2, <2>3, OpenSocketRev DEF Dial, Fresh
<1>3. CASE FireReconnect(u, j)
  <2> DEFINE s == [svc[u] EXCEPT !.reconnectTimer = FALSE]
  <2>1. /\ ~svc[u].stopped /\ svc[u].socket = NoSocket /\ svc[u].attached = {}
        /\ svc[u].status \notin {"offline", "live"} /\ svc[u] \in Service
    BY <1>1, <1>3 DEF FireReconnect, TabOK
  <2>2. s \in Service /\ ~s.stopped /\ s.socket = NoSocket /\ s.attached = {} /\ s.status = svc[u].status
    BY <2>1, FiredReconnectFields
  <2>3. svc' = [svc EXCEPT ![u] = OpenSocket(s, j)]
    BY <1>3 DEF FireReconnect
  <2> HIDE DEF s
  <2>4. OpenSocket(s, j).socket = j /\ OpenSocket(s, j).status # "live"
    BY <2>1, <2>2, OpenSocketFields
  <2> QED BY <1>1, <2>2, <2>3, <2>4, OpenSocketRev DEF Dial, Fresh
<1> QED BY <1>2, <1>3 DEF Dial

\* What a step does to a tab that has socket k afterwards.
LEMMA TabCases ==
    ASSUME ServiceInv, ServerInv, [Next]_vars, NEW t \in Tabs, NEW k \in Sockets, svc'[t].socket = k
    PROVE  \/ svc'[t].lastRev = 0 /\ svc'[t].status # "live" /\ peer'[k] = "none"
           \/ /\ svc[t].socket = k
              /\ \/ SameTab(t)
                 \/ SocketOpens(k) /\ svc'[t].lastRev = svc[t].lastRev /\ svc'[t].bumpTimer
                 \/ /\ Receive(k) /\ svc'[t].status = svc[t].status
                    /\ svc'[t] = OnMessage(svc[t], Head(wire[k]))
                 \/ Bump(t) /\ svc'[t].lastRev = svc[t].lastRev /\ svc'[t].status = svc[t].status
<1>0. /\ svc \in [Tabs -> Service] /\ TabOf \in [Sockets -> Tabs] /\ NoSocket \notin Sockets
      /\ \A u \in Tabs : svc[u] \in Service /\ TabOK(svc[u], u, net)
  BY LiveServiceAssumption DEF ServiceInv, LiveTypeOK
<1>1. ASSUME svc'[t] = svc[t] PROVE svc[t].socket = k /\ SameTab(t)
  BY <1>1 DEF SameTab
<1>2. ASSUME NEW w \in Broadcasters, Mutator(w) PROVE svc'[t] = svc[t]
  BY <1>2 DEF Mutator, Commit, RereadFails, BroadcastStart, BroadcastEnd, liveVars
<1>3. ASSUME NEW j \in Sockets, WsHandler(j) PROVE svc'[t] = svc[t]
  BY <1>3 DEF WsHandler, Accept, RegisterConn, WritePump, PumpExit, liveVars
<1>4. ASSUME NEW u \in Tabs, Serve(u) \/ Render(u) \/ FetchFails(u) PROVE svc'[t] = svc[t]
  BY <1>4 DEF Serve, Render, FetchFails, liveVars
<1>5. CASE Crash \/ UNCHANGED vars
  BY <1>1, <1>5 DEF Crash, vars, liveVars
\* The handler of an event on socket j.
<1>6. ASSUME NEW j \in Sockets, NEW s, svc' = Handled(j, s)
      PROVE  \/ svc'[t] = svc[t]
             \/ t = TabOf[j] /\ j = svc[t].socket /\ svc'[t] = s
  <2>1. j \in svc[TabOf[j]].attached => j = svc[TabOf[j]].socket
    BY <1>0 DEF TabOK
  <2> QED BY <1>0, <1>6, <2>1 DEF Handled
<1>7. ASSUME NEW j \in Sockets, SocketOpens(j)
      PROVE  svc'[t] = svc[t] \/ (j = k /\ svc[t].socket = k /\ svc'[t].lastRev = svc[t].lastRev /\ svc'[t].bumpTimer)
  <2>1. svc' = Handled(j, OnOpen(svc[TabOf[j]]))
    BY <1>7 DEF SocketOpens, Opened
  <2>2. ASSUME NEW s \in Service
        PROVE  OnOpen(s).socket = s.socket /\ OnOpen(s).lastRev = s.lastRev /\ OnOpen(s).bumpTimer
    BY DEF OnOpen, ScheduleBump, Service
  <2> QED BY <1>0, <1>6, <2>1, <2>2
<1>8. ASSUME NEW j \in Sockets, Receive(j)
      PROVE  svc'[t] = svc[t] \/ (j = k /\ svc[t].socket = k /\ svc'[t] = OnMessage(svc[t], Head(wire[k])))
  <2>1. svc' = Handled(j, OnMessage(svc[TabOf[j]], Head(wire[j])))
    BY <1>8 DEF Receive, Message
  <2>2. Head(wire[j]) \in Nat
    <3>1. Head(wire[j]) \in Revs
      BY <1>8, HeadTailProperties DEF Receive, ServerInv
    <3> QED BY <3>1 DEF Revs
  <2>3. ASSUME NEW s \in Service, NEW r \in Nat PROVE OnMessage(s, r).socket = s.socket
    BY SocketEventFields
  <2> QED BY <1>0, <1>6, <2>1, <2>2, <2>3
<1>9. ASSUME NEW j \in Sockets, SocketFails(j) \/ SocketCloses(j) PROVE svc'[t] = svc[t]
  <2>1. svc' = Handled(j, HandleDrop(svc[TabOf[j]]))
    BY <1>9 DEF SocketFails, SocketCloses, Errored, Closed
  <2>2. ASSUME t = TabOf[j], j = svc[t].socket PROVE HandleDrop(svc[t]).socket = NoSocket
    <3>1. ~svc[t].stopped
      BY <1>0, <2>2 DEF TabOK
    <3> QED BY <1>0, <3>1, HandleDropFields DEF TabOK
  <2> QED BY <1>0, <1>6, <2>1, <2>2
<1>10. ASSUME NEW u \in Tabs, NEW j \in Sockets \union {NoSocket}, Dial(u, j)
       PROVE  svc'[t] = svc[t] \/ (svc'[t].lastRev = 0 /\ svc'[t].status # "live" /\ peer'[k] = "none")
  BY <1>10, DialCases
<1>11. ASSUME NEW u \in Tabs, Bump(u)
       PROVE  svc'[t] = svc[t] \/ (u = t /\ svc[t].socket = k /\ svc'[t].lastRev = svc[t].lastRev
                                         /\ svc'[t].status = svc[t].status)
  <2>1. svc' = [svc EXCEPT ![u] = [svc[u] EXCEPT !.bumpTimer = FALSE]]
    BY <1>11 DEF Bump, FireBump
  <2>2. [svc[u] EXCEPT !.bumpTimer = FALSE].lastRev = svc[u].lastRev
    BY <1>0 DEF Service
  <2> QED BY <1>0, <2>1, <2>2, FiredBumpFields
<1>12. ASSUME NEW u \in Tabs, Stabilise(u) PROVE svc'[t] = svc[t] \/ SameTab(t)
  <2>1. svc' = [svc EXCEPT ![u] = [svc[u] EXCEPT !.stableTimer = FALSE, !.backoff = BACKOFF_START]]
    BY <1>12 DEF Stabilise, FireStable
  <2>2. [svc[u] EXCEPT !.stableTimer = FALSE, !.backoff = BACKOFF_START].lastRev = svc[u].lastRev
    BY <1>0 DEF Service
  <2> QED BY <1>0, <2>1, <2>2, FiredStableFields DEF SameTab
<1>13. ASSUME NEW u \in Tabs, SessionExpires(u) PROVE svc'[t] = svc[t]
  <2>1. svc' = [svc EXCEPT ![u] = Disconnected(svc[u])]
    BY <1>13 DEF SessionExpires, Disconnect
  <2>2. Disconnected(svc[u]).socket = NoSocket
    BY <1>0, DisconnectedFields DEF TabOK
  <2> QED BY <1>0, <2>1, <2>2
<1>14. ASSUME NEW u \in Tabs, Reload(u) PROVE svc'[t] = svc[t]
  <2>1. svc' = [svc EXCEPT ![u] = NewService] /\ NewService.socket = NoSocket
    BY <1>14 DEF Reload, PageLoad, NewService
  <2> QED BY <1>0, <2>1
<1>15. CASE \E j \in Sockets : SocketEvent(j)
  <2>1. PICK j \in Sockets : SocketEvent(j)
    BY <1>15
  <2>2. CASE Receive(j)
    <3>1. svc'[t] = OnMessage(svc[t], Head(wire[k])) /\ j = k /\ svc[t].socket = k => svc'[t].status = svc[t].status
      <4>1. Head(wire[k]) \in Nat \/ j # k
        <5>1. j = k => Head(wire[k]) \in Revs
          BY <2>2, HeadTailProperties DEF Receive, ServerInv
        <5> QED BY <5>1 DEF Revs
      <4> QED BY <1>0, <4>1, SocketEventFields
    <3> QED BY <1>1, <1>8, <2>2, <3>1
  <2> QED BY <1>1, <1>7, <1>9, <2>1, <2>2 DEF SocketEvent
<1>16. ASSUME NEW u \in Tabs, Tab(u)
       PROVE  \/ svc'[t].lastRev = 0 /\ svc'[t].status # "live" /\ peer'[k] = "none"
              \/ svc[t].socket = k /\ SameTab(t)
              \/ svc[t].socket = k /\ Bump(t) /\ svc'[t].lastRev = svc[t].lastRev /\ svc'[t].status = svc[t].status
  <2>1. CASE \E j \in Sockets \union {NoSocket} : Dial(u, j)
    BY <1>1, <1>10, <2>1
  <2>2. CASE Bump(u)
    BY <1>1, <1>11, <2>2
  <2>3. CASE Stabilise(u)
    BY <1>1, <1>12, <2>3 DEF SameTab
  <2> QED BY <1>1, <1>4, <1>13, <1>14, <1>16, <2>1, <2>2, <2>3 DEF Tab
<1> QED BY <1>1, <1>2, <1>3, <1>5, <1>15, <1>16 DEF Next

\* The socket a tab holds is not dialled again while it is held.
LEMMA NoRedial ==
    ASSUME ServiceInv, NEW t \in Tabs, NEW k \in Sockets, svc[t].socket = k, NEW u \in Tabs
    PROVE  ~Dial(u, k)
<1>1. net[k] \in {"opening", "open"} /\ k # NoSocket
  BY LiveServiceAssumption DEF ServiceInv, TabOK
<1> QED BY <1>1 DEF Dial, Connect, FireReconnect, Creatable

LEMMA ReceiveTakes ==
    ASSUME Types, NEW k \in Sockets, Receive(k)
    PROVE  /\ wire[k] # <<>> /\ Queue(k) # <<>> /\ Queue(k)[1] = Head(wire[k])
           /\ Queue(k)' = Tail(Queue(k)) /\ Head(wire[k]) \in Revs
           /\ UNCHANGED <<hubVars, dbv, mutating, peer, fetch, view, faults>>
<1>1. wire[k] \in Seq(Revs) /\ send[k] \in Seq(Revs) /\ wire \in [Sockets -> Seq(Revs)]
  BY QueueType DEF Types, ServerInv
<1>2. wire[k] # <<>> /\ wire'[k] = Tail(wire[k]) /\ UNCHANGED send
  BY <1>1 DEF Receive, hubVars
<1>3. Queue(k)' = wire'[k] \o send[k]
  BY <1>2 DEF Queue
<1>4. Head(wire[k]) \in Revs
  BY <1>1, <1>2, HeadTailProperties
<1> QED BY <1>1, <1>2, <1>3, <1>4, TakeFirst DEF Receive, Queue

LEMMA QueueHead ==
    ASSUME Types, NEW k \in Sockets, Queue(k) # <<>>
    PROVE  1 \in DOMAIN Queue(k) /\ Queue(k)[1] \in Queued(k)
<1>1. Queue(k) \in Seq(Revs)
  BY QueueType
<1>2. Len(Queue(k)) \in Nat /\ Len(Queue(k)) # 0 /\ DOMAIN Queue(k) = 1 .. Len(Queue(k))
  BY <1>1, LenProperties, EmptySeq
<1> QED BY <1>2 DEF Queued

LEMMA RevStep ==
    ASSUME IsFiniteSet(Broadcasters), Types, ServiceInv, PeerInv, LateInv, TabInv, [Next]_vars,
           NEW t \in Tabs, NEW k \in Sockets, svc'[t].socket = k
    PROVE  RevInv(t, k)'
<1>1. CASE svc'[t].lastRev = 0 /\ peer'[k] = "none"
  BY <1>1 DEF RevInv
<1>2. ASSUME svc[t].socket = k, peer'[k] \in {"none", "accepted"} PROVE svc[t].lastRev = 0 /\ ~Receive(k)
  <2>1. ~Receive(k)
    <3>1. Receive(k) => peer[k] \in {"none", "accepted"} /\ wire[k] # <<>>
      BY <1>2 DEF Receive
    <3> QED BY <3>1 DEF PeerInv, PeerOK
  <2>2. peer[k] \in {"none", "accepted"}
    BY <1>2, RegistryPeer, NoRedial
  <2> QED BY <1>2, <2>1, <2>2 DEF TabInv, RevInv
<1>3. ASSUME svc[t].socket = k, peer'[k] = "registered", peer[k] # "registered"
      PROVE  svc[t].lastRev = 0 /\ ~Receive(k)
  <2>1. peer[k] = "accepted"
    BY <1>3, RegistryPeer
  <2>2. Receive(k) => UNCHANGED peer
    BY DEF Receive
  <2> QED BY <1>3, <2>1, <2>2 DEF TabInv, RevInv
<1>4. /\ svc[t] \in Service /\ svc[t].lastRev \in Nat /\ rev \in Nat
  BY DEF ServiceInv, LiveTypeOK, Service, Types, HubTypeOK
<1>5. ASSUME svc[t].socket = k, svc'[t].lastRev = svc[t].lastRev, peer'[k] = "registered", peer[k] = "registered"
      PROVE  RevInv(t, k)'
  <2> DEFINE r == svc[t].lastRev
  <2>1. ~Crash
    BY <1>5, RegisteredNoCrash
  <2>2. r <= rev /\ (r > 0 => Few(Behind(k, 0, r)))
    BY <1>5 DEF TabInv, RevInv
  <2>3. r <= rev'
    BY <1>4, <2>1, <2>2, CountedCases DEF CountedKept, CountedUp
  <2>4. Behind(k, 0, r)' \subseteq Behind(k, 0, r)
    <3>1. 0 <= Len(Queue(k)) /\ 0 <= 0 + 1
      BY QueueType, LenProperties
    <3>2. \A q \in Nat : q <= rev =>
            /\ QueueKept(k) \/ QueueGrown(k) => Behind(k, 0, q)' \subseteq Behind(k, 0, q)
            /\ QueueTaken(k) => Behind(k, 0, q)' \subseteq Behind(k, 0, q)
      BY <1>5, <2>1, <3>1, BehindKept
    <3>3. QueueKept(k) \/ QueueGrown(k) \/ QueueTaken(k)
      BY <1>5, QueueCases DEF QueueNew
    <3>4. \A q \in Nat : q <= rev => Behind(k, 0, q)' \subseteq Behind(k, 0, q)
      BY <3>2, <3>3
    <3> QED BY <1>4, <1>5, <2>2, <3>4 DEF Behind
  <2>5. r > 0 => Few(Behind(k, 0, r)')
    BY <2>2, <2>4, FewSubset
  <2> QED BY <1>5, <2>3, <2>5 DEF RevInv, Few, Behind
<1>6. ASSUME svc[t].socket = k, Receive(k), svc'[t] = OnMessage(svc[t], Head(wire[k])), peer[k] = "registered"
      PROVE  RevInv(t, k)'
  <2> DEFINE r == Head(wire[k])
  <2>1. QueueTaken(k)
    BY <1>6, ReceiveTakes DEF QueueTaken
  <2>2. r = Queue(k)[1] /\ r \in Nat /\ UNCHANGED <<rev, stamped, peer>> /\ Queue(k) # <<>>
    BY <1>6, ReceiveTakes DEF Revs, hubVars
  <2>3. CASE r <= svc[t].lastRev
    <3>1. svc'[t].lastRev = svc[t].lastRev
      BY <1>6, <2>3 DEF OnMessage
    <3> QED BY <1>5, <1>6, <2>2, <3>1
  <2>4. CASE ~(r <= svc[t].lastRev)
    <3>1. svc'[t].lastRev = r
      BY <1>4, <1>6, <2>4 DEF OnMessage, ScheduleBump, Service
    <3>2. 1 \in DOMAIN Queue(k) /\ r \in Queued(k)
      BY <2>2, QueueHead
    <3>3. r <= rev /\ Few(Behind(k, 1, r))
      BY <1>6, <2>2, <3>2 DEF PeerInv, PeerOK, LateInv
    <3>4. ~Crash /\ 1 <= Len(Queue(k))
      BY <1>6, <2>2, <3>2, RegisteredNoCrash, QueueType, LenProperties
    <3>5. \A q \in Nat : q <= rev => Behind(k, 0, q)' \subseteq Behind(k, 1, q)
      BY <1>6, <2>1, <3>4, BehindKept
    <3>7. ASSUME NEW q, q = r PROVE Behind(k, 0, q)' \subseteq Behind(k, 1, r)
      BY <2>2, <3>3, <3>5, <3>7
    <3>8. ASSUME NEW q, q = r PROVE Few(Behind(k, 0, q)')
      BY <3>3, <3>7, <3>8, FewSubset
    <3> QED BY <1>6, <2>2, <3>1, <3>3, <3>8 DEF RevInv, Few, Behind
  <2> QED BY <2>3, <2>4
<1>7. ASSUME svc[t].socket = k, svc'[t].lastRev = svc[t].lastRev PROVE RevInv(t, k)'
  <2>1. CASE peer'[k] = "registered"
    <3>1. CASE peer[k] = "registered"
      BY <1>5, <1>7, <2>1, <3>1
    <3>2. CASE peer[k] # "registered"
      <4>1. svc'[t].lastRev = 0
        BY <1>3, <1>7, <2>1, <3>2
      <4>2. 0 <= rev'
        <5>1. ~Crash
          BY <2>1, RegisteredNoCrash
        <5> QED BY <1>4, <5>1, CountedCases DEF CountedKept, CountedUp
      <4> QED BY <2>1, <4>1, <4>2 DEF RevInv
    <3> QED BY <3>1, <3>2
  <2>2. CASE peer'[k] \in {"none", "accepted"}
    BY <1>2, <1>7, <2>2 DEF RevInv
  <2> QED BY <2>1, <2>2 DEF RevInv
<1>8. ASSUME svc[t].socket = k, Receive(k), svc'[t] = OnMessage(svc[t], Head(wire[k])) PROVE RevInv(t, k)'
  BY <1>2, <1>3, <1>6, <1>8 DEF RevInv
<1> QED BY <1>1, <1>7, <1>8, TabCases DEF SameTab, Types

LEMMA SecondPart ==
    ASSUME NEW S, NEW a \in Seq(S), NEW b \in Seq(S)
    PROVE  \A i \in 1 .. Len(b) : i + Len(a) \in DOMAIN (a \o b) /\ (a \o b)[i + Len(a)] = b[i]
<1> SUFFICES ASSUME NEW i \in 1 .. Len(b)
             PROVE  i + Len(a) \in DOMAIN (a \o b) /\ (a \o b)[i + Len(a)] = b[i]
  OBVIOUS
<1> DEFINE m == Len(a)
           n == Len(b)
           c == a \o b
<1>1. /\ m \in Nat /\ n \in Nat /\ c \in Seq(S) /\ Len(c) = m + n
      /\ \A j \in 1 .. (m + n) : c[j] = IF j <= m THEN a[j] ELSE b[j - m]
  BY ConcatProperties, LenProperties
<1>2. DOMAIN c = 1 .. (m + n)
  BY <1>1, LenProperties
<1>3. i \in 1 .. n
  OBVIOUS
<1> HIDE DEF m, n, c
<1>4. i + m \in 1 .. (m + n) /\ ~(i + m <= m) /\ (i + m) - m = i
  BY <1>1, <1>3
<1>5. i + m \in DOMAIN c /\ c[i + m] = b[i]
  BY <1>1, <1>2, <1>4
<1> QED BY <1>5 DEF m, c

\* A channel that drops an event is so full that one of those it holds is news to the
\* tab: were they all late, more would be late than there are broadcasters.
LEMMA FullNews ==
    ASSUME IsFiniteSet(Broadcasters), Cardinality(Broadcasters) <= clientBuffer,
           Types, RevisionsUnique, TabInv,
           NEW t \in Tabs, NEW k \in Sockets, svc[t].socket = k, svc[t].lastRev \in Nat,
           peer[k] = "registered", Len(send[k]) >= clientBuffer
    PROVE  \E q \in Queued(k) : q > svc[t].lastRev
<1> SUFFICES ASSUME \A q \in Queued(k) : ~(q > svc[t].lastRev) PROVE FALSE
  OBVIOUS
<1> DEFINE r == svc[t].lastRev
           B == Behind(k, 0, r)
           I == 1 .. Len(send[k])
<1>1. /\ send[k] \in Seq(Revs) /\ wire[k] \in Seq(Revs) /\ Queued(k) \subseteq Nat
      /\ Len(send[k]) \in Nat /\ Len(wire[k]) \in Nat /\ DOMAIN send[k] = I
      /\ DOMAIN Queue(k) = 1 .. Len(Queue(k))
  BY QueueType, LenProperties DEF Revs
<1>2. clientBuffer \in Nat /\ clientBuffer > 0 /\ k \in Clients
  BY HubAssumption, LiveUpdatesAssumption DEF HubAssumption
<1>3. \A i \in I : send[k][i] \in Queued(k)
  <2>1. \A i \in I : i + Len(wire[k]) \in DOMAIN Queue(k) /\ Queue(k)[i + Len(wire[k])] = send[k][i]
    <3>1. wire[k] \in Seq(Revs) /\ send[k] \in Seq(Revs)
      BY <1>1
    <3>2. \A i \in 1 .. Len(send[k]) :
            /\ i + Len(wire[k]) \in DOMAIN (wire[k] \o send[k])
            /\ (wire[k] \o send[k])[i + Len(wire[k])] = send[k][i]
      BY ONLY <3>1, SecondPart
    <3> QED BY <3>2, Zenon DEF Queue
  <2> QED BY <2>1 DEF Queued
<1>4. \A q \in Queued(k) : q \in Nat /\ q <= r
  BY <1>1
<1>5. 1 \in I
  BY <1>1, <1>2
<1>6. r > 0
  <2>1. send[k][1] \in Revs
    BY <1>1, <1>5, ElementOfSeq
  <2> QED BY <1>3, <1>4, <1>5, <2>1 DEF Revs
<1>7. Few(B)
  BY <1>6 DEF TabInv, RevInv
<1>8. Queued(k) \subseteq B
  BY <1>1, <1>4 DEF Queued, Behind
<1> HIDE DEF B
<1>9. \A i \in I : send[k][i] \in B
  BY <1>3, <1>8
<1>10. send[k] \in Injection(I, B)
  <2>1. \A i, j \in I : send[k][i] = send[k][j] => i = j
    BY <1>1, <1>2 DEF RevisionsUnique
  <2>2. send[k] = [i \in I |-> send[k][i]]
    BY <1>1
  <2>3. send[k] \in [I -> B]
    BY <1>9, <2>2
  <2> QED BY <1>1, <2>1, <2>3 DEF Injection, IsInjective
<1>11. Cardinality(I) = Len(send[k]) /\ IsFiniteSet(I)
  <2>1. 1 \in Int /\ Len(send[k]) \in Int /\ ~(1 > Len(send[k]))
    BY <1>1, <1>2
  <2>2. Cardinality(I) = (Len(send[k]) - 1) + 1
    BY <2>1, FS_Interval
  <2> QED BY <1>1, <2>1, <2>2, FS_Interval
<1>12. Cardinality(I) <= Cardinality(B)
  BY <1>7, <1>10, FS_Injection DEF Few
<1>13. Cardinality(B) \in Nat /\ Cardinality(Broadcasters) \in Nat
  BY <1>7, FS_CardinalityType DEF Few
<1> QED BY <1>1, <1>2, <1>7, <1>11, <1>12, <1>13 DEF Few

\* The assumptions under which no update is lost.
Lossless ==
    /\ IsFiniteSet(Broadcasters) /\ Cardinality(Broadcasters) <= clientBuffer
    /\ ~RereadMayFail /\ PromptRegister /\ ~FetchMayFail

\* Nothing but a broadcast or an arrival touches the queue of a registered socket.
LEMMA QueueAlone ==
    ASSUME Types, PeerInv, [Next]_vars, NEW k \in Sockets,
           peer[k] = "registered", peer'[k] = "registered",
           ~Receive(k), \A w \in Broadcasters : ~BroadcastEnd(w)
    PROVE  Queued(k)' = Queued(k)
<1>1. QueueKept(k)
  BY QueueCases DEF QueueNew, QueueTaken, QueueGrown
<1> QED BY <1>1 DEF QueueKept, Queued

\* Nothing is lost on the way of an arriving event, or it was no news.
LEMMA InformedReceive ==
    ASSUME Types, NEW t \in Tabs, NEW k \in Sockets, Receive(k), SameTab(t),
           svc[t].lastRev \in Nat, Head(wire[k]) <= svc[t].lastRev, Informed(t, k)
    PROVE  Informed(t, k)'
<1>1. /\ Queue(k) \in Seq(Revs) /\ Queue(k) # <<>> /\ Queue(k)[1] <= svc[t].lastRev
      /\ Queue(k)' = Tail(Queue(k))
      /\ UNCHANGED <<hubVars, dbv, mutating, fetch, view>>
  BY ReceiveTakes, QueueType
<1>2. \A r \in Queued(k) : r > svc[t].lastRev => r \in Queued(k)'
  <2>1. /\ Queue(k)' \in Seq(Revs) /\ Len(Queue(k)') = Len(Queue(k)) - 1
        /\ \A j \in 1 .. Len(Queue(k)') : Queue(k)'[j] = Queue(k)[j + 1]
    BY <1>1, HeadTailProperties
  <2>2. /\ DOMAIN Queue(k) = 1 .. Len(Queue(k)) /\ Len(Queue(k)) \in Nat
        /\ DOMAIN Queue(k)' = 1 .. (Len(Queue(k)) - 1)
    BY <1>1, <2>1, LenProperties
  <2>3. ASSUME NEW i \in DOMAIN Queue(k), Queue(k)[i] > svc[t].lastRev
        PROVE  i - 1 \in DOMAIN Queue(k)' /\ Queue(k)'[i - 1] = Queue(k)[i]
    <3>1. Queue(k)[1] \in Nat /\ Queue(k)[i] \in Nat
      <4>1. Queue(k)[1] \in Queued(k) /\ Queue(k)[i] \in Queued(k)
        BY <1>1, QueueHead DEF Queued
      <4> QED BY <4>1, QueueType DEF Revs
    <3>2. i # 1
      BY <1>1, <2>3, <3>1
    <3>3. i - 1 \in 1 .. (Len(Queue(k)) - 1) /\ (i - 1) + 1 = i
      BY <2>2, <2>3, <3>2
    <3> QED BY <2>1, <2>2, <3>3
  <2> QED BY <2>3 DEF Queued
<1>3. InFlight' = InFlight
  BY <1>1 DEF hubVars, InFlight
<1> QED BY <1>1, <1>2, <1>3 DEF Informed, SameTab

\* A broadcast that ends has reached the tab, or others that are news to it have.
LEMMA InformedBroadcast ==
    ASSUME Lossless, Types, RevisionsUnique, PeerInv, TabInv, [Next]_vars,
           NEW t \in Tabs, NEW k \in Sockets, svc[t].socket = k, SameTab(t),
           svc[t].lastRev \in Nat, peer[k] = "registered", peer'[k] = "registered",
           NEW w \in Broadcasters, BroadcastEnd(w), Informed(t, k)
    PROVE  Informed(t, k)'
<1>1. /\ send' = [c \in Clients |-> Offer(c, stamped[w])] /\ stamped' = [stamped EXCEPT ![w] = 0]
      /\ stamped[w] # 0 /\ stamped \in [Broadcasters -> 0 .. MaxRev]
      /\ UNCHANGED <<clients, dbv, mutating, wire, fetch, view>>
      /\ k \in Clients /\ k \in clients
  BY LiveUpdatesAssumption DEF BroadcastEnd, Deliver, Types, HubTypeOK, PeerInv, PeerOK
<1>2. Queue(k) \in Seq(Revs) /\ wire[k] \in Seq(Revs) /\ send[k] \in Seq(Revs) /\ stamped[w] \in Revs
  BY <1>1, QueueType DEF Revs
<1>3. CASE Len(send[k]) < clientBuffer
  <2>1. Queue(k)' = Append(Queue(k), stamped[w])
    <3>1. send'[k] = Append(send[k], stamped[w])
      BY <1>1, <1>3 DEF Offer
    <3>2. Queue(k)' = wire[k] \o Append(send[k], stamped[w])
      BY <1>1, <3>1 DEF Queue
    <3>3. wire[k] \o Append(send[k], stamped[w]) = Append(wire[k] \o send[k], stamped[w])
      <4>1. wire[k] \in Seq(Revs) /\ send[k] \in Seq(Revs) /\ stamped[w] \in Revs
        BY <1>2
      <4>2. \A a, b \in Seq(Revs) : \A r \in Revs : a \o Append(b, r) = Append(a \o b, r)
        BY OfferLast
      <4> QED BY <4>1, <4>2, Zenon
    <3> QED BY <3>2, <3>3 DEF Queue
  <2>2. /\ Len(Queue(k)) \in Nat /\ Len(Queue(k)') = Len(Queue(k)) + 1 /\ Queue(k)' \in Seq(Revs)
        /\ \A j \in 1 .. Len(Queue(k)) : Queue(k)'[j] = Queue(k)[j]
        /\ Queue(k)'[Len(Queue(k)) + 1] = stamped[w]
    BY <1>2, <2>1, AppendProperties, LenProperties
  <2>3. DOMAIN Queue(k) = 1 .. Len(Queue(k)) /\ DOMAIN Queue(k)' = 1 .. (Len(Queue(k)) + 1)
    BY <1>2, <2>2, LenProperties
  <2>4. Queued(k) \union {stamped[w]} \subseteq Queued(k)'
    <3>1. \A j \in DOMAIN Queue(k) : j \in DOMAIN Queue(k)' /\ Queue(k)'[j] = Queue(k)[j]
      BY <2>2, <2>3
    <3>2. Len(Queue(k)) + 1 \in DOMAIN Queue(k)'
      BY <2>2, <2>3
    <3> QED BY <2>2, <3>1, <3>2 DEF Queued
  <2>5. InFlight \subseteq InFlight' \union {stamped[w]}
    BY <1>1 DEF InFlight
  <2> QED BY <1>1, <2>4, <2>5 DEF Informed, SameTab
<1>4. CASE Len(send[k]) >= clientBuffer
  <2>1. \E q \in Queued(k) : q > svc[t].lastRev
    BY <1>4, FullNews DEF Lossless
  <2>2. send'[k] = send[k]
    <3>1. ~(Len(send[k]) < clientBuffer)
      BY <1>2, <1>4, LenProperties, HubAssumption DEF HubAssumption
    <3> QED BY <1>1, <3>1 DEF Offer
  <2>3. Queued(k)' = Queued(k)
    BY <1>1, <2>2 DEF Queued, Queue
  <2> QED BY <2>1, <2>3 DEF Informed, SameTab
<1> QED BY <1>2, <1>3, <1>4, LenProperties, HubAssumption DEF HubAssumption

LEMMA FetchesStay ==
    ASSUME NEW t \in Tabs, NEW k \in Sockets, SameTab(t), Informed(t, k),
           UNCHANGED <<dbv, mutating, stamped, fetch[t], view[t]>>, Queued(k)' = Queued(k)
    PROVE  Informed(t, k)'
BY DEF Informed, SameTab, InFlight

\* What tab t does about its refetch keeps it informed.
LEMMA InformedTab ==
    ASSUME Lossless, Types, FetchInv, ServiceInv,
           NEW t \in Tabs, NEW k \in Sockets, svc'[t].socket = k, SameTab(t), Tab(t),
           Queued(k)' = Queued(k), Informed(t, k)
    PROVE  Informed(t, k)'
<1>1. UNCHANGED <<dbv, mutating, stamped>>
  BY DEF Tab, Dial, Bump, Stabilise, Serve, Render, FetchFails, SessionExpires, Reload, hubVars
<1>2. fetch \in [Tabs -> SUBSET Requests] /\ view \in [Tabs -> {Blank} \union (0 .. MaxCommits)]
  BY DEF Types, TabsInv
<1>3. CASE (\E j \in Sockets \union {NoSocket} : Dial(t, j)) \/ Stabilise(t)
  BY <1>1, <1>3, FetchesStay DEF Dial, Stabilise
<1>4. CASE Bump(t)
  BY <1>2, <1>4, SentRequest DEF Bump, Refetch, Informed
<1>5. CASE Serve(t)
  <2>1. \E g \in fetch'[t] : g.v = dbv
    <3>1. PICK f \in fetch[t], g \in Requests :
            /\ g.v = dbv /\ fetch' = [fetch EXCEPT ![t] = (fetch[t] \ {f}) \union {g}]
      BY <1>5, ServeTab DEF Types
    <3> QED BY <1>2, <3>1
  <2> QED BY <1>1, <2>1 DEF Informed
<1>6. CASE Render(t)
  <2>1. PICK f \in fetch[t] : /\ f.st = "served" /\ fetch' = [fetch EXCEPT ![t] = fetch[t] \ {f}]
                              /\ view' = [view EXCEPT ![t] = f.v]
    BY <1>6 DEF Render
  <2>2. fetch[t] = {f}
    BY <2>1 DEF FetchInv
  <2>3. fetch'[t] = {} /\ view'[t] = f.v
    BY <1>2, <2>1, <2>2
  <2>4. (\E g \in fetch[t] : g.st = "sent" \/ g.v = dbv) => fetch'[t] = {} /\ view'[t] = dbv
    BY <2>1, <2>2, <2>3
  <2>5. fetch[t] # {}
    BY <2>2
  <2> QED BY <1>1, <2>4, <2>5 DEF Informed, SameTab, InFlight
<1>7. CASE FetchFails(t)
  BY <1>7 DEF FetchFails, Lossless
<1>8. CASE SessionExpires(t) \/ Reload(t)
  <2>0. svc[t] \in Service /\ svc \in [Tabs -> Service] /\ NoSocket \notin Sockets /\ TabOK(svc[t], t, net)
    BY LiveServiceAssumption DEF ServiceInv, LiveTypeOK
  <2>1. svc'[t] = Disconnected(svc[t]) \/ svc'[t] = NewService
    BY <1>8, <2>0 DEF SessionExpires, Disconnect, Reload, PageLoad
  <2>2. Disconnected(svc[t]).socket = NoSocket /\ NewService.socket = NoSocket
    BY <2>0, DisconnectedFields DEF TabOK, NewService
  <2> QED BY <2>0, <2>1, <2>2
<1> QED BY <1>3, <1>4, <1>5, <1>6, <1>7, <1>8 DEF Tab

LEMMA InformedStep ==
    ASSUME Lossless, Types, RevisionsUnique, ServiceInv, PeerInv, FetchInv, TabInv, [Next]_vars,
           NEW t \in Tabs, NEW k \in Sockets, svc[t].socket = k, svc'[t].socket = k, SameTab(t),
           peer[k] = "registered", peer'[k] = "registered",
           Receive(k) => Head(wire[k]) <= svc[t].lastRev, Informed(t, k)
    PROVE  Informed(t, k)'
<1>0. /\ svc[t].lastRev \in Nat /\ fetch \in [Tabs -> SUBSET Requests]
      /\ view \in [Tabs -> {Blank} \union (0 .. MaxCommits)]
  BY DEF ServiceInv, LiveTypeOK, Service, Types, TabsInv
<1>1. CASE Receive(k)
  BY <1>0, <1>1, InformedReceive
<1>2. CASE \E w \in Broadcasters : BroadcastEnd(w)
  BY <1>0, <1>2, InformedBroadcast
<1>3. CASE ~Receive(k) /\ \A w \in Broadcasters : ~BroadcastEnd(w)
  <2>1. Queued(k)' = Queued(k)
    BY <1>3, QueueAlone
  <2>2. ASSUME NEW w \in Broadcasters, Commit(w) PROVE Informed(t, k)'
    <3>1. mutating'[w]
      BY <2>2 DEF Commit, Types, ServerInv
    <3> QED BY <3>1 DEF Informed
  <2>3. ASSUME NEW w \in Broadcasters, RereadFails(w) PROVE Informed(t, k)'
    BY <2>3 DEF RereadFails, Lossless
  <2>4. ASSUME NEW w \in Broadcasters, BroadcastStart(w) PROVE Informed(t, k)'
    <3>1. stamped'[w] = rev + 1 /\ rev \in Nat
      BY <2>4 DEF BroadcastStart, Stamp, Types, HubTypeOK
    <3>2. rev + 1 \in InFlight'
      BY <3>1 DEF InFlight
    <3>3. svc[t].lastRev <= rev
      BY DEF TabInv, RevInv
    <3>4. rev + 1 > svc'[t].lastRev
      BY <1>0, <3>1, <3>3 DEF SameTab
    <3> QED BY <3>2, <3>4 DEF Informed
  <2>5. ASSUME NEW j \in Sockets, WsHandler(j) \/ SocketEvent(j) PROVE Informed(t, k)'
    <3>1. UNCHANGED <<fetch, view>>
      BY <2>5, TabsKept
    <3>2. UNCHANGED <<dbv, mutating, stamped>>
      BY <2>5 DEF WsHandler, Accept, RegisterConn, WritePump, PumpExit, Register, Refuse, Unregister,
                  Drain, SocketEvent, SocketOpens, Receive, SocketFails, SocketCloses, hubVars
    <3> QED BY <2>1, <3>1, <3>2, FetchesStay
  <2>6. ASSUME NEW u \in Tabs, Tab(u), u # t PROVE Informed(t, k)'
    <3>1. UNCHANGED <<dbv, mutating, stamped>>
      BY <2>6 DEF Tab, Dial, Bump, Stabilise, Serve, Render, FetchFails, SessionExpires, Reload, hubVars
    <3>2. UNCHANGED <<fetch[t], view[t]>>
      BY <1>0, <2>6 DEF Tab, Dial, Bump, Refetch, Stabilise, Serve, Render, FetchFails, SessionExpires,
                        Reload, OnError
    <3> QED BY <2>1, <3>1, <3>2, FetchesStay
  <2>7. CASE Tab(t)
    BY <2>1, <2>7, InformedTab
  <2>8. ~Crash
    BY RegisteredNoCrash
  <2>9. CASE UNCHANGED vars
    BY <2>1, <2>9, FetchesStay DEF vars, hubVars
  <2> QED BY <1>3, <2>2, <2>3, <2>4, <2>5, <2>6, <2>7, <2>8, <2>9 DEF Next, Mutator
<1> QED BY <1>1, <1>2, <1>3

LEMMA LiveTabStep ==
    ASSUME Lossless, Types, RevisionsUnique, ServiceInv, PeerInv, FetchInv, TabInv, [Next]_vars,
           NEW t \in Tabs, NEW k \in Sockets, svc'[t].socket = k, svc'[t].status = "live"
    PROVE  LiveTabInv(t, k)'
<1>0. /\ svc[t] \in Service /\ svc[t].lastRev \in Nat /\ peer[k] \in {"none", "accepted", "registered", "gone"}
      /\ k # NoSocket /\ TabOK(svc[t], t, net)
  BY LiveServiceAssumption DEF ServiceInv, LiveTypeOK, Service, Types, ServerInv
<1>1. svc[t].socket = k
  BY TabCases DEF Types
\* The tab was live already, and knows of what it has received.
<1>2. ASSUME SameTab(t), Receive(k) => Head(wire[k]) <= svc[t].lastRev PROVE LiveTabInv(t, k)'
  <2>1. /\ svc[t].status = "live" /\ svc'[t].bumpTimer = svc[t].bumpTimer /\ peer[k] # "none"
        /\ peer[k] = "accepted" => svc[t].bumpTimer
        /\ peer[k] = "registered" => Informed(t, k)
    BY <1>1, <1>2 DEF SameTab, TabInv, LiveTabInv
  <2>2. peer'[k] \in {"none", "accepted"} => peer'[k] = peer[k]
    BY <1>1, <2>1, RegistryPeer, NoRedial
  <2>3. peer'[k] = "registered" /\ peer[k] # "registered" => svc'[t].bumpTimer
    BY <2>1, RegistryPeer
  <2>4. peer'[k] = "registered" /\ peer[k] = "registered" => Informed(t, k)'
    BY <1>1, <1>2, <2>1, InformedStep
  <2> QED BY <2>1, <2>2, <2>3, <2>4 DEF LiveTabInv, Informed
<1>3. CASE SocketOpens(k) /\ svc'[t].bumpTimer
  BY <1>3 DEF SocketOpens, LiveTabInv, Informed
<1>4. CASE Receive(k) /\ svc'[t] = OnMessage(svc[t], Head(wire[k]))
  <2>1. Head(wire[k]) \in Nat
    BY <1>4, ReceiveTakes DEF Revs
  <2>2. CASE Head(wire[k]) <= svc[t].lastRev
    <3>1. SameTab(t)
      BY <1>4, <2>2 DEF OnMessage, SameTab
    <3> QED BY <1>2, <2>2, <3>1
  <2>3. CASE ~(Head(wire[k]) <= svc[t].lastRev)
    <3>1. svc'[t].bumpTimer
      BY <1>0, <1>4, <2>3 DEF OnMessage, ScheduleBump, Service
    <3>2. peer'[k] = peer[k] /\ peer[k] # "none"
      BY <1>4 DEF Receive, PeerInv, PeerOK
    <3> QED BY <3>1, <3>2 DEF LiveTabInv, Informed
  <2> QED BY <2>2, <2>3
<1>5. CASE Bump(t) /\ svc'[t].status = svc[t].status
  <2>1. svc[t].status = "live" /\ net[k] = "open"
    BY <1>0, <1>1, <1>5 DEF TabOK
  <2>2. peer'[k] = peer[k] /\ peer[k] # "accepted"
    BY <1>1, <1>5, <2>1 DEF Bump, Lossless
  <2>3. peer[k] # "none"
    BY <1>1, <2>1 DEF TabInv, LiveTabInv
  <2>4. \E f \in fetch'[t] : f.st = "sent"
    BY <1>5, SentRequest DEF Bump, Refetch, Types, TabsInv
  <2> QED BY <2>2, <2>3, <2>4 DEF LiveTabInv, Informed
<1>6. CASE SameTab(t)
  <2>1. CASE Receive(k) /\ ~(Head(wire[k]) <= svc[t].lastRev)
    <3>1. Head(wire[k]) \in Nat
      BY <2>1, ReceiveTakes DEF Revs
    <3>2. k \in svc[TabOf[k]].attached /\ TabOf[k] = t
      BY <1>0, <1>1 DEF TabOK
    <3>3. svc'[t] = OnMessage(svc[t], Head(wire[k]))
      BY <2>1, <3>2 DEF Receive, Message, Handled, ServiceInv, LiveTypeOK
    <3> QED BY <1>4, <2>1, <3>3
  <2>2. CASE Receive(k) => Head(wire[k]) <= svc[t].lastRev
    BY <1>2, <1>6, <2>2
  <2> QED BY <2>1, <2>2
<1> QED BY <1>3, <1>4, <1>5, <1>6, TabCases DEF Types

LEMMA DeliveryStep ==
    ASSUME Lossless, Types, RevisionsUnique, ServiceInv, FetchInv, DeliveryInv, [Next]_vars, ServiceInv'
    PROVE  DeliveryInv'
<1>1. IsFiniteSet(Broadcasters) /\ PeerInv /\ LateInv /\ TabInv
  BY DEF Lossless, DeliveryInv
<1>2. PeerInv' /\ LateInv'
  BY <1>1, PeerStep, LateStep
<1>3. ASSUME NEW t \in Tabs, NEW k \in Sockets, svc'[t].socket = k
      PROVE  (RevInv(t, k) /\ LiveTabInv(t, k))'
  <2>1. RevInv(t, k)'
    BY <1>1, <1>3, RevStep
  <2>2. LiveTabInv(t, k)'
    <3>1. CASE svc'[t].status = "live"
      BY <1>1, <1>3, <3>1, LiveTabStep
    <3>2. CASE svc'[t].status # "live"
      BY <3>2 DEF LiveTabInv
    <3> QED BY <3>1, <3>2
  <2> QED BY <2>1, <2>2
<1>4. TabInv'
  BY <1>3 DEF TabInv
<1> QED BY <1>2, <1>4 DEF DeliveryInv

LEMMA DeliveryInit == Init => DeliveryInv
<1> SUFFICES ASSUME Init PROVE DeliveryInv
  OBVIOUS
<1>1. /\ clients = {} /\ \A k \in Sockets : peer[k] = "none" /\ wire[k] = <<>>
      /\ \A t \in Tabs : svc[t].socket = NoSocket
  BY DEF Init, HubInit, LiveInit, NewService
<1>2. PeerInv /\ LateInv
  BY <1>1 DEF PeerInv, PeerOK, LateInv
<1>3. TabInv
  BY <1>1, LiveServiceAssumption DEF TabInv
<1> QED BY <1>2, <1>3 DEF DeliveryInv

\* No update is lost: once every mutation is broadcast, a live tab with nothing left to
\* receive shows the database, whatever was reordered between the counter and the mutex,
\* dropped on a full channel or discarded as stale, and whichever sockets broke or
\* servers restarted.  It takes a channel that holds an event of every broadcaster
\* (with a smaller one the dropped events can be the only news), a handler that is not
\* cancelled between commit and broadcast, a Register that beats the debounce, and
\* refetches that are answered (hub.go: "so no data is lost").
THEOREM LiveUpdatesNoLostUpdate == Lossless => (Spec => []NoLostUpdate)
<1> SUFFICES ASSUME Lossless PROVE Spec => []NoLostUpdate
  OBVIOUS
<1> DEFINE Known == HubTypeOK /\ RevisionsUnique /\ ServerInv /\ TabsInv /\ ServiceInv /\ FetchInv
<1>1. Spec => []Known
  BY HubHolds, ServerHolds, TabsHolds, ServiceHolds, FetchHolds, PTL
<1>2. Known /\ Known' /\ DeliveryInv /\ [Next]_vars => DeliveryInv'
  BY DeliveryStep DEF Types
<1>3. Known /\ DeliveryInv => NoLostUpdate
  <2> SUFFICES ASSUME Known, DeliveryInv, Quiet, NEW t \in Tabs, Settled(t) PROVE view[t] = dbv
    BY DEF NoLostUpdate
  <2> DEFINE k == svc[t].socket
  <2>1. k \in Sockets
    BY DEF Settled, ServiceInv, LiveTypeOK, TabOK, Service
  <2>2. Informed(t, k)
    BY <2>1 DEF DeliveryInv, TabInv, LiveTabInv, Settled
  <2>3. InFlight = {}
    BY DEF Quiet, InFlight
  <2>4. Queued(k) = {}
    BY DEF Settled, Queued, Queue
  <2> QED BY <2>2, <2>3, <2>4 DEF Informed, Settled, Quiet
<1>4. Init => DeliveryInv
  BY DeliveryInit
<1> HIDE DEF Known
<1> QED BY <1>1, <1>2, <1>3, <1>4, PTL DEF Spec
=============================================================================
