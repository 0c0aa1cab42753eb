------------------------ MODULE ClientRegistry_proofs ------------------------
(***************************************************************************)
(* Lemmas about the operations of ClientRegistry: what each returns is a   *)
(* registry, what unregistering and hanging up may change, and what is     *)
(* left of a client that has been unregistered.                            *)
(***************************************************************************)
EXTENDS ClientRegistry, FiniteSetTheorems, TLAPS

\* q is r with some entries removed: nothing is added to any map, and the
\* entries that stay are as they were.
OnlyForgets(r, q) ==
    /\ q.peer_connections \subseteq r.peer_connections
    /\ q.data_channels \subseteq r.data_channels
    /\ q.rooms = r.rooms
    /\ \A t \in ClientId :
          /\ q.addresses[t] \in {r.addresses[t], None}
          /\ q.targets[t] \in {r.targets[t], None}
          /\ q.approved_calls[t] \subseteq r.approved_calls[t]
          /\ q.rejected_calls[t] \subseteq r.rejected_calls[t]
          /\ q.notified_requests[t] \subseteq r.notified_requests[t]
          /\ q.last_pong[t] \in {r.last_pong[t], None}
    /\ \A k \in Key :
          /\ q.room_members[k] \subseteq r.room_members[k]
          /\ \A t \in ClientId : q.room_speakers[k][t] \in {r.room_speakers[k][t], None}

\* Nothing of c is left in the maps that calls and rooms are routed by.
Forgotten(r, c) ==
    /\ r.addresses[c] = None /\ c \notin r.peer_connections
    /\ r.targets[c] = None /\ r.last_pong[c] = None
    /\ r.approved_calls[c] = {} /\ r.rejected_calls[c] = {}
    /\ \A k \in Key : c \notin r.room_members[k] /\ r.room_speakers[k][c] = None

\* q differs from r in rooms at most.
SameCalls(r, q) ==
    /\ q.peer_connections = r.peer_connections /\ q.data_channels = r.data_channels
    /\ q.addresses = r.addresses /\ q.targets = r.targets
    /\ q.approved_calls = r.approved_calls /\ q.rejected_calls = r.rejected_calls
    /\ q.notified_requests = r.notified_requests /\ q.last_pong = r.last_pong

\* The empty registry of a daemon that has just started is a registry.
LEMMA EmptyRegistryType == EmptyRegistry \in Registry
  BY Zenon DEF EmptyRegistry, Registry

\* clear_call_session leaves a registry.
LEMMA ClearCallSessionType ==
    ASSUME NEW r \in Registry, NEW c \in ClientId, NEW k \in Key
    PROVE  ClearCallSession(r, c, k) \in Registry
  BY ZenonT(60) DEF ClearCallSession, Registry

\* clear_call_session only removes entries.
LEMMA ClearCallSessionForgets ==
    ASSUME NEW r \in Registry, NEW c \in ClientId, NEW k \in Key
    PROVE  /\ OnlyForgets(r, ClearCallSession(r, c, k))
           /\ ClearCallSession(r, c, k).addresses = r.addresses
           /\ ClearCallSession(r, c, k).peer_connections = r.peer_connections
           /\ ClearCallSession(r, c, k).data_channels = r.data_channels
           /\ ClearCallSession(r, c, k).last_pong = r.last_pong
           /\ ClearCallSession(r, c, k).room_members = r.room_members
           /\ ClearCallSession(r, c, k).room_speakers = r.room_speakers
  BY ZenonT(60) DEF ClearCallSession, OnlyForgets, Registry

\* unregister_client leaves a registry in which the client is forgotten, has no
\* channel and no notifications, and in which nothing else has been added.
LEMMA UnregisterClientForgets ==
    ASSUME NEW r \in Registry, NEW c \in ClientId
    PROVE  LET q == UnregisterClient(r, c)
           IN  /\ q \in Registry
               /\ OnlyForgets(r, q)
               /\ Forgotten(q, c)
               /\ c \notin q.data_channels
               /\ \A t \in ClientId \ {c} : q.addresses[t] = r.addresses[t]
<1> DEFINE gone == RemoveEntries(r, c)
           ended == IF r.targets[c] = None THEN gone ELSE ClearCallSession(gone, c, r.targets[c])
           q == [ended EXCEPT
                   !.approved_calls = [t \in ClientId |-> @[t] \ {r.addresses[c]}],
                   !.rejected_calls = [t \in ClientId |-> @[t] \ {r.addresses[c]}],
                   !.room_members   = [k \in Key |-> @[k] \ {c}],
                   !.room_speakers  = [k \in Key |-> [@[k] EXCEPT ![c] = None]]]
<1>1. UnregisterClient(r, c) = q
  BY Zenon DEF UnregisterClient
<1>2. /\ gone \in Registry /\ OnlyForgets(r, gone)
      /\ gone.addresses[c] = None /\ c \notin gone.peer_connections
      /\ gone.targets[c] = None /\ gone.last_pong[c] = None
      /\ gone.approved_calls[c] = {} /\ gone.rejected_calls[c] = {}
      /\ c \notin gone.data_channels
      /\ \A t \in ClientId \ {c} : gone.addresses[t] = r.addresses[t]
  BY ZenonT(60) DEF RemoveEntries, Registry, OnlyForgets
<1>3. r.targets[c] \in Key \cup {None}
  BY Zenon DEF Registry
<1> HIDE DEF gone
<1>4. /\ ended \in Registry /\ OnlyForgets(r, ended)
      /\ ended.addresses[c] = None /\ c \notin ended.peer_connections
      /\ ended.targets[c] = None /\ ended.last_pong[c] = None
      /\ ended.approved_calls[c] = {} /\ ended.rejected_calls[c] = {}
      /\ c \notin ended.data_channels
      /\ \A t \in ClientId \ {c} : ended.addresses[t] = r.addresses[t]
  <2>1. CASE r.targets[c] = None
    BY Zenon, <1>2, <2>1
  <2>2. CASE r.targets[c] # None
    <3>1. r.targets[c] \in Key
      BY Zenon, <1>3, <2>2
    <3>2. ended = ClearCallSession(gone, c, r.targets[c])
      BY Zenon, <2>2
    <3> HIDE DEF ended
    <3>3. ended \in Registry
      BY Zenon, <1>2, <3>1, <3>2, ClearCallSessionType
    <3>4. /\ OnlyForgets(gone, ended)
          /\ ended.addresses = gone.addresses
          /\ ended.peer_connections = gone.peer_connections
          /\ ended.data_channels = gone.data_channels
          /\ ended.last_pong = gone.last_pong
      BY <1>2, <3>1, <3>2, ClearCallSessionForgets
    <3>5. OnlyForgets(r, ended)
      BY ZenonT(60), <1>2, <3>4 DEF OnlyForgets
    <3>6. /\ ended.targets[c] = None
          /\ ended.approved_calls[c] = {} /\ ended.rejected_calls[c] = {}
      BY ZenonT(60), <1>2, <3>4 DEF OnlyForgets
    <3> QED
      BY Zenon, <1>2, <3>3, <3>4, <3>5, <3>6
  <2> QED
    BY Zenon, <2>1, <2>2
<1> HIDE DEF ended
<1>5. q \in Registry
  BY ZenonT(60), <1>4 DEF Registry
<1>6. OnlyForgets(r, q)
  BY <1>4 DEF OnlyForgets, Registry
<1>7. Forgotten(q, c)
  BY ZenonT(60), <1>4 DEF Forgotten, Registry
<1>8. c \notin q.data_channels /\ \A t \in ClientId \ {c} : q.addresses[t] = r.addresses[t]
  BY Zenon, <1>4 DEF Registry
<1> QED
  BY Zenon, <1>1, <1>5, <1>6, <1>7, <1>8

\* No address is held by two clients.
UniqueAddresses(r) ==
    \A t, u \in ClientId : r.addresses[t] # None /\ r.addresses[t] = r.addresses[u] => t = u

\* register_client leaves a registry in which the address is held by the new
\* client alone, and in which nothing else has been added.
LEMMA RegisterClientEvicts ==
    ASSUME NEW r \in Registry, NEW c \in ClientId, NEW a \in Address, NEW now \in Nat,
           UniqueAddresses(r)
    PROVE  LET q == RegisterClient(r, c, a, now)
           IN  /\ q \in Registry
               /\ UniqueAddresses(q)
               /\ q.addresses[c] = a
               /\ q.data_channels \subseteq r.data_channels
               /\ q.peer_connections \subseteq r.peer_connections \cup {c}
               /\ \A t \in ClientId \ {c} : /\ q.addresses[t] \in {r.addresses[t], None}
                                            /\ q.last_pong[t] \in {r.last_pong[t], None}
               /\ \A t \in ClientId : /\ q.targets[t] \in {r.targets[t], None}
                                      /\ q.approved_calls[t] \subseteq r.approved_calls[t]
                                      /\ q.rejected_calls[t] \subseteq r.rejected_calls[t]
                                      /\ q.notified_requests[t] \subseteq r.notified_requests[t]
               /\ \A k \in Key :
                     /\ q.room_members[k] \subseteq r.room_members[k]
                     /\ \A t \in ClientId : q.room_speakers[k][t] \in {r.room_speakers[k][t], None}
<1> DEFINE old == {o \in ClientId \ {c} : r.addresses[o] = a}
           base == IF old = {} THEN r ELSE UnregisterClient(r, CHOOSE o \in old : TRUE)
           q == [base EXCEPT !.peer_connections = @ \cup {c},
                             !.addresses        = [@ EXCEPT ![c] = a],
                             !.last_pong        = [@ EXCEPT ![c] = now]]
<1>1. RegisterClient(r, c, a, now) = q
  BY Zenon DEF RegisterClient
<1>2. a # None
  BY Zenon, KeysAssumption DEF Key
<1>3. /\ base \in Registry /\ OnlyForgets(r, base)
      /\ \A t \in ClientId \ {c} : base.addresses[t] # a
  <2>1. CASE old = {}
    <3>1. base = r
      BY Zenon, <2>1
    <3>2. OnlyForgets(r, r)
      BY Zenon DEF OnlyForgets
    <3> QED
      BY Zenon, <2>1, <3>1, <3>2
  <2>2. CASE old # {}
    <3> DEFINE o == CHOOSE o \in old : TRUE
    <3>1. o \in old
      BY Zenon, <2>2
    <3>2. base = UnregisterClient(r, o)
      BY Zenon, <2>2
    <3> HIDE DEF o, base
    <3>3. /\ base \in Registry /\ OnlyForgets(r, base) /\ Forgotten(base, o)
          /\ \A t \in ClientId \ {o} : base.addresses[t] = r.addresses[t]
      BY Zenon, <3>1, <3>2, UnregisterClientForgets
    <3>4. \A t \in ClientId \ {c} : base.addresses[t] # a
      <4> SUFFICES ASSUME NEW t \in ClientId \ {c}, base.addresses[t] = a
                   PROVE  FALSE
        BY Zenon
      <4>1. t # o
        BY Zenon, <1>2, <3>3 DEF Forgotten
      <4>2. r.addresses[t] = a /\ r.addresses[o] = a
        BY Zenon, <3>1, <3>3, <4>1
      <4> QED
        BY Zenon, <1>2, <3>1, <4>1, <4>2 DEF UniqueAddresses
    <3> QED
      BY Zenon, <3>3, <3>4
  <2> QED
    BY Zenon, <2>1, <2>2
<1> HIDE DEF base
<1>4. q \in Registry
  BY ZenonT(60), <1>3 DEF Registry
<1>5. UniqueAddresses(q)
  <2>1. \A t \in ClientId : q.addresses[t] = IF t = c THEN a ELSE base.addresses[t]
    BY Zenon, <1>3 DEF Registry
  <2>2. \A t \in ClientId : base.addresses[t] \in {r.addresses[t], None}
    BY Zenon, <1>3 DEF OnlyForgets
  <2> HIDE DEF q
  <2> QED
    BY ZenonT(60), <1>2, <1>3, <2>1, <2>2 DEF UniqueAddresses
<1>6. /\ q.addresses[c] = a
      /\ q.peer_connections = base.peer_connections \cup {c}
      /\ q.data_channels = base.data_channels
      /\ q.targets = base.targets /\ q.approved_calls = base.approved_calls
      /\ q.rejected_calls = base.rejected_calls
      /\ q.notified_requests = base.notified_requests
      /\ q.room_members = base.room_members /\ q.room_speakers = base.room_speakers
      /\ \A t \in ClientId \ {c} : /\ q.addresses[t] = base.addresses[t]
                                   /\ q.last_pong[t] = base.last_pong[t]
  BY Zenon, <1>3 DEF Registry
<1> HIDE DEF q
<1> QED
  BY ZenonT(60), <1>1, <1>3, <1>4, <1>5, <1>6 DEF OnlyForgets

\* unregister_client removes the client's entries and keeps everybody else's.
LEMMA UnregisterKeeps ==
    ASSUME NEW r \in Registry, NEW c \in ClientId
    PROVE  LET q == UnregisterClient(r, c)
           IN  /\ q \in Registry
               /\ q.peer_connections = r.peer_connections \ {c}
               /\ q.data_channels = r.data_channels \ {c}
               /\ \A t \in ClientId :
                     /\ q.addresses[t] = IF t = c THEN None ELSE r.addresses[t]
                     /\ q.last_pong[t] = IF t = c THEN None ELSE r.last_pong[t]
<1> DEFINE gone == RemoveEntries(r, c)
           ended == IF r.targets[c] = None THEN gone ELSE ClearCallSession(gone, c, r.targets[c])
           q == UnregisterClient(r, c)
<1>1. /\ gone \in Registry
      /\ gone.peer_connections = r.peer_connections \ {c}
      /\ gone.data_channels = r.data_channels \ {c}
      /\ \A t \in ClientId :
            /\ gone.addresses[t] = IF t = c THEN None ELSE r.addresses[t]
            /\ gone.last_pong[t] = IF t = c THEN None ELSE r.last_pong[t]
  BY ZenonT(60) DEF RemoveEntries, Registry
<1>2. r.targets[c] \in Key \cup {None}
  BY Zenon DEF Registry
<1>3. /\ q.peer_connections = ended.peer_connections /\ q.data_channels = ended.data_channels
      /\ q.addresses = ended.addresses /\ q.last_pong = ended.last_pong
  <2>1. ended \in Registry
    <3> HIDE DEF gone
    <3> QED
      BY Zenon, <1>1, <1>2, ClearCallSessionType
  <2> HIDE DEF ended
  <2>2. q = [ended EXCEPT
               !.approved_calls = [t \in ClientId |-> @[t] \ {r.addresses[c]}],
               !.rejected_calls = [t \in ClientId |-> @[t] \ {r.addresses[c]}],
               !.room_members   = [k \in Key |-> @[k] \ {c}],
               !.room_speakers  = [k \in Key |-> [@[k] EXCEPT ![c] = None]]]
    BY Zenon DEF UnregisterClient, ended, gone
  <2> HIDE DEF q
  <2> QED
    BY Zenon, <2>1, <2>2 DEF Registry
<1>4. /\ ended.peer_connections = gone.peer_connections
      /\ ended.data_channels = gone.data_channels
      /\ ended.addresses = gone.addresses /\ ended.last_pong = gone.last_pong
  <2> HIDE DEF gone
  <2>1. CASE r.targets[c] = None
    BY Zenon, <2>1
  <2>2. CASE r.targets[c] # None
    <3>1. r.targets[c] \in Key /\ ended = ClearCallSession(gone, c, r.targets[c])
      BY Zenon, <1>2, <2>2
    <3> HIDE DEF ended
    <3> QED
      BY <1>1, <3>1, ClearCallSessionForgets
  <2> QED
    BY Zenon, <2>1, <2>2
<1>5. q \in Registry
  BY Zenon, UnregisterClientForgets
<1> HIDE DEF gone, ended, q
<1>6. /\ q.peer_connections = r.peer_connections \ {c}
      /\ q.data_channels = r.data_channels \ {c}
      /\ \A t \in ClientId :
            /\ q.addresses[t] = IF t = c THEN None ELSE r.addresses[t]
            /\ q.last_pong[t] = IF t = c THEN None ELSE r.last_pong[t]
  BY ZenonT(60), <1>1, <1>3, <1>4
<1> QED
  BY Zenon, <1>5, <1>6 DEF q

\* What register_client leaves of the registry r when c registers under the
\* address a: at most the client that had the address before is gone.
Replaced(q, r, c, a, n) ==
    /\ q \in Registry /\ UniqueAddresses(q)
    /\ q.addresses[c] = a /\ q.last_pong[c] = n
    /\ q.peer_connections \subseteq r.peer_connections \cup {c}
    /\ q.data_channels \subseteq r.data_channels
    /\ \A t \in ClientId \ {c} :
          /\ q.addresses[t] \in {r.addresses[t], None}
          /\ q.last_pong[t] \in {r.last_pong[t], None}
          /\ q.addresses[t] # None => q.last_pong[t] = r.last_pong[t]
          /\ r.addresses[t] # a =>
                /\ q.addresses[t] = r.addresses[t]
                /\ q.last_pong[t] = r.last_pong[t]
                /\ t \in r.data_channels => t \in q.data_channels

\* register_client keeps everybody whose address is another.
LEMMA RegisterKeeps ==
    ASSUME NEW r \in Registry, NEW c \in ClientId, NEW a \in Address, NEW n \in Nat,
           UniqueAddresses(r)
    PROVE  Replaced(RegisterClient(r, c, a, n), r, c, a, n)
<1> DEFINE old == {o \in ClientId \ {c} : r.addresses[o] = a}
           base == IF old = {} THEN r ELSE UnregisterClient(r, CHOOSE o \in old : TRUE)
           q == RegisterClient(r, c, a, n)
<1>1. /\ base \in Registry
      /\ \A t \in ClientId \ {c} :
            /\ base.addresses[t] # None => base.last_pong[t] = r.last_pong[t]
            /\ r.addresses[t] # a =>
                  /\ base.addresses[t] = r.addresses[t]
                  /\ base.last_pong[t] = r.last_pong[t]
                  /\ t \in r.data_channels => t \in base.data_channels
  <2>1. CASE old = {}
    BY Zenon, <2>1
  <2>2. CASE old # {}
    <3> DEFINE o == CHOOSE o \in old : TRUE
    <3>1. o \in old
      BY Zenon, <2>2
    <3>2. o \in ClientId /\ r.addresses[o] = a
      BY Zenon, <3>1
    <3>3. base = UnregisterClient(r, o)
      BY Zenon, <2>2
    <3> HIDE DEF o, base
    <3>4. /\ base \in Registry
          /\ base.data_channels = r.data_channels \ {o}
          /\ \A t \in ClientId :
                /\ base.addresses[t] = IF t = o THEN None ELSE r.addresses[t]
                /\ base.last_pong[t] = IF t = o THEN None ELSE r.last_pong[t]
      BY SMTT(30), <3>2, <3>3, UnregisterKeeps
    <3> QED
      BY Zenon, <3>2, <3>4
  <2> QED
    BY Zenon, <2>1, <2>2
<1>2. q = [base EXCEPT !.peer_connections = @ \cup {c},
                       !.addresses        = [@ EXCEPT ![c] = a],
                       !.last_pong        = [@ EXCEPT ![c] = n]]
  BY Zenon DEF RegisterClient
<1> HIDE DEF base, q
<1>3. /\ q.last_pong[c] = n /\ q.data_channels = base.data_channels
      /\ \A t \in ClientId \ {c} :
            q.addresses[t] = base.addresses[t] /\ q.last_pong[t] = base.last_pong[t]
  BY ZenonT(60), <1>1, <1>2 DEF Registry
<1>4. /\ q \in Registry /\ UniqueAddresses(q)
      /\ q.addresses[c] = a
      /\ q.peer_connections \subseteq r.peer_connections \cup {c}
      /\ q.data_channels \subseteq r.data_channels
      /\ \A t \in ClientId \ {c} : /\ q.addresses[t] \in {r.addresses[t], None}
                                   /\ q.last_pong[t] \in {r.last_pong[t], None}
  BY RegisterClientEvicts DEF q
<1>5. \A t \in ClientId \ {c} :
         /\ q.addresses[t] # None => q.last_pong[t] = r.last_pong[t]
         /\ r.addresses[t] # a =>
               /\ q.addresses[t] = r.addresses[t]
               /\ q.last_pong[t] = r.last_pong[t]
               /\ t \in r.data_channels => t \in q.data_channels
  BY Zenon, <1>1, <1>3
<1>6. Replaced(q, r, c, a, n)
  BY Zenon, <1>3, <1>4, <1>5 DEF Replaced
<1> QED
  BY Zenon, <1>6 DEF q

\* join_room admits at most RoomLimit members to a room.
LEMMA JoinRoomWithinLimit ==
    ASSUME NEW r \in Registry, NEW c \in ClientId, NEW k \in Key
    PROVE  /\ JoinRoom(r, c, k) \in Registry
           /\ Cardinality(r.room_members[k]) <= RoomLimit
                 => Cardinality(JoinRoom(r, c, k).room_members[k]) <= RoomLimit
           /\ JoinRoom(r, c, k).room_members[k] \subseteq r.room_members[k] \cup {c}
           /\ SameCalls(r, JoinRoom(r, c, k))
           /\ JoinRoom(r, c, k).room_speakers = r.room_speakers
           /\ \A q \in Key \ {k} : JoinRoom(r, c, k).room_members[q] = r.room_members[q]
<1> DEFINE m == r.room_members[k]
           added == IF RoomIsFull(r, c, k) THEN {} ELSE {c}
<1>1. m \in SUBSET ClientId
  BY Zenon DEF Registry
<1>2. JoinRoom(r, c, k) \in Registry
  <2> DEFINE members == [r.room_members EXCEPT ![k] = m \cup added]
             rooms == r.rooms \cup {k}
  <2>1. m \cup added \in SUBSET ClientId
    BY Zenon, <1>1
  <2>2. members \in [Key -> SUBSET ClientId] /\ rooms \in SUBSET Key
    BY Zenon, <2>1 DEF Registry
  <2>3. JoinRoom(r, c, k) = [r EXCEPT !.rooms = rooms, !.room_members = members]
    BY Zenon DEF JoinRoom
  <2> HIDE DEF members, rooms
  <2> QED
    BY ZenonT(60), <2>2, <2>3 DEF Registry
<1>3. IsFiniteSet(m) /\ Cardinality(m) \in Nat
  BY Zenon, <1>1, LimitsAssumption, FS_Subset, FS_CardinalityType
<1>4. c \notin m => Cardinality(m \cup {c}) = Cardinality(m) + 1
  BY Zenon, <1>3, FS_AddElement
<1>5. JoinRoom(r, c, k).room_members[k] = m \cup (IF RoomIsFull(r, c, k) THEN {} ELSE {c})
  BY Zenon DEF JoinRoom, Registry
<1>6. /\ SameCalls(r, JoinRoom(r, c, k))
      /\ JoinRoom(r, c, k).room_speakers = r.room_speakers
      /\ \A q \in Key \ {k} : JoinRoom(r, c, k).room_members[q] = r.room_members[q]
  BY Zenon DEF JoinRoom, Registry, SameCalls
<1>7. JoinRoom(r, c, k).room_members[k] \subseteq m \cup {c}
  BY Zenon, <1>5
<1>8. ASSUME Cardinality(m) <= RoomLimit
      PROVE  Cardinality(JoinRoom(r, c, k).room_members[k]) <= RoomLimit
  <2>1. CASE RoomIsFull(r, c, k)
    <3>1. JoinRoom(r, c, k).room_members[k] = m
      BY Zenon, <1>5, <2>1
    <3> QED
      BY Zenon, <1>8, <3>1
  <2>2. CASE ~RoomIsFull(r, c, k) /\ c \in m
    <3>1. m \cup {c} = m
      BY Zenon, <2>2
    <3> QED
      BY Zenon, <1>5, <1>8, <2>2, <3>1
  <2>3. CASE ~RoomIsFull(r, c, k) /\ c \notin m
    BY <1>3, <1>4, <1>5, <1>8, <2>3, LimitsAssumption DEF RoomIsFull
  <2> QED
    BY Zenon, <2>1, <2>2, <2>3
<1> QED
  BY Zenon, <1>2, <1>6, <1>7, <1>8

\* leave_room only removes the client from the room and from its speakers.
LEMMA LeaveRoomForgets ==
    ASSUME NEW r \in Registry, NEW c \in ClientId, NEW k \in Key
    PROVE  LeaveRoom(r, c, k) \in Registry /\ OnlyForgets(r, LeaveRoom(r, c, k))
<1> DEFINE members == [r.room_members EXCEPT ![k] = r.room_members[k] \ {c}]
           speakers == [r.room_speakers EXCEPT ![k] = [r.room_speakers[k] EXCEPT ![c] = None]]
<1>1. CASE k \notin r.rooms
  BY Zenon, <1>1 DEF LeaveRoom, OnlyForgets
<1>2. CASE k \in r.rooms
  <2>1. LeaveRoom(r, c, k) = [r EXCEPT !.room_members = members, !.room_speakers = speakers]
    BY Zenon, <1>2 DEF LeaveRoom
  <2>2. /\ members \in [Key -> SUBSET ClientId]
        /\ speakers \in [Key -> [ClientId -> Speaker \cup {None}]]
        /\ \A q \in Key :
              /\ members[q] \subseteq r.room_members[q]
              /\ \A t \in ClientId : speakers[q][t] \in {r.room_speakers[q][t], None}
    BY Zenon DEF Registry
  <2> HIDE DEF members, speakers
  <2> QED
    BY ZenonT(60), <2>1, <2>2 DEF Registry, OnlyForgets
<1> QED
  BY Zenon, <1>1, <1>2

\* The top speakers of a room fit a speaker list.
LEMMA RankingsType ==
    ASSUME NEW r, NEW speakers, NEW T \in TopSets(speakers), NEW list \in Rankings(r, speakers, T)
    PROVE  list \in TopList
<1> DEFINE known == T \cap Registered(r)
<1>1. T \subseteq ClientId /\ Cardinality(T) <= TopK
  BY Zenon DEF TopSets
<1>2. IsFiniteSet(T)
  BY Zenon, <1>1, LimitsAssumption, FS_Subset
<1>3. IsFiniteSet(known) /\ Cardinality(known) <= Cardinality(T)
  BY Zenon, <1>2, FS_Subset, FS_CardinalityType
<1>4. Cardinality(known) \in Nat /\ Cardinality(T) \in Nat
  BY Zenon, <1>2, <1>3, FS_CardinalityType
<1>5. Cardinality(known) \in 0 .. TopK
  BY <1>1, <1>3, <1>4, LimitsAssumption
<1>6. list \in [1 .. Cardinality(known) -> Address]
  BY Zenon DEF Rankings
<1> QED
  BY Zenon, <1>5, <1>6 DEF TopList

\* update_speaker_energy leaves a registry, for every choice among equally loud
\* speakers, and touches nothing but the speakers of the room.
LEMMA UpdateSpeakersType ==
    ASSUME NEW r \in Registry, NEW c \in ClientId, NEW k \in Key, NEW energy \in Nat,
           NEW now \in Nat, NEW list \in TopList
    PROVE  LET speakers == SpeakersAfter(r, c, k, energy, now)
               q == UpdateSpeakers(r, k, speakers, list)
           IN  /\ q \in Registry
               /\ \A t \in ClientId \ {c} : speakers[t] \in {r.room_speakers[k][t], None}
               /\ SameCalls(r, q)
               /\ q.room_members = r.room_members
               /\ \A z \in Key : q.room_speakers[z] = IF z = k THEN speakers ELSE r.room_speakers[z]
<1> DEFINE speakers == SpeakersAfter(r, c, k, energy, now)
           q == UpdateSpeakers(r, k, speakers, list)
<1>1. \A t \in ClientId : r.room_speakers[k][t] \in Speaker \cup {None}
  BY DEF Registry
<1>2. [energy |-> energy, seen |-> now] \in Speaker
  BY Zenon DEF Speaker
<1>3. /\ speakers \in [ClientId -> Speaker \cup {None}]
      /\ \A t \in ClientId \ {c} : speakers[t] \in {r.room_speakers[k][t], None}
  BY Zenon, <1>1, <1>2 DEF SpeakersAfter
<1> HIDE DEF speakers
<1>4. q \in Registry
  BY Zenon, <1>3 DEF UpdateSpeakers, Registry
<1>5. /\ SameCalls(r, q)
      /\ q.room_members = r.room_members
      /\ \A z \in Key : q.room_speakers[z] = IF z = k THEN speakers ELSE r.room_speakers[z]
  BY Zenon DEF UpdateSpeakers, Registry, SameCalls
<1> QED
  BY Zenon, <1>3, <1>4, <1>5 DEF speakers

=============================================================================
