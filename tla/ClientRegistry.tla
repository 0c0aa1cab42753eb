--------------------------- MODULE ClientRegistry ---------------------------
(***************************************************************************)
(* The daemon's ClientRegistry (registry.rs, registry/client.rs,           *)
(* registry/room.rs): one record of maps behind one RwLock.  A method that *)
(* takes &self is a predicate or a set of a registry r; a method that      *)
(* takes &mut self is the registry it leaves behind.  Every method runs    *)
(* under one acquisition of the lock, so each is atomic; what is not       *)
(* atomic is the sequence of methods a handler calls (module DataChannel). *)
(*                                                                         *)
(* A HashMap is a total function whose value is None (or the empty set)    *)
(* where the map has no entry; a Vec that is only ever searched and never  *)
(* holds an element twice is a set.  connected_at is written and never     *)
(* read, and is left out.                                                  *)
(***************************************************************************)
EXTENDS Integers, FiniteSets

CONSTANTS
    ClientId,           \* client_id: one per accepted SDP offer, never reused
    Address,            \* full 64-digit user and room addresses
    ShortId,            \* short IDs as they arrive on the wire (zero padded)
    Expands,            \* <<a, k>>: k is a short ID and a starts with it
    None,
    TopK,               \* loudest speakers of a room that are forwarded (3)
    RoomLimit,          \* members join_room admits (50)
    KeepAliveTimeout,   \* ticks without a pong that make a client stale (30 s)
    SpeakerWindow       \* ticks a silent speaker is remembered (3 s)

\* What may stand where the code has a UserAddress received from a client.
Key == Address \cup ShortId

ASSUME KeysAssumption ==
    /\ None \notin ClientId \cup Key
    /\ Address \cap ShortId = {}
    /\ Expands \subseteq Key \X ShortId

ASSUME LimitsAssumption ==
    /\ IsFiniteSet(ClientId)
    /\ {TopK, RoomLimit, KeepAliveTimeout, SpeakerWindow} \subseteq Nat

-----------------------------------------------------------------------------
\* The state of the registry.

TopList == UNION {[1 .. n -> Address] : n \in 0 .. TopK}

Speaker == [energy : Nat, seen : Nat]

Registry ==
    [ peer_connections    : SUBSET ClientId,
      addresses           : [ClientId -> Address \cup {None}],
      targets             : [ClientId -> Key \cup {None}],
      data_channels       : SUBSET ClientId,
      approved_calls      : [ClientId -> SUBSET Key],
      rejected_calls      : [ClientId -> SUBSET Key],
      notified_requests   : [ClientId -> SUBSET ClientId],
      rooms               : SUBSET Key,                  \* keys of room_members
      room_members        : [Key -> SUBSET ClientId],
      room_speakers       : [Key -> [ClientId -> Speaker \cup {None}]],
      prev_top_k_speakers : [Key -> TopList \cup {None}],
      last_pong           : [ClientId -> Nat \cup {None}] ]

EmptyRegistry ==
    [ peer_connections    |-> {},
      addresses           |-> [c \in ClientId |-> None],
      targets             |-> [c \in ClientId |-> None],
      data_channels       |-> {},
      approved_calls      |-> [c \in ClientId |-> {}],
      rejected_calls      |-> [c \in ClientId |-> {}],
      notified_requests   |-> [c \in ClientId |-> {}],
      rooms               |-> {},
      room_members        |-> [k \in Key |-> {}],
      room_speakers       |-> [k \in Key |-> [c \in ClientId |-> None]],
      prev_top_k_speakers |-> [k \in Key |-> None],
      last_pong           |-> [c \in ClientId |-> None] ]

\* The clients that have an entry in `addresses`.
Registered(r) == {c \in ClientId : r.addresses[c] # None}

-----------------------------------------------------------------------------
\* Addresses.  A short ID matches every address that starts with it; a full
\* address matches itself.  None matches nothing.

MatchesPrefix(a, k) == a = k \/ <<a, k>> \in Expands

\* Either of the two names the other: how a stored target is compared.
SameParty(a, b) == MatchesPrefix(a, b) \/ MatchesPrefix(b, a)

\* The clients an address or short ID resolves to: none is NotFound, one is
\* Found, more are Ambiguous.
FindMatches(r, k) == {c \in ClientId : MatchesPrefix(r.addresses[c], k)}

Found(r, k) == {c \in ClientId : FindMatches(r, k) = {c}}

-----------------------------------------------------------------------------
\* Call sessions.

IsClientInRoom(r, c, k) ==
    \/ MatchesPrefix(r.addresses[c], k)
    \/ r.targets[c] # None /\ SameParty(r.targets[c], k)

Participants(r, k) == {c \in Registered(r) : IsClientInRoom(r, c, k)}

IsClientInSameCall(r, c, k) ==
    \/ IsClientInRoom(r, c, k)
    \/ /\ c \in Registered(r)
       /\ \E t \in FindMatches(r, k) :
              r.targets[t] # None /\ SameParty(r.targets[t], r.addresses[c])

IsRoomOrTargetFull(r, k) ==
    \/ Cardinality(Participants(r, k)) >= 2
    \/ \E t \in FindMatches(r, k) :
           /\ r.targets[t] # None
           /\ ~MatchesPrefix(r.targets[t], k)
           /\ Cardinality(Participants(r, r.targets[t])) >= 2

MarkCallApproved(r, t, a) == [r EXCEPT !.approved_calls[t] = @ \cup {a}]

MarkCallRejected(r, t, a) == [r EXCEPT !.rejected_calls[t] = @ \cup {a}]

MarkNotified(r, t, c) == [r EXCEPT !.notified_requests[t] = @ \cup {c}]

\* Mutant: the party that hangs up keeps its own target.
ClearTheirSession(r, c, k) ==
    [r EXCEPT !.targets = [t \in ClientId |-> IF t \in Found(r, k) THEN None ELSE @[t]]]

\* Ends every call of c with k: forgets both parties' targets, every target
\* that names either of them, and the approvals, rejections and
\* notifications between the two.
ClearCallSession(r, c, k) ==
    LET peer == Found(r, k)
        mine == r.addresses[c]
        named(a) == MatchesPrefix(a, k) \/ (mine # None /\ MatchesPrefix(a, mine))
        forget(lists) ==
            [t \in ClientId |-> lists[t] \ ((IF t = c THEN {k} ELSE {})
                                    \cup (IF t \in peer THEN {mine} ELSE {}))]
    IN  [r EXCEPT
           !.targets = [t \in ClientId |->
                            IF t = c \/ t \in peer \/ named(@[t]) THEN None ELSE @[t]],
           !.approved_calls = forget(@),
           !.rejected_calls = forget(@),
           !.notified_requests =
               [t \in ClientId |-> @[t] \ ((IF t \in peer THEN {c} ELSE {})
                                   \cup (IF t = c THEN peer ELSE {}))]]

-----------------------------------------------------------------------------
\* Registration.

\* The entries of the per-client maps.
RemoveEntries(r, c) ==
    [r EXCEPT !.peer_connections  = @ \ {c},
              !.addresses         = [@ EXCEPT ![c] = None],
              !.targets           = [@ EXCEPT ![c] = None],
              !.data_channels     = @ \ {c},
              !.approved_calls    = [@ EXCEPT ![c] = {}],
              !.rejected_calls    = [@ EXCEPT ![c] = {}],
              !.notified_requests = [@ EXCEPT ![c] = {}],
              !.last_pong         = [@ EXCEPT ![c] = None]]

\* The entries are removed before the call session is cleared, so
\* clear_call_session no longer knows the address of the client that leaves.
UnregisterClient(r, c) ==
    LET gone  == RemoveEntries(r, c)
        ended == IF r.targets[c] = None THEN gone
                                        ELSE ClearCallSession(gone, c, r.targets[c])
    IN  [ended EXCEPT
           !.approved_calls = [t \in ClientId |-> @[t] \ {r.addresses[c]}],
           !.rejected_calls = [t \in ClientId |-> @[t] \ {r.addresses[c]}],
           !.room_members   = [k \in Key |-> @[k] \ {c}],
           !.room_speakers  = [k \in Key |-> [@[k] EXCEPT ![c] = None]]]

\* Mutant: does not evict.
RegisterOnly(r, c, a, now) ==
    [r EXCEPT !.peer_connections = @ \cup {c},
              !.addresses        = [@ EXCEPT ![c] = a],
              !.last_pong        = [@ EXCEPT ![c] = now]]

\* A client that registers an address evicts whoever held it.  At most one
\* client does (AddressUnique of module DataChannel), so the loop over
\* old_cids runs at most once.
RegisterClient(r, c, a, now) ==
    LET old  == {o \in ClientId \ {c} : r.addresses[o] = a}
        base == IF old = {} THEN r ELSE UnregisterClient(r, CHOOSE o \in old : TRUE)
    IN  [base EXCEPT !.peer_connections = @ \cup {c},
                     !.addresses        = [@ EXCEPT ![c] = a],
                     !.last_pong        = [@ EXCEPT ![c] = now]]

\* Mutant: off by one.
StaleClientsLater(r, now) ==
    {c \in ClientId : r.last_pong[c] # None /\ now - r.last_pong[c] > KeepAliveTimeout}

StaleClients(r, now) ==
    {c \in ClientId : r.last_pong[c] # None /\ now - r.last_pong[c] >= KeepAliveTimeout}

-----------------------------------------------------------------------------
\* Rooms.

\* The entry of room_members a room address resolves to; where several keys
\* match a short ID the HashMap's iteration order decides.
RoomKeys(r, k) ==
    LET known == {q \in r.rooms : MatchesPrefix(q, k)}
    IN  IF known = {} THEN {k} ELSE known

\* Mutant: off by one.
RoomIsOverfull(r, c, k) ==
    c \notin r.room_members[k] /\ Cardinality(r.room_members[k]) > RoomLimit

RoomIsFull(r, c, k) ==
    c \notin r.room_members[k] /\ Cardinality(r.room_members[k]) >= RoomLimit

JoinRoom(r, c, k) ==
    [r EXCEPT !.rooms        = @ \cup {k},
              !.room_members = [@ EXCEPT ![k] =
                  r.room_members[k] \cup (IF RoomIsFull(r, c, k) THEN {} ELSE {c})]]

\* A room nobody ever joined has no entry, and nothing is removed from it.
LeaveRoom(r, c, k) ==
    IF k \notin r.rooms THEN r
    ELSE [r EXCEPT !.room_members  = [@ EXCEPT ![k] = r.room_members[k] \ {c}],
                   !.room_speakers = [@ EXCEPT ![k][c] = None]]

\* The speakers of room k after c spoke with this energy: whoever has been
\* silent for longer than the window is purged.
SpeakersAfter(r, c, k, energy, now) ==
    [s \in ClientId |->
        LET e == IF s = c THEN [energy |-> energy, seen |-> now] ELSE r.room_speakers[k][s]
        IN  IF e # None /\ now - e.seen > SpeakerWindow THEN None ELSE e]

\* Mutant: sorts in ascending order.
BottomSets(speakers) ==
    LET active == {s \in ClientId : speakers[s] # None}
    IN  {T \in SUBSET active :
            /\ Cardinality(T) <= TopK
            /\ T # active => Cardinality(T) = TopK
            /\ \A s \in T, o \in active \ T : speakers[s].energy <= speakers[o].energy}

\* The sets of clients sort_by(energy descending).take(3) may keep: the order
\* of equally loud speakers is the HashMap's.
TopSets(speakers) ==
    LET active == {s \in ClientId : speakers[s] # None}
    IN  {T \in SUBSET active :
            /\ Cardinality(T) <= TopK
            /\ T # active => Cardinality(T) = TopK
            /\ \A s \in T, o \in active \ T : speakers[s].energy >= speakers[o].energy}

\* The address lists such a choice yields: the loudest first, speakers that
\* are no longer registered skipped.
Rankings(r, speakers, T) ==
    LET known == T \cap Registered(r)
    IN  {L \in [1 .. Cardinality(known) -> Address] :
            /\ {L[i] : i \in DOMAIN L} = {r.addresses[s] : s \in known}
            /\ \A s, o \in known : \A i, j \in DOMAIN L :
                   (i < j /\ L[i] = r.addresses[s] /\ L[j] = r.addresses[o])
                       => speakers[s].energy >= speakers[o].energy}

SpeakerListChanged(r, k, list) ==
    IF r.prev_top_k_speakers[k] = None THEN list # << >>
                                       ELSE r.prev_top_k_speakers[k] # list

UpdateSpeakers(r, k, speakers, list) ==
    [r EXCEPT !.room_speakers = [@ EXCEPT ![k] = speakers],
              !.prev_top_k_speakers =
                  IF SpeakerListChanged(r, k, list) THEN [@ EXCEPT ![k] = list] ELSE @]

=============================================================================
