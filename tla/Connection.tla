----------------------------- MODULE Connection -----------------------------
(***************************************************************************)
(* The life of a client connection: handle_sdp_offer and the callbacks of  *)
(* connection/handshake.rs, the handshake timeout it spawns, and the       *)
(* keep-alive task of connection/keepalive.rs.                             *)
(*                                                                         *)
(* An SDP offer, a handshake timeout and the keep-alive task each take the *)
(* registry's lock several times and await in between; each acquisition is *)
(* an action.  A tick is five seconds.  The tasks get to run between any   *)
(* two ticks, and a client that answers does so before the next one: time  *)
(* does not pass while any of them has something to do (Busy).             *)
(***************************************************************************)
EXTENDS ClientRegistry

CONSTANTS
    MaxConnections,     \* server.max_connections
    HandshakeTimeout,   \* ticks until a channel must be open (15 s)
    PingInterval,       \* ticks between two pings (10 s)
    MaxOffers,          \* bound: offers handled at the same time
    MaxFaults,          \* bound: offers that fail and clients that fall silent
    LastEvent,          \* bound: when the last offer arrives or client falls silent
    MaxTime             \* bound: clock ticks in a behaviour

\* A channel that opens just before the handshake times out still sees a ping
\* before its client counts as stale: 15 s + 10 s < 30 s.
ASSUME TimeoutsAssumption ==
    /\ {MaxConnections, HandshakeTimeout, PingInterval,
        MaxFaults, LastEvent, MaxTime} \subseteq Nat
    /\ MaxOffers \in Nat \ {0}
    /\ HandshakeTimeout + PingInterval < KeepAliveTimeout

ASSUME IdsAssumption == ClientId \subseteq Nat /\ None \notin Nat

VARIABLES
    reg,        \* CLIENT_REGISTRY
    now,
    offer,      \* how far the handler of the client's SDP offer has got
    identity,   \* the address the offer was signed with
    pc,         \* the PeerConnection
    chan,       \* the data channel
    timer,      \* the handshake timeout task, and when it is due
    keeper,     \* the keep-alive task
    owed,       \* clients that have been pinged and have not answered yet
    alive       \* clients that still answer

cvars == <<reg, now, offer, identity, pc, chan, timer, keeper, owed, alive>>

ConnInit ==
    /\ reg      = EmptyRegistry
    /\ now      = 0
    /\ offer    = [c \in ClientId |-> "none"]
    /\ identity = [c \in ClientId |-> None]
    /\ pc       = [c \in ClientId |-> "none"]
    /\ chan     = [c \in ClientId |-> "none"]
    /\ timer    = [c \in ClientId |-> [at |-> "off", due |-> 0]]
    /\ keeper   = [at |-> "sleep", due |-> 0, stale |-> {}, cur |-> None]
    /\ owed     = {}
    /\ alive    = [c \in ClientId |-> TRUE]

-----------------------------------------------------------------------------
\* handle_sdp_offer.

MayFail == Cardinality({c \in ClientId : offer[c] = "failed" \/ ~alive[c]}) < MaxFaults

Checked == {c \in ClientId : offer[c] = "checked"}

\* client_ids are handed out in order.
NextId(c) == offer[c] = "none" /\ \A d \in ClientId : d < c => offer[d] # "none"

\* Mutant: off by one.
OfferIfNotOver(c, a) ==
    /\ NextId(c) /\ now <= LastEvent
    /\ Cardinality(reg.peer_connections) <= MaxConnections
    /\ Cardinality(Checked) < MaxOffers
    /\ identity' = [identity EXCEPT ![c] = a]
    /\ offer' = [offer EXCEPT ![c] = "checked"]
    /\ UNCHANGED <<reg, now, pc, chan, timer, keeper, owed, alive>>

\* The signature is verified and the number of connections compared with the
\* limit; the lock is released before the connection is built.  An offer that
\* is refused changes nothing.
Offer(c, a) ==
    /\ NextId(c) /\ now <= LastEvent
    /\ Cardinality(reg.peer_connections) < MaxConnections
    /\ Cardinality(Checked) < MaxOffers
    /\ identity' = [identity EXCEPT ![c] = a]
    /\ offer' = [offer EXCEPT ![c] = "checked"]
    /\ UNCHANGED <<reg, now, pc, chan, timer, keeper, owed, alive>>

\* The connection is registered and its handshake timeout started; building it
\* may fail.
Register(c) ==
    /\ offer[c] = "checked"
    /\ \/ /\ MayFail
          /\ offer' = [offer EXCEPT ![c] = "failed"]
          /\ UNCHANGED <<reg, pc, timer>>
       \/ /\ offer' = [offer EXCEPT ![c] = "registered"]
          /\ reg' = RegisterClient(reg, c, identity[c], now)
          /\ pc' = [pc EXCEPT ![c] = "up"]
          /\ timer' = [timer EXCEPT ![c] = [at |-> "armed", due |-> now + HandshakeTimeout]]
    /\ UNCHANGED <<now, identity, chan, keeper, owed, alive>>

\* The descriptions are exchanged.  A failure returns an error to the client and
\* leaves the registration to the timeout.
Negotiate(c) ==
    /\ offer[c] = "registered"
    /\ \/ offer' = [offer EXCEPT ![c] = "answered"]
       \/ MayFail /\ offer' = [offer EXCEPT ![c] = "failed"]
    /\ UNCHANGED <<reg, now, identity, pc, chan, timer, keeper, owed, alive>>

-----------------------------------------------------------------------------
\* Callbacks of the connection and of the event loop.

\* on_data_channel
OpenChannel(c) ==
    /\ offer[c] = "answered" /\ pc[c] = "up" /\ chan[c] = "none" /\ alive[c]
    /\ chan' = [chan EXCEPT ![c] = "open"]
    /\ reg' = [reg EXCEPT !.data_channels = @ \cup {c}]
    /\ UNCHANGED <<now, offer, identity, pc, timer, keeper, owed, alive>>

\* The client leaves, crashes or loses its network.
FallSilent(c) ==
    /\ alive[c] /\ offer[c] # "none" /\ MayFail /\ now <= LastEvent
    /\ alive' = [alive EXCEPT ![c] = FALSE]
    /\ UNCHANGED <<reg, now, offer, identity, pc, chan, timer, keeper, owed>>

\* on_connection_state_change: to Failed, Disconnected or Closed, should the
\* connection notice that the client is gone, or to Closed after close().
StateChange(c) ==
    /\ pc[c] = "closing" \/ (pc[c] = "up" /\ ~alive[c])
    /\ pc' = [pc EXCEPT ![c] = "down"]
    /\ reg' = UnregisterClient(reg, c)
    /\ UNCHANGED <<now, offer, identity, chan, timer, keeper, owed, alive>>

\* The event loop's channel closes.
CloseChannel(c) ==
    /\ chan[c] = "open" /\ (pc[c] = "down" \/ ~alive[c])
    /\ chan' = [chan EXCEPT ![c] = "closed"]
    /\ reg' = UnregisterClient(reg, c)
    /\ UNCHANGED <<now, offer, identity, pc, timer, keeper, owed, alive>>

\* Mutant: a pong is not recorded.
PongIgnored(c) ==
    /\ c \in owed /\ alive[c] /\ chan[c] = "open"
    /\ owed' = owed \ {c}
    /\ UNCHANGED <<reg, now, offer, identity, pc, chan, timer, keeper, alive>>

\* The event loop receives the answer to a ping.
Pong(c) ==
    /\ c \in owed /\ alive[c] /\ chan[c] = "open"
    /\ owed' = owed \ {c}
    /\ reg' = [reg EXCEPT !.last_pong[c] = now]
    /\ UNCHANGED <<now, offer, identity, pc, chan, timer, keeper, alive>>

\* Another client calls a client that has become stale (AudioStale and
\* AudioEvict of module DataChannel, taken together here).
EvictStale(c) ==
    /\ c \in Registered(reg) /\ c \in StaleClients(reg, now)
    /\ reg' = UnregisterClient(reg, c)
    /\ UNCHANGED <<now, offer, identity, pc, chan, timer, keeper, owed, alive>>

-----------------------------------------------------------------------------
\* The handshake timeout: reads data_channels, closes the connection, and
\* unregisters the client.

Closed(c) == pc' = [pc EXCEPT ![c] = IF @ = "up" THEN "closing" ELSE @]

\* Mutant: skips clients that have left the registry, and closes nothing then.
TimeoutIfRegistered(c) ==
    /\ \/ /\ timer[c].at = "armed" /\ now >= timer[c].due
          /\ timer' = [timer EXCEPT ![c].at =
                 IF c \in reg.data_channels \/ c \notin Registered(reg) THEN "off" ELSE "close"]
          /\ UNCHANGED <<reg, pc>>
       \/ /\ timer[c].at = "close"
          /\ Closed(c)
          /\ timer' = [timer EXCEPT ![c].at = "unregister"]
          /\ UNCHANGED reg
       \/ /\ timer[c].at = "unregister"
          /\ reg' = UnregisterClient(reg, c)
          /\ timer' = [timer EXCEPT ![c].at = "off"]
          /\ UNCHANGED pc
    /\ UNCHANGED <<now, offer, identity, chan, keeper, owed, alive>>

Timeout(c) ==
    /\ \/ /\ timer[c].at = "armed" /\ now >= timer[c].due
          /\ timer' = [timer EXCEPT ![c].at = IF c \in reg.data_channels THEN "off" ELSE "close"]
          /\ UNCHANGED <<reg, pc>>
       \/ /\ timer[c].at = "close"
          /\ Closed(c)
          /\ timer' = [timer EXCEPT ![c].at = "unregister"]
          /\ UNCHANGED reg
       \/ /\ timer[c].at = "unregister"
          /\ reg' = UnregisterClient(reg, c)
          /\ timer' = [timer EXCEPT ![c].at = "off"]
          /\ UNCHANGED pc
    /\ UNCHANGED <<now, offer, identity, chan, keeper, owed, alive>>

-----------------------------------------------------------------------------
\* The keep-alive task.

KeepPing ==
    /\ keeper.at = "sleep" /\ now >= keeper.due
    /\ owed' = owed \cup reg.data_channels
    /\ keeper' = [keeper EXCEPT !.at = "scan", !.due = @ + PingInterval]
    /\ UNCHANGED <<reg, now, offer, identity, pc, chan, timer, alive>>

KeepScan ==
    /\ keeper.at = "scan"
    /\ keeper' = [keeper EXCEPT !.at = "purge", !.stale = StaleClients(reg, now)]
    /\ UNCHANGED <<reg, now, offer, identity, pc, chan, timer, owed, alive>>

\* Mutant: expects the connection of a stale client to be in the registry.
KeepCloseKnown(c) ==
    /\ keeper.at = "purge" /\ c \in keeper.stale /\ c \in reg.peer_connections
    /\ Closed(c)
    /\ keeper' = [keeper EXCEPT !.at = "unregister", !.cur = c]
    /\ UNCHANGED <<reg, now, offer, identity, chan, timer, owed, alive>>

\* close() of one stale client, if the registry still has its connection...
KeepClose(c) ==
    /\ keeper.at = "purge" /\ c \in keeper.stale
    /\ IF c \in reg.peer_connections THEN Closed(c) ELSE UNCHANGED pc
    /\ keeper' = [keeper EXCEPT !.at = "unregister", !.cur = c]
    /\ UNCHANGED <<reg, now, offer, identity, chan, timer, owed, alive>>

\* ... and its unregistration, under another acquisition of the lock.
KeepUnregister ==
    /\ keeper.at = "unregister"
    /\ reg' = UnregisterClient(reg, keeper.cur)
    /\ keeper' = [keeper EXCEPT !.at = "purge", !.cur = None, !.stale = @ \ {keeper.cur}]
    /\ UNCHANGED <<now, offer, identity, pc, chan, timer, owed, alive>>

KeepSleep ==
    /\ keeper.at = "purge" /\ keeper.stale = {}
    /\ keeper' = [keeper EXCEPT !.at = "sleep"]
    /\ UNCHANGED <<reg, now, offer, identity, pc, chan, timer, owed, alive>>

-----------------------------------------------------------------------------
\* Something that takes less than a tick is still to be done.
Busy ==
    \/ keeper.at # "sleep" \/ now >= keeper.due
    \/ \E c \in ClientId :
          \/ offer[c] \in {"checked", "registered"}
          \/ timer[c].at \in {"close", "unregister"}
          \/ timer[c].at = "armed" /\ now >= timer[c].due
          \/ pc[c] = "closing"
          \/ chan[c] = "open" /\ pc[c] = "down"
          \/ c \in owed /\ alive[c] /\ chan[c] = "open"

Tick ==
    /\ now < MaxTime /\ ~Busy
    /\ now' = now + 1
    /\ UNCHANGED <<reg, offer, identity, pc, chan, timer, keeper, owed, alive>>

\* The steps the runtime and the client's answers take by themselves.
Task(c) ==
    Register(c) \/ Negotiate(c) \/ StateChange(c) \/ CloseChannel(c) \/ Pong(c) \/ Timeout(c)

Keeper == KeepPing \/ KeepScan \/ KeepUnregister \/ KeepSleep \/ \E c \in ClientId : KeepClose(c)

ConnNext ==
    \/ \E c \in ClientId : \E a \in Address : Offer(c, a)
    \/ \E c \in ClientId : OpenChannel(c) \/ FallSilent(c) \/ EvictStale(c) \/ Task(c)
    \/ Keeper \/ Tick

ConnSpec == ConnInit /\ [][ConnNext]_cvars

-----------------------------------------------------------------------------
\* The registry, the tasks and the connections are of the types the code
\* declares.
ConnTypeOK ==
    /\ reg \in Registry /\ now \in Nat
    /\ offer \in [ClientId -> {"none", "checked", "failed", "registered", "answered"}]
    /\ identity \in [ClientId -> Address \cup {None}]
    /\ pc \in [ClientId -> {"none", "up", "closing", "down"}]
    /\ chan \in [ClientId -> {"none", "open", "closed"}]
    /\ timer \in [ClientId -> [at : {"off", "armed", "close", "unregister"}, due : Nat]]
    /\ keeper \in [at : {"sleep", "scan", "purge", "unregister"}, due : Nat,
                   stale : SUBSET ClientId, cur : ClientId \cup {None}]
    /\ owed \subseteq ClientId
    /\ alive \in [ClientId -> BOOLEAN]

\* The limit is compared under one acquisition of the lock and the connection
\* entered under another, so offers handled at the same time can exceed it: by
\* at most one less than there are such offers, and not at all if they come one
\* by one.  The counts are of a well-typed registry.
ConnectionsBounded ==
    /\ ConnTypeOK
    /\ Cardinality(reg.peer_connections) + Cardinality(Checked) < MaxConnections + MaxOffers

\* The user has offered another connection, which may have evicted this one:
\* offers handled at the same time register in any order.
Superseded(c) == \E d \in ClientId \ {c} : identity[d] = identity[c]

\* A client that answers its pings is never taken for stale: while its channel
\* is open and its handshake has not timed out it stays registered, however the
\* handshake timeout and the keep-alive task interleave, unless somebody else
\* connects under its address.
AnsweringIsKept ==
    \A c \in ClientId :
        (/\ chan[c] = "open" /\ alive[c] /\ pc[c] = "up" /\ timer[c].at # "close"
         /\ ~Superseded(c))
            => c \in Registered(reg) /\ c \in reg.data_channels

\* Whatever happens to a client, the registry never holds one that has been
\* silent for as long as the keep-alive timeout and one ping interval (40 s):
\* the keep-alive task finds it within one interval of its becoming stale.
SilentIsPurged ==
    \A c \in Registered(reg) :
        reg.last_pong[c] # None /\ now - reg.last_pong[c] < KeepAliveTimeout + PingInterval

\* A connection whose channel does not open is closed when the handshake times
\* out, whether the negotiation failed, the client fell silent, or the client
\* was unregistered by somebody else before.
HandshakeIsPruned ==
    \A c \in ClientId :
        pc[c] = "up" /\ chan[c] = "none" => timer[c].at # "off" /\ now <= timer[c].due

\* No task waits for something another one has taken away: as long as there is
\* something to do before the next tick, some task can do it.
NeverStuck == Busy => ENABLED (Keeper \/ \E c \in ClientId : Task(c))

=============================================================================
