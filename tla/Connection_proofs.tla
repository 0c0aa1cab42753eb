-------------------------- MODULE Connection_proofs --------------------------
(***************************************************************************)
(* The invariants of Connection for any number of clients, any limit and   *)
(* any timeouts with HandshakeTimeout + PingInterval < KeepAliveTimeout:   *)
(* the bound on connections, the pruning of handshakes, the purge of       *)
(* silent clients, and that a client that answers is kept.                 *)
(***************************************************************************)
EXTENDS Connection, ClientRegistry_proofs

\* The states of the keep-alive task.
KeeperState ==
    [at : {"sleep", "scan", "purge", "unregister"}, due : Nat,
     stale : SUBSET ClientId, cur : ClientId \cup {None}]

\* What exists of a connection at each stage of its offer: nothing but its
\* address before it is registered.
OffersInv ==
    \A c \in ClientId :
        /\ offer[c] = "none" => identity[c] = None
        /\ offer[c] # "none" => identity[c] \in Address
        /\ offer[c] \in {"none", "checked"} =>
              /\ pc[c] = "none" /\ chan[c] = "none" /\ timer[c].at = "off"
              /\ reg.addresses[c] = None /\ reg.last_pong[c] = None
              /\ c \notin keeper.stale
        /\ reg.addresses[c] \in {None, identity[c]}

\* The registry knows a channel only when there is one, and the timeout
\* unregisters a client only after it has closed the connection.
TimersInv ==
    \A c \in ClientId :
        /\ c \in reg.data_channels => chan[c] # "none"
        /\ timer[c].at = "unregister" => pc[c] # "up"

\* The rounds of the keep-alive task: the next one is at most an interval
\* away, and during a round no time passes.
RoundInv ==
    /\ now <= keeper.due /\ keeper.due <= now + PingInterval
    /\ keeper.at # "sleep" => keeper.due = now + PingInterval
    /\ keeper.at = "unregister" => keeper.cur \in keeper.stale

\* How old the last answer of a registered client can be: the last complete
\* round, at due - PingInterval, has left none that was stale then.
FreshInv ==
    \A c \in Registered(reg) :
        /\ reg.last_pong[c] # None
        /\ keeper.at = "sleep" => keeper.due - PingInterval - reg.last_pong[c] < KeepAliveTimeout
        /\ keeper.at # "sleep" => now - reg.last_pong[c] < KeepAliveTimeout + PingInterval
        /\ keeper.at \in {"purge", "unregister"} =>
              c \in keeper.stale \/ now - reg.last_pong[c] < KeepAliveTimeout

\* A connection whose channel may still open, or whose client answers.
Live(c) ==
    /\ pc[c] = "up" /\ ~Superseded(c)
    /\ chan[c] = "none" \/ (chan[c] = "open" /\ alive[c] /\ timer[c].at # "close")

\* It is registered and nobody is about to purge it: until the channel opens it
\* was registered at most a handshake timeout ago, and from then on it has
\* answered, or will be pinged, within that and a ping interval.
LiveInv ==
    \A c \in ClientId : Live(c) =>
        /\ c \in Registered(reg) /\ c \notin keeper.stale
        /\ chan[c] = "none" => timer[c].due <= reg.last_pong[c] + HandshakeTimeout
        /\ chan[c] = "open" =>
              /\ c \in reg.data_channels
              /\ (IF c \in owed THEN now ELSE keeper.due) - reg.last_pong[c]
                    <= HandshakeTimeout + PingInterval

ConnInv ==
    /\ ConnectionsBounded /\ HandshakeIsPruned /\ UniqueAddresses(reg)
    /\ OffersInv /\ TimersInv /\ RoundInv /\ FreshInv /\ LiveInv

-----------------------------------------------------------------------------
\* Whether a client is superseded depends on the addresses of the offers only.
LEMMA SupersededStays ==
    ASSUME UNCHANGED identity
    PROVE  \A d \in ClientId : Superseded(d)' <=> Superseded(d)
  BY Zenon DEF Superseded

\* The sets that are counted are finite.
LEMMA CountsAreFinite ==
    ASSUME ConnTypeOK
    PROVE  /\ IsFiniteSet(reg.peer_connections) /\ IsFiniteSet(Checked)
           /\ Cardinality(reg.peer_connections) \in Nat /\ Cardinality(Checked) \in Nat
<1>1. reg.peer_connections \subseteq ClientId
  BY Zenon DEF ConnTypeOK, Registry
<1>2. Checked \subseteq ClientId
  BY Zenon DEF Checked
<1> QED
  BY Zenon, <1>1, <1>2, LimitsAssumption, FS_Subset, FS_CardinalityType

\* A step that registers nobody and checks no offer keeps the bound.
LEMMA BoundStays ==
    ASSUME ConnectionsBounded, ConnTypeOK',
           reg'.peer_connections \subseteq reg.peer_connections, Checked' \subseteq Checked
    PROVE  ConnectionsBounded'
<1>1. /\ IsFiniteSet(reg.peer_connections) /\ IsFiniteSet(Checked)
      /\ Cardinality(reg.peer_connections) \in Nat /\ Cardinality(Checked) \in Nat
  BY Zenon, CountsAreFinite DEF ConnectionsBounded
<1>2. /\ Cardinality(reg'.peer_connections) <= Cardinality(reg.peer_connections)
      /\ Cardinality(reg'.peer_connections) \in Nat
  BY Zenon, <1>1, FS_Subset, FS_CardinalityType
<1>3. Cardinality(Checked') <= Cardinality(Checked) /\ Cardinality(Checked') \in Nat
  BY Zenon, <1>1, FS_Subset, FS_CardinalityType
<1> QED
  BY <1>1, <1>2, <1>3, TimeoutsAssumption DEF ConnectionsBounded

\* The types of what is compared with the clock.
LEMMA TimesAreNumbers ==
    ASSUME ConnTypeOK
    PROVE  /\ now \in Nat /\ keeper.due \in Nat /\ PingInterval \in Nat
           /\ HandshakeTimeout \in Nat /\ KeepAliveTimeout \in Nat
           /\ HandshakeTimeout + PingInterval < KeepAliveTimeout
           /\ \A c \in ClientId : /\ timer[c].due \in Nat
                                  /\ reg.last_pong[c] # None => reg.last_pong[c] \in Nat
  BY ZenonT(60), TimeoutsAssumption, LimitsAssumption DEF ConnTypeOK, Registry

\* A live connection is not stale: not before its channel opens, since its
\* handshake would have timed out, and not later, since it answers its pings.
LEMMA LiveIsFresh ==
    ASSUME ConnInv, NEW c \in ClientId, Live(c)
    PROVE  c \notin StaleClients(reg, now)
<1> DEFINE lp == reg.last_pong[c]
<1>1. /\ now \in Nat /\ keeper.due \in Nat /\ PingInterval \in Nat
      /\ HandshakeTimeout \in Nat /\ KeepAliveTimeout \in Nat
      /\ HandshakeTimeout + PingInterval < KeepAliveTimeout
      /\ timer[c].due \in Nat
      /\ lp # None => lp \in Nat
  BY Zenon, TimesAreNumbers DEF ConnInv, ConnectionsBounded
<1>2. lp # None
  BY Zenon DEF ConnInv, LiveInv, FreshInv
<1>3. now <= keeper.due
  BY Zenon DEF ConnInv, RoundInv
<1>4. CASE chan[c] = "none"
  <2>1. timer[c].due <= lp + HandshakeTimeout
    BY Zenon, <1>4 DEF ConnInv, LiveInv
  <2>2. now <= timer[c].due
    BY Zenon, <1>4 DEF ConnInv, HandshakeIsPruned, Live
  <2> QED
    BY <1>1, <1>2, <2>1, <2>2 DEF StaleClients
<1>5. CASE chan[c] = "open"
  <2>1. (IF c \in owed THEN now ELSE keeper.due) - lp <= HandshakeTimeout + PingInterval
    BY Zenon, <1>5 DEF ConnInv, LiveInv
  <2> QED
    BY <1>1, <1>2, <1>3, <2>1 DEF StaleClients
<1> QED
  BY Zenon, <1>4, <1>5 DEF Live

\* The registry without c.
Gone(c) ==
    /\ reg' \in Registry
    /\ reg'.peer_connections = reg.peer_connections \ {c}
    /\ reg'.data_channels = reg.data_channels \ {c}
    /\ \A t \in ClientId :
          /\ reg'.addresses[t] = IF t = c THEN None ELSE reg.addresses[t]
          /\ reg'.last_pong[t] = IF t = c THEN None ELSE reg.last_pong[t]

\* unregister_client leaves the registry without the client.
LEMMA GoneAfter ==
    ASSUME ConnTypeOK, NEW c \in ClientId, reg' = UnregisterClient(reg, c)
    PROVE  Gone(c)
<1>1. reg \in Registry
  BY Zenon DEF ConnTypeOK
<1> QED
  BY <1>1, UnregisterKeeps DEF Gone

\* An offer that passes the checks is counted before the next one is, and
\* supersedes only connections of the same address.
LEMMA OfferKeeps ==
    ASSUME ConnInv, NEW c \in ClientId, NEW a \in Address, Offer(c, a)
    PROVE  ConnInv'
<1> DEFINE conns == Cardinality(reg.peer_connections)
<1>a. a # None
  BY Zenon, KeysAssumption DEF Key
<1>o. /\ offer[c] = "none" /\ identity'[c] = a /\ offer'[c] = "checked"
      /\ \A d \in ClientId \ {c} : identity'[d] = identity[d] /\ offer'[d] = offer[d]
      /\ offer' \in [ClientId -> {"none", "checked", "failed", "registered", "answered"}]
      /\ identity' \in [ClientId -> Address \cup {None}]
      /\ conns < MaxConnections /\ Cardinality(Checked) < MaxOffers
  BY Zenon DEF Offer, NextId, ConnInv, ConnectionsBounded, ConnTypeOK
<1>c. pc[c] = "none" /\ identity[c] = None
  BY Zenon, <1>o DEF ConnInv, OffersInv
<1>u. UNCHANGED <<reg, now, pc, chan, timer, keeper, owed, alive>>
  BY Zenon DEF Offer
<1>1. ConnTypeOK'
  BY Zenon, <1>o, <1>u DEF ConnInv, ConnectionsBounded, ConnTypeOK
<1>2. ConnectionsBounded'
  <2>1. IsFiniteSet(Checked) /\ conns \in Nat /\ Cardinality(Checked) \in Nat
    BY Zenon, CountsAreFinite DEF ConnInv, ConnectionsBounded
  <2>2. Checked' = Checked \cup {c} /\ c \notin Checked
    BY Zenon, <1>o DEF Checked
  <2>3. Cardinality(Checked') = Cardinality(Checked) + 1
    BY Zenon, <2>1, <2>2, FS_AddElement
  <2> QED
    BY <1>1, <1>o, <1>u, <2>1, <2>3, TimeoutsAssumption DEF ConnectionsBounded
<1>3. HandshakeIsPruned' /\ UniqueAddresses(reg') /\ TimersInv' /\ RoundInv' /\ FreshInv'
  BY Zenon, <1>u DEF ConnInv, HandshakeIsPruned, TimersInv, RoundInv, FreshInv, Registered
<1>4. OffersInv'
  BY <1>o, <1>c, <1>u DEF ConnInv, OffersInv
<1>5. LiveInv'
  <2> SUFFICES ASSUME NEW d \in ClientId, Live(d)'
               PROVE  Live(d)
    BY Zenon, <1>u DEF ConnInv, LiveInv, Registered
  <2>1. pc[d] = "up" /\ d # c
    BY Zenon, <1>c, <1>u DEF Live
  <2>2. identity[d] # None
    BY Zenon, <2>1, KeysAssumption DEF ConnInv, OffersInv, Key
  <2>3. ~Superseded(d)
    BY Zenon, <1>o, <1>c, <2>1, <2>2 DEF Live, Superseded
  <2> QED
    BY Zenon, <1>u, <2>3 DEF Live
<1> QED
  BY Zenon, <1>2, <1>3, <1>4, <1>5 DEF ConnInv

\* The two outcomes of Register.
Registers(c) ==
    /\ offer[c] = "checked" /\ offer' = [offer EXCEPT ![c] = "registered"]
    /\ reg' = RegisterClient(reg, c, identity[c], now)
    /\ pc' = [pc EXCEPT ![c] = "up"]
    /\ timer' = [timer EXCEPT ![c] = [at |-> "armed", due |-> now + HandshakeTimeout]]
    /\ UNCHANGED <<now, identity, chan, keeper, owed, alive>>

FailsToRegister(c) ==
    /\ offer[c] = "checked" /\ offer' = [offer EXCEPT ![c] = "failed"]
    /\ UNCHANGED <<reg, now, identity, pc, chan, timer, keeper, owed, alive>>

\* A connection that is registered evicts one it supersedes.
LEMMA RegistersKeeps ==
    ASSUME ConnInv, NEW c \in ClientId, Registers(c)
    PROVE  ConnInv'
<1> DEFINE due == now + HandshakeTimeout
<1>n. now \in Nat /\ now # None /\ due \in Nat
  BY IdsAssumption, TimesAreNumbers DEF ConnInv, ConnectionsBounded
<1>o. /\ offer[c] = "checked"
      /\ offer'[c] = "registered"
      /\ offer' \in [ClientId -> {"none", "checked", "failed", "registered", "answered"}]
      /\ \A d \in ClientId \ {c} : offer'[d] = offer[d]
  BY Zenon DEF Registers, ConnInv, ConnectionsBounded, ConnTypeOK
<1>c. /\ identity[c] \in Address /\ identity[c] # None
      /\ chan[c] = "none" /\ c \notin keeper.stale
  BY Zenon, <1>o, KeysAssumption DEF ConnInv, OffersInv, Key
<1>p. /\ pc' \in [ClientId -> {"none", "up", "closing", "down"}] /\ pc'[c] = "up"
      /\ \A d \in ClientId \ {c} : pc'[d] = pc[d]
  BY Zenon DEF Registers, ConnInv, ConnectionsBounded, ConnTypeOK
<1>t. /\ timer' \in [ClientId -> [at : {"off", "armed", "close", "unregister"}, due : Nat]]
      /\ timer'[c].at = "armed" /\ timer'[c].due = due
      /\ \A d \in ClientId \ {c} : timer'[d] = timer[d]
  BY Zenon, <1>n DEF Registers, ConnInv, ConnectionsBounded, ConnTypeOK
<1>u. UNCHANGED <<now, identity, chan, keeper, owed, alive>>
  BY Zenon DEF Registers
<1>r. Replaced(reg', reg, c, identity[c], now)
  <2>1. reg \in Registry /\ UniqueAddresses(reg)
    BY Zenon DEF ConnInv, ConnectionsBounded, ConnTypeOK
  <2> QED
    BY Zenon, <1>c, <1>n, <2>1, RegisterKeeps DEF Registers
<1>s. \A t \in ClientId \ {c} : ~Superseded(t) => reg.addresses[t] # identity[c]
  BY Zenon, <1>c DEF ConnInv, OffersInv, Superseded
<1>1. ConnTypeOK'
  BY Zenon, <1>n, <1>o, <1>p, <1>r, <1>t, <1>u DEF Replaced, ConnInv, ConnectionsBounded, ConnTypeOK
<1>2. ConnectionsBounded'
  <2>1. /\ IsFiniteSet(reg.peer_connections) /\ IsFiniteSet(Checked)
        /\ Cardinality(reg.peer_connections) \in Nat /\ Cardinality(Checked) \in Nat
    BY Zenon, CountsAreFinite DEF ConnInv, ConnectionsBounded
  <2>2. /\ IsFiniteSet(reg'.peer_connections) /\ Cardinality(reg'.peer_connections) \in Nat
    <3>1. reg'.peer_connections \subseteq ClientId
      BY Zenon, <1>r DEF Replaced, Registry
    <3> QED
      BY Zenon, <3>1, LimitsAssumption, FS_Subset, FS_CardinalityType
  <2>3. Checked' = Checked \ {c} /\ c \in Checked
    BY Zenon, <1>o DEF Checked
  <2>4. Cardinality(Checked') = Cardinality(Checked) - 1
    BY Zenon, <2>1, <2>3, FS_RemoveElement
  <2>5. Cardinality(reg'.peer_connections) <= Cardinality(reg.peer_connections) + 1
    <3>1. /\ IsFiniteSet(reg.peer_connections \cup {c})
          /\ \/ Cardinality(reg.peer_connections \cup {c}) = Cardinality(reg.peer_connections)
             \/ Cardinality(reg.peer_connections \cup {c}) = Cardinality(reg.peer_connections) + 1
      BY Zenon, <2>1, FS_AddElement
    <3>2. Cardinality(reg'.peer_connections) <= Cardinality(reg.peer_connections \cup {c})
      BY Zenon, <1>r, <3>1, FS_Subset DEF Replaced
    <3> QED
      BY <2>1, <2>2, <3>1, <3>2
  <2>6. Cardinality(reg.peer_connections) + Cardinality(Checked) < MaxConnections + MaxOffers
    BY Zenon DEF ConnInv, ConnectionsBounded
  <2> QED
    BY <1>1, <2>1, <2>2, <2>4, <2>5, <2>6, TimeoutsAssumption DEF ConnectionsBounded
<1>3. HandshakeIsPruned' /\ TimersInv' /\ RoundInv'
  BY <1>c, <1>p, <1>r, <1>t, <1>u, TimesAreNumbers
     DEF Replaced, ConnInv, ConnectionsBounded, HandshakeIsPruned, TimersInv, RoundInv
<1>4. OffersInv'
  BY <1>c, <1>o, <1>p, <1>r, <1>t, <1>u DEF Replaced, ConnInv, OffersInv
<1>5. FreshInv'
  <2>1. now <= keeper.due /\ keeper.due <= now + PingInterval
    BY Zenon DEF ConnInv, RoundInv
  <2> QED
    BY <1>n, <1>r, <1>u, <2>1, TimesAreNumbers
       DEF Replaced, ConnInv, ConnectionsBounded, FreshInv, Registered
<1>6. LiveInv'
  <2> SUFFICES ASSUME NEW d \in ClientId \ {c}, Live(d)'
               PROVE  Live(d) /\ reg.addresses[d] # identity[c]
    <3>1. now + HandshakeTimeout <= now + HandshakeTimeout
      BY TimesAreNumbers DEF ConnInv, ConnectionsBounded
    <3> QED
      BY <1>c, <1>n, <1>p, <1>r, <1>t, <1>u, <3>1 DEF Replaced, ConnInv, LiveInv, Registered
  <2>1. ~Superseded(d)
    BY Zenon, <1>u, SupersededStays DEF Live
  <2> QED
    BY Zenon, <1>p, <1>s, <1>t, <1>u, <2>1 DEF Live
<1> QED
  BY Zenon, <1>r, <1>2, <1>3, <1>4, <1>5, <1>6 DEF ConnInv, Replaced

\* Building the connection may fail.
LEMMA FailsToRegisterKeeps ==
    ASSUME ConnInv, NEW c \in ClientId, FailsToRegister(c)
    PROVE  ConnInv'
<1>o. /\ offer[c] = "checked" /\ offer'[c] = "failed"
      /\ offer' \in [ClientId -> {"none", "checked", "failed", "registered", "answered"}]
      /\ \A d \in ClientId \ {c} : offer'[d] = offer[d]
  BY Zenon DEF FailsToRegister, ConnInv, ConnectionsBounded, ConnTypeOK
<1>u. UNCHANGED <<reg, now, identity, pc, chan, timer, keeper, owed, alive>>
  BY Zenon DEF FailsToRegister
<1>1. ConnTypeOK'
  BY Zenon, <1>o, <1>u DEF ConnInv, ConnectionsBounded, ConnTypeOK
<1>2. ConnectionsBounded'
  BY Zenon, <1>o, <1>u, <1>1, BoundStays DEF ConnInv, Checked
<1>3. HandshakeIsPruned' /\ UniqueAddresses(reg') /\ OffersInv' /\ TimersInv' /\ RoundInv'
  BY <1>o, <1>u DEF ConnInv, HandshakeIsPruned, OffersInv, TimersInv, RoundInv
<1>4. FreshInv' /\ LiveInv'
  BY Zenon, <1>u, SupersededStays DEF ConnInv, FreshInv, LiveInv, Registered, Live
<1> QED
  BY Zenon, <1>2, <1>3, <1>4 DEF ConnInv

\* The descriptions are exchanged, or not.
LEMMA NegotiateKeeps ==
    ASSUME ConnInv, NEW c \in ClientId, Negotiate(c)
    PROVE  ConnInv'
<1>o. /\ offer[c] = "registered" /\ offer'[c] \in {"answered", "failed"}
      /\ offer' \in [ClientId -> {"none", "checked", "failed", "registered", "answered"}]
      /\ \A d \in ClientId \ {c} : offer'[d] = offer[d]
  <2>1. PICK res \in {"answered", "failed"} : offer' = [offer EXCEPT ![c] = res]
    BY Zenon DEF Negotiate
  <2> QED
    BY Zenon, <2>1 DEF Negotiate, ConnInv, ConnectionsBounded, ConnTypeOK
<1>u. UNCHANGED <<reg, now, identity, pc, chan, timer, keeper, owed, alive>>
  BY Zenon DEF Negotiate
<1>1. ConnTypeOK'
  BY Zenon, <1>o, <1>u DEF ConnInv, ConnectionsBounded, ConnTypeOK
<1>2. ConnectionsBounded'
  BY Zenon, <1>o, <1>u, <1>1, BoundStays DEF ConnInv, Checked
<1>3. HandshakeIsPruned' /\ UniqueAddresses(reg') /\ OffersInv' /\ TimersInv' /\ RoundInv'
  BY <1>o, <1>u DEF ConnInv, HandshakeIsPruned, OffersInv, TimersInv, RoundInv
<1>4. FreshInv' /\ LiveInv'
  BY Zenon, <1>u, SupersededStays DEF ConnInv, FreshInv, LiveInv, Registered, Live
<1> QED
  BY Zenon, <1>2, <1>3, <1>4 DEF ConnInv

\* A channel that opens belongs to a connection that is still registered, unless
\* it is superseded, and whose next ping is at most an interval away.
LEMMA OpenChannelKeeps ==
    ASSUME ConnInv, NEW c \in ClientId, OpenChannel(c)
    PROVE  ConnInv'
<1>r. /\ reg' \in Registry
      /\ reg'.peer_connections = reg.peer_connections
      /\ reg'.data_channels = reg.data_channels \cup {c}
      /\ reg'.addresses = reg.addresses /\ reg'.last_pong = reg.last_pong
  <2>1. reg \in Registry /\ reg' = [reg EXCEPT !.data_channels = reg.data_channels \cup {c}]
    BY Zenon DEF OpenChannel, ConnInv, ConnectionsBounded, ConnTypeOK
  <2> QED
    BY Zenon, <2>1 DEF Registry
<1>c. /\ chan' \in [ClientId -> {"none", "open", "closed"}]
      /\ chan[c] = "none" /\ chan'[c] = "open" /\ pc[c] = "up" /\ offer[c] = "answered"
      /\ \A d \in ClientId \ {c} : chan'[d] = chan[d]
  BY Zenon DEF OpenChannel, ConnInv, ConnectionsBounded, ConnTypeOK
<1>u. UNCHANGED <<now, offer, identity, pc, timer, keeper, owed, alive>>
  BY Zenon DEF OpenChannel
<1>1. ConnTypeOK'
  BY Zenon, <1>c, <1>r, <1>u DEF ConnInv, ConnectionsBounded, ConnTypeOK
<1>2. ConnectionsBounded'
  BY Zenon, <1>1, <1>r, <1>u, BoundStays DEF ConnInv, Checked
<1>3. HandshakeIsPruned' /\ UniqueAddresses(reg') /\ TimersInv' /\ RoundInv' /\ FreshInv'
  BY <1>c, <1>r, <1>u
     DEF ConnInv, HandshakeIsPruned, UniqueAddresses, TimersInv, RoundInv, FreshInv, Registered
<1>4. OffersInv'
  BY ZenonT(60), <1>c, <1>r, <1>u DEF ConnInv, OffersInv
<1>5. LiveInv'
  <2>1. ASSUME NEW d \in ClientId, Live(d)' PROVE Live(d)
    BY Zenon, <1>c, <1>u, <2>1, SupersededStays DEF Live
  <2>2. ASSUME Live(c)
        PROVE  keeper.due - reg.last_pong[c] <= HandshakeTimeout + PingInterval
               /\ now - reg.last_pong[c] <= HandshakeTimeout + PingInterval
    <3>1. /\ timer[c].due <= reg.last_pong[c] + HandshakeTimeout /\ now <= timer[c].due
          /\ reg.last_pong[c] # None
      BY Zenon, <1>c, <2>2 DEF ConnInv, LiveInv, HandshakeIsPruned, FreshInv
    <3>2. now <= keeper.due /\ keeper.due <= now + PingInterval
      BY Zenon DEF ConnInv, RoundInv
    <3> QED
      BY <3>1, <3>2, TimesAreNumbers DEF ConnInv, ConnectionsBounded
  <2> QED
    BY Zenon, <1>c, <1>r, <1>u, <2>1, <2>2 DEF ConnInv, LiveInv, Registered
<1> QED
  BY Zenon, <1>2, <1>3, <1>4, <1>5 DEF ConnInv

\* A client that answers is fresh again.
LEMMA PongKeeps ==
    ASSUME ConnInv, NEW c \in ClientId, Pong(c)
    PROVE  ConnInv'
<1>n. now \in Nat /\ now # None
  BY Zenon, IdsAssumption DEF ConnInv, ConnectionsBounded, ConnTypeOK
<1>r. /\ reg' \in Registry
      /\ reg'.peer_connections = reg.peer_connections
      /\ reg'.data_channels = reg.data_channels
      /\ reg'.addresses = reg.addresses
      /\ \A d \in ClientId : reg'.last_pong[d] = IF d = c THEN now ELSE reg.last_pong[d]
  <2>1. /\ reg \in Registry
        /\ reg' = [reg EXCEPT !.last_pong = [reg.last_pong EXCEPT ![c] = now]]
    BY Zenon DEF Pong, ConnInv, ConnectionsBounded, ConnTypeOK
  <2> QED
    BY Zenon, <1>n, <2>1 DEF Registry
<1>o. owed' = owed \ {c} /\ chan[c] = "open"
  BY Zenon DEF Pong
<1>u. UNCHANGED <<now, offer, identity, pc, chan, timer, keeper, alive>>
  BY Zenon DEF Pong
<1>k. now <= keeper.due /\ keeper.due <= now + PingInterval
  BY Zenon DEF ConnInv, RoundInv
<1>1. ConnTypeOK'
  BY Zenon, <1>o, <1>r, <1>u DEF ConnInv, ConnectionsBounded, ConnTypeOK
<1>2. ConnectionsBounded'
  BY Zenon, <1>1, <1>r, <1>u, BoundStays DEF ConnInv, Checked
<1>3. HandshakeIsPruned' /\ UniqueAddresses(reg') /\ OffersInv' /\ TimersInv' /\ RoundInv'
  BY <1>o, <1>r, <1>u
     DEF ConnInv, HandshakeIsPruned, UniqueAddresses, OffersInv, TimersInv, RoundInv
<1>4. FreshInv'
  BY <1>k, <1>n, <1>r, <1>u, TimesAreNumbers
     DEF ConnInv, ConnectionsBounded, FreshInv, Registered
<1>5. LiveInv'
  <2>1. ASSUME NEW d \in ClientId, Live(d)' PROVE Live(d)
    BY Zenon, <1>u, <2>1, SupersededStays DEF Live
  <2>2. keeper.due - now <= HandshakeTimeout + PingInterval
    BY <1>k, TimesAreNumbers DEF ConnInv, ConnectionsBounded
  <2> QED
    BY Zenon, <1>o, <1>r, <1>u, <2>1, <2>2 DEF ConnInv, LiveInv, Registered
<1> QED
  BY Zenon, <1>2, <1>3, <1>4, <1>5 DEF ConnInv

\* The timeout task of c moves on to `at`.
MovesTimer(c, at) ==
    /\ timer' \in [ClientId -> [at : {"off", "armed", "close", "unregister"}, due : Nat]]
    /\ timer'[c].at = at /\ timer'[c].due = timer[c].due
    /\ \A d \in ClientId \ {c} : timer'[d] = timer[d]

\* Only one field of one timer changes.
LEMMA TimerMoves ==
    ASSUME ConnTypeOK, NEW c \in ClientId, NEW at \in {"off", "armed", "close", "unregister"},
           timer' = [timer EXCEPT ![c].at = at]
    PROVE  MovesTimer(c, at)
  BY DEF ConnTypeOK, MovesTimer

\* The three steps of the handshake timeout.
Fires(c) ==
    /\ timer[c].at = "armed" /\ now >= timer[c].due
    /\ timer' = [timer EXCEPT ![c].at = IF c \in reg.data_channels THEN "off" ELSE "close"]
    /\ UNCHANGED <<reg, now, offer, identity, pc, chan, keeper, owed, alive>>

Closes(c) ==
    /\ timer[c].at = "close" /\ Closed(c)
    /\ timer' = [timer EXCEPT ![c].at = "unregister"]
    /\ UNCHANGED <<reg, now, offer, identity, chan, keeper, owed, alive>>

Unregisters(c) ==
    /\ timer[c].at = "unregister" /\ reg' = UnregisterClient(reg, c)
    /\ timer' = [timer EXCEPT ![c].at = "off"]
    /\ UNCHANGED <<now, offer, identity, pc, chan, keeper, owed, alive>>

\* The timeout of a connection whose channel is not open goes on to close it.
LEMMA FiresKeeps ==
    ASSUME ConnInv, NEW c \in ClientId, Fires(c)
    PROVE  ConnInv'
<1> DEFINE at == IF c \in reg.data_channels THEN "off" ELSE "close"
<1>t. MovesTimer(c, at) /\ timer[c].at = "armed"
  <2>1. ConnTypeOK /\ at \in {"off", "armed", "close", "unregister"}
    BY Zenon DEF ConnInv, ConnectionsBounded
  <2>2. timer' = [timer EXCEPT ![c].at = at] /\ timer[c].at = "armed"
    BY Zenon DEF Fires
  <2> HIDE DEF at
  <2> QED
    BY Zenon, <2>1, <2>2, TimerMoves
<1>u. UNCHANGED <<reg, now, offer, identity, pc, chan, keeper, owed, alive>>
  BY Zenon DEF Fires
<1>1. ConnTypeOK'
  BY Zenon, <1>t, <1>u DEF ConnInv, ConnectionsBounded, ConnTypeOK, MovesTimer
<1>2. ConnectionsBounded'
  BY Zenon, <1>1, <1>u, BoundStays DEF ConnInv, Checked
<1>3. HandshakeIsPruned' /\ UniqueAddresses(reg') /\ OffersInv' /\ TimersInv' /\ RoundInv'
  BY <1>t, <1>u
     DEF ConnInv, HandshakeIsPruned, OffersInv, TimersInv, RoundInv, MovesTimer
<1>4. FreshInv' /\ LiveInv'
  BY ZenonT(60), <1>t, <1>u, SupersededStays DEF ConnInv, FreshInv, LiveInv, Registered, Live, MovesTimer
<1> QED
  BY Zenon, <1>2, <1>3, <1>4 DEF ConnInv

\* Closing the connection ends its life.
LEMMA ClosesKeeps ==
    ASSUME ConnInv, NEW c \in ClientId, Closes(c)
    PROVE  ConnInv'
<1>t. MovesTimer(c, "unregister") /\ timer[c].at = "close"
  BY Zenon, TimerMoves DEF Closes, ConnInv, ConnectionsBounded
<1>p. /\ pc' \in [ClientId -> {"none", "up", "closing", "down"}] /\ pc'[c] # "up"
      /\ pc[c] = "none" => pc'[c] = "none"
      /\ \A d \in ClientId \ {c} : pc'[d] = pc[d]
  BY Zenon DEF Closes, Closed, ConnInv, ConnectionsBounded, ConnTypeOK
<1>u. UNCHANGED <<reg, now, offer, identity, chan, keeper, owed, alive>>
  BY Zenon DEF Closes
<1>1. ConnTypeOK'
  BY Zenon, <1>p, <1>t, <1>u DEF ConnInv, ConnectionsBounded, ConnTypeOK, MovesTimer
<1>2. ConnectionsBounded'
  BY Zenon, <1>1, <1>u, BoundStays DEF ConnInv, Checked
<1>3. HandshakeIsPruned' /\ UniqueAddresses(reg') /\ OffersInv' /\ TimersInv' /\ RoundInv'
  BY <1>p, <1>t, <1>u
     DEF ConnInv, HandshakeIsPruned, OffersInv, TimersInv, RoundInv, MovesTimer
<1>4. FreshInv' /\ LiveInv'
  BY ZenonT(60), <1>p, <1>t, <1>u, SupersededStays
     DEF ConnInv, FreshInv, LiveInv, Registered, Live, MovesTimer
<1> QED
  BY Zenon, <1>2, <1>3, <1>4 DEF ConnInv

\* The client is unregistered when its connection is closed.
LEMMA UnregistersKeeps ==
    ASSUME ConnInv, NEW c \in ClientId, Unregisters(c)
    PROVE  ConnInv'
<1>t. MovesTimer(c, "off") /\ timer[c].at = "unregister"
  BY Zenon, TimerMoves DEF Unregisters, ConnInv, ConnectionsBounded
<1>p. pc[c] # "up"
  BY Zenon, <1>t DEF ConnInv, TimersInv
<1>g. Gone(c)
  BY Zenon, GoneAfter DEF Unregisters, ConnInv, ConnectionsBounded
<1>u. UNCHANGED <<now, offer, identity, pc, chan, keeper, owed, alive>>
  BY Zenon DEF Unregisters
<1>1. ConnTypeOK'
  BY Zenon, <1>g, <1>t, <1>u DEF ConnInv, ConnectionsBounded, ConnTypeOK, MovesTimer, Gone
<1>2. ConnectionsBounded'
  BY Zenon, <1>1, <1>g, <1>u, BoundStays DEF ConnInv, Checked, Gone
<1>3. HandshakeIsPruned' /\ UniqueAddresses(reg') /\ OffersInv' /\ TimersInv' /\ RoundInv'
  BY <1>g, <1>p, <1>t, <1>u
     DEF ConnInv, HandshakeIsPruned, UniqueAddresses, OffersInv, TimersInv, RoundInv,
         MovesTimer, Gone
<1>4. FreshInv' /\ LiveInv'
  BY <1>g, <1>p, <1>t, <1>u, SupersededStays
     DEF ConnInv, FreshInv, LiveInv, Registered, Live, MovesTimer, Gone
<1> QED
  BY Zenon, <1>2, <1>3, <1>4 DEF ConnInv

\* A client that falls silent is no longer live.
LEMMA FallSilentKeeps ==
    ASSUME ConnInv, NEW c \in ClientId, FallSilent(c)
    PROVE  ConnInv'
<1>a. alive' \in [ClientId -> BOOLEAN] /\ \A d \in ClientId : alive'[d] => alive[d]
  BY Zenon DEF FallSilent, ConnInv, ConnectionsBounded, ConnTypeOK
<1>u. UNCHANGED <<reg, now, offer, identity, pc, chan, timer, keeper, owed>>
  BY Zenon DEF FallSilent
<1>1. ConnTypeOK'
  BY Zenon, <1>a, <1>u DEF ConnInv, ConnectionsBounded, ConnTypeOK
<1>2. ConnectionsBounded'
  BY Zenon, <1>1, <1>u, BoundStays DEF ConnInv, Checked
<1>3. HandshakeIsPruned' /\ UniqueAddresses(reg') /\ OffersInv' /\ TimersInv' /\ RoundInv'
  BY Zenon, <1>u DEF ConnInv, HandshakeIsPruned, OffersInv, TimersInv, RoundInv
<1>4. FreshInv' /\ LiveInv'
  BY Zenon, <1>a, <1>u, SupersededStays DEF ConnInv, FreshInv, LiveInv, Registered, Live
<1> QED
  BY Zenon, <1>2, <1>3, <1>4 DEF ConnInv

\* A connection that goes down takes its registration with it.
LEMMA StateChangeKeeps ==
    ASSUME ConnInv, NEW c \in ClientId, StateChange(c)
    PROVE  ConnInv'
<1>p. /\ pc' \in [ClientId -> {"none", "up", "closing", "down"}]
      /\ pc[c] # "none" /\ pc'[c] = "down"
      /\ \A d \in ClientId \ {c} : pc'[d] = pc[d]
  BY Zenon DEF StateChange, ConnInv, ConnectionsBounded, ConnTypeOK
<1>u. UNCHANGED <<now, offer, identity, chan, timer, keeper, owed, alive>>
  BY Zenon DEF StateChange
<1>g. Gone(c)
  BY Zenon, GoneAfter DEF StateChange, ConnInv, ConnectionsBounded
<1>1. ConnTypeOK'
  BY Zenon, <1>g, <1>p, <1>u DEF ConnInv, ConnectionsBounded, ConnTypeOK, Gone
<1>2. ConnectionsBounded'
  BY Zenon, <1>1, <1>g, <1>u, BoundStays DEF ConnInv, Checked, Gone
<1>3. HandshakeIsPruned' /\ UniqueAddresses(reg') /\ OffersInv' /\ TimersInv' /\ RoundInv'
  BY <1>g, <1>p, <1>u
     DEF ConnInv, HandshakeIsPruned, UniqueAddresses, OffersInv, TimersInv, RoundInv, Gone
<1>4. FreshInv' /\ LiveInv'
  BY ZenonT(60), <1>g, <1>p, <1>u, SupersededStays
     DEF ConnInv, FreshInv, LiveInv, Registered, Live, Gone
<1> QED
  BY Zenon, <1>2, <1>3, <1>4 DEF ConnInv

\* So does a channel that closes.
LEMMA CloseChannelKeeps ==
    ASSUME ConnInv, NEW c \in ClientId, CloseChannel(c)
    PROVE  ConnInv'
<1>p. /\ chan' \in [ClientId -> {"none", "open", "closed"}]
      /\ chan[c] = "open" /\ chan'[c] = "closed"
      /\ \A d \in ClientId \ {c} : chan'[d] = chan[d]
  BY Zenon DEF CloseChannel, ConnInv, ConnectionsBounded, ConnTypeOK
<1>u. UNCHANGED <<now, offer, identity, pc, timer, keeper, owed, alive>>
  BY Zenon DEF CloseChannel
<1>g. Gone(c)
  BY Zenon, GoneAfter DEF CloseChannel, ConnInv, ConnectionsBounded
<1>1. ConnTypeOK'
  BY Zenon, <1>g, <1>p, <1>u DEF ConnInv, ConnectionsBounded, ConnTypeOK, Gone
<1>2. ConnectionsBounded'
  BY Zenon, <1>1, <1>g, <1>u, BoundStays DEF ConnInv, Checked, Gone
<1>3. HandshakeIsPruned' /\ UniqueAddresses(reg') /\ OffersInv' /\ TimersInv' /\ RoundInv'
  BY <1>g, <1>p, <1>u
     DEF ConnInv, HandshakeIsPruned, UniqueAddresses, OffersInv, TimersInv, RoundInv, Gone
<1>4. FreshInv' /\ LiveInv'
  BY ZenonT(60), <1>g, <1>p, <1>u, SupersededStays
     DEF ConnInv, FreshInv, LiveInv, Registered, Live, Gone
<1> QED
  BY Zenon, <1>2, <1>3, <1>4 DEF ConnInv

\* A stale client that is evicted was not live.
LEMMA EvictStaleKeeps ==
    ASSUME ConnInv, NEW c \in ClientId, EvictStale(c)
    PROVE  ConnInv'
<1>u. UNCHANGED <<now, offer, identity, pc, chan, timer, keeper, owed, alive>>
  BY Zenon DEF EvictStale
<1>g. Gone(c)
  BY Zenon, GoneAfter DEF EvictStale, ConnInv, ConnectionsBounded
<1>l. ~Live(c)
  BY Zenon, LiveIsFresh DEF EvictStale
<1>1. ConnTypeOK'
  BY Zenon, <1>g, <1>u DEF ConnInv, ConnectionsBounded, ConnTypeOK, Gone
<1>2. ConnectionsBounded'
  BY Zenon, <1>1, <1>g, <1>u, BoundStays DEF ConnInv, Checked, Gone
<1>3. HandshakeIsPruned' /\ UniqueAddresses(reg') /\ OffersInv' /\ TimersInv' /\ RoundInv'
  BY <1>g, <1>u
     DEF ConnInv, HandshakeIsPruned, UniqueAddresses, OffersInv, TimersInv, RoundInv, Gone
<1>4. FreshInv' /\ LiveInv'
  BY ZenonT(60), <1>g, <1>l, <1>u, SupersededStays
     DEF ConnInv, FreshInv, LiveInv, Registered, Live, Gone
<1> QED
  BY Zenon, <1>2, <1>3, <1>4 DEF ConnInv

\* A round starts: from now on every open channel owes an answer.
LEMMA KeepPingKeeps ==
    ASSUME ConnInv, KeepPing
    PROVE  ConnInv'
<1> DEFINE due == keeper.due + PingInterval
<1>n. due \in Nat
  BY TimesAreNumbers DEF ConnInv, ConnectionsBounded
<1>k. /\ keeper'.at = "scan" /\ keeper'.due = due
      /\ keeper'.stale = keeper.stale /\ keeper'.cur = keeper.cur
      /\ keeper' \in KeeperState
  <2>1. keeper \in KeeperState
    BY Zenon DEF ConnInv, ConnectionsBounded, ConnTypeOK, KeeperState
  <2>2. keeper' = [keeper EXCEPT !.at = "scan", !.due = due]
    BY Zenon DEF KeepPing
  <2> HIDE DEF due
  <2> QED
    BY Zenon, <1>n, <2>1, <2>2 DEF KeeperState
<1>u. UNCHANGED <<reg, now, offer, identity, pc, chan, timer, alive>>
  BY Zenon DEF KeepPing
<1>o. owed' = owed \cup reg.data_channels /\ keeper.at = "sleep" /\ now >= keeper.due
  BY Zenon DEF KeepPing
<1>d. now = keeper.due
  BY <1>o, TimesAreNumbers DEF ConnInv, ConnectionsBounded, RoundInv
<1>1. ConnTypeOK'
  <2>1. owed' \subseteq ClientId
    BY Zenon, <1>o DEF ConnInv, ConnectionsBounded, ConnTypeOK, Registry
  <2> QED
    BY Zenon, <1>k, <1>u, <2>1 DEF ConnInv, ConnectionsBounded, ConnTypeOK, KeeperState
<1>2. ConnectionsBounded'
  BY Zenon, <1>1, <1>u, BoundStays DEF ConnInv, Checked
<1>3. HandshakeIsPruned' /\ UniqueAddresses(reg') /\ OffersInv' /\ TimersInv'
  BY Zenon, <1>k, <1>u DEF ConnInv, HandshakeIsPruned, OffersInv, TimersInv
<1>4. RoundInv' /\ FreshInv'
  BY <1>k, <1>u, <1>d, <1>o, TimesAreNumbers
     DEF ConnInv, ConnectionsBounded, RoundInv, FreshInv, Registered
<1>5. LiveInv'
  <2> SUFFICES ASSUME NEW d \in ClientId, Live(d)
               PROVE  chan[d] = "open" =>
                        now - reg.last_pong[d] <= HandshakeTimeout + PingInterval /\ d \in owed'
    BY Zenon, <1>k, <1>u, SupersededStays DEF ConnInv, LiveInv, Registered, Live
  <2> QED
    BY Zenon, <1>o, <1>d DEF ConnInv, LiveInv
<1> QED
  BY Zenon, <1>2, <1>3, <1>4, <1>5 DEF ConnInv

\* The stale clients are found; none of them is live.
LEMMA KeepScanKeeps ==
    ASSUME ConnInv, KeepScan
    PROVE  ConnInv'
<1> DEFINE stale == StaleClients(reg, now)
<1>s. /\ stale \subseteq ClientId
      /\ \A d \in ClientId : reg.last_pong[d] = None => d \notin stale
      /\ \A d \in Registered(reg) : d \in stale \/ now - reg.last_pong[d] < KeepAliveTimeout
  BY TimesAreNumbers DEF StaleClients, Registered, ConnInv, ConnectionsBounded, FreshInv
<1>l. \A d \in ClientId : Live(d) => d \notin stale
  BY Zenon, LiveIsFresh
<1>c. keeper.at = "scan" /\ keeper' = [keeper EXCEPT !.at = "purge", !.stale = stale]
  BY Zenon DEF KeepScan
<1> HIDE DEF stale
<1>k. /\ keeper'.at = "purge" /\ keeper'.due = keeper.due
      /\ keeper'.stale = stale /\ keeper'.cur = keeper.cur
      /\ keeper' \in KeeperState
  <2>1. keeper \in KeeperState
    BY Zenon DEF ConnInv, ConnectionsBounded, ConnTypeOK, KeeperState
  <2> QED
    BY Zenon, <1>s, <1>c, <2>1 DEF KeeperState
<1>u. UNCHANGED <<reg, now, offer, identity, pc, chan, timer, alive, owed>>
  BY Zenon DEF KeepScan
<1>1. ConnTypeOK'
  BY Zenon, <1>k, <1>u DEF ConnInv, ConnectionsBounded, ConnTypeOK, KeeperState
<1>2. ConnectionsBounded'
  BY Zenon, <1>1, <1>u, BoundStays DEF ConnInv, Checked
<1>3. HandshakeIsPruned' /\ UniqueAddresses(reg') /\ OffersInv' /\ TimersInv' /\ RoundInv'
  BY Zenon, <1>c, <1>k, <1>s, <1>u DEF ConnInv, HandshakeIsPruned, OffersInv, TimersInv, RoundInv
<1>4. FreshInv' /\ LiveInv'
  BY Zenon, <1>c, <1>k, <1>l, <1>s, <1>u, SupersededStays
     DEF ConnInv, FreshInv, LiveInv, Registered, Live
<1> QED
  BY Zenon, <1>2, <1>3, <1>4 DEF ConnInv

\* The connection of a stale client is closed.
LEMMA KeepCloseKeeps ==
    ASSUME ConnInv, NEW c \in ClientId, KeepClose(c)
    PROVE  ConnInv'
<1>c. /\ keeper.at = "purge" /\ c \in keeper.stale
      /\ keeper' = [keeper EXCEPT !.at = "unregister", !.cur = c]
  BY Zenon DEF KeepClose
<1>k. /\ keeper'.at = "unregister" /\ keeper'.due = keeper.due
      /\ keeper'.stale = keeper.stale /\ keeper'.cur = c
      /\ keeper' \in KeeperState
  <2>1. keeper \in KeeperState
    BY Zenon DEF ConnInv, ConnectionsBounded, ConnTypeOK, KeeperState
  <2> QED
    BY Zenon, <1>c, <2>1 DEF KeeperState
<1>u. UNCHANGED <<reg, now, offer, identity, chan, timer, owed, alive>>
  BY Zenon DEF KeepClose
<1>p. /\ pc' \in [ClientId -> {"none", "up", "closing", "down"}]
      /\ \A d \in ClientId : pc'[d] = pc[d] \/ (pc[d] = "up" /\ pc'[d] = "closing")
  BY ZenonT(60) DEF KeepClose, Closed, ConnInv, ConnectionsBounded, ConnTypeOK
<1>1. ConnTypeOK'
  BY Zenon, <1>k, <1>u, <1>p DEF ConnInv, ConnectionsBounded, ConnTypeOK, KeeperState
<1>2. ConnectionsBounded'
  BY Zenon, <1>1, <1>u, BoundStays DEF ConnInv, Checked
<1>3. HandshakeIsPruned' /\ UniqueAddresses(reg') /\ OffersInv' /\ TimersInv' /\ RoundInv'
  BY <1>c, <1>k, <1>p, <1>u DEF ConnInv, HandshakeIsPruned, OffersInv, TimersInv, RoundInv
<1>4. FreshInv' /\ LiveInv'
  BY ZenonT(60), <1>c, <1>k, <1>p, <1>u, SupersededStays
     DEF ConnInv, FreshInv, LiveInv, Registered, Live
<1> QED
  BY Zenon, <1>2, <1>3, <1>4 DEF ConnInv

\* A stale client is unregistered; it is not live.
LEMMA KeepUnregisterKeeps ==
    ASSUME ConnInv, KeepUnregister
    PROVE  ConnInv'
<1>c. /\ keeper.at = "unregister" /\ keeper.cur \in keeper.stale /\ keeper.cur \in ClientId
      /\ keeper' = [keeper EXCEPT !.at = "purge", !.cur = None, !.stale = keeper.stale \ {keeper.cur}]
  BY Zenon DEF KeepUnregister, ConnInv, RoundInv, ConnectionsBounded, ConnTypeOK
<1>g. Gone(keeper.cur)
  BY Zenon, <1>c, GoneAfter DEF ConnInv, ConnectionsBounded, KeepUnregister
<1>k. /\ keeper'.at = "purge" /\ keeper'.due = keeper.due
      /\ keeper'.stale = keeper.stale \ {keeper.cur} /\ keeper'.cur = None
      /\ keeper' \in KeeperState
  <2>1. keeper \in KeeperState
    BY Zenon DEF ConnInv, ConnectionsBounded, ConnTypeOK, KeeperState
  <2> QED
    BY Zenon, <1>c, <2>1 DEF KeeperState
<1>u. UNCHANGED <<now, offer, identity, pc, chan, timer, owed, alive>>
  BY Zenon DEF KeepUnregister
<1>1. ConnTypeOK'
  BY Zenon, <1>g, <1>k, <1>u DEF ConnInv, ConnectionsBounded, ConnTypeOK, KeeperState, Gone
<1>2. ConnectionsBounded'
  BY Zenon, <1>1, <1>g, <1>u, BoundStays DEF ConnInv, Checked, Gone
<1>3. HandshakeIsPruned' /\ UniqueAddresses(reg') /\ OffersInv' /\ TimersInv' /\ RoundInv'
  BY <1>c, <1>g, <1>k, <1>u
     DEF ConnInv, HandshakeIsPruned, UniqueAddresses, OffersInv, TimersInv, RoundInv, Gone
<1>4. FreshInv'
  BY Zenon, <1>c, <1>g, <1>k, <1>u DEF ConnInv, FreshInv, Registered, Gone
<1>5. LiveInv'
  BY <1>c, <1>g, <1>k, <1>u, SupersededStays DEF ConnInv, LiveInv, Registered, Live, Gone
<1> QED
  BY Zenon, <1>2, <1>3, <1>4, <1>5 DEF ConnInv

\* The round is over when nobody stale is left.
LEMMA KeepSleepKeeps ==
    ASSUME ConnInv, KeepSleep
    PROVE  ConnInv'
<1>c. keeper.at = "purge" /\ keeper.stale = {} /\ keeper' = [keeper EXCEPT !.at = "sleep"]
  BY Zenon DEF KeepSleep
<1>k. /\ keeper'.at = "sleep" /\ keeper'.due = keeper.due
      /\ keeper'.stale = keeper.stale /\ keeper'.cur = keeper.cur
      /\ keeper' \in KeeperState
  <2>1. keeper \in KeeperState
    BY Zenon DEF ConnInv, ConnectionsBounded, ConnTypeOK, KeeperState
  <2> QED
    BY Zenon, <1>c, <2>1 DEF KeeperState
<1>u. UNCHANGED <<reg, now, offer, identity, pc, chan, timer, alive, owed>>
  BY Zenon DEF KeepSleep
<1>1. ConnTypeOK'
  BY Zenon, <1>k, <1>u DEF ConnInv, ConnectionsBounded, ConnTypeOK, KeeperState
<1>2. ConnectionsBounded'
  BY Zenon, <1>1, <1>u, BoundStays DEF ConnInv, Checked
<1>3. HandshakeIsPruned' /\ UniqueAddresses(reg') /\ OffersInv' /\ TimersInv' /\ RoundInv'
  BY Zenon, <1>c, <1>k, <1>u DEF ConnInv, HandshakeIsPruned, OffersInv, TimersInv, RoundInv
<1>4. FreshInv'
  BY <1>c, <1>k, <1>u, TimesAreNumbers
     DEF ConnInv, ConnectionsBounded, RoundInv, FreshInv, Registered
<1>5. LiveInv'
  BY Zenon, <1>k, <1>u, SupersededStays DEF ConnInv, LiveInv, Registered, Live
<1> QED
  BY Zenon, <1>2, <1>3, <1>4, <1>5 DEF ConnInv

\* Time passes only while no round, no timeout and no answer is due.
LEMMA TickKeeps ==
    ASSUME ConnInv, Tick
    PROVE  ConnInv'
<1>b. /\ keeper.at = "sleep" /\ now < keeper.due
      /\ \A d \in ClientId : /\ ~(d \in owed /\ alive[d] /\ chan[d] = "open")
                             /\ timer[d].at = "armed" => now < timer[d].due
                             /\ timer[d].at \notin {"close", "unregister"}
  BY TimesAreNumbers DEF Tick, Busy, ConnInv, ConnectionsBounded
<1>n. now' = now + 1 /\ now' \in Nat
  BY TimesAreNumbers DEF Tick, ConnInv, ConnectionsBounded
<1>u. UNCHANGED <<reg, offer, identity, pc, chan, timer, keeper, owed, alive>>
  BY Zenon DEF Tick
<1>1. ConnTypeOK'
  BY Zenon, <1>n, <1>u DEF ConnInv, ConnectionsBounded, ConnTypeOK
<1>2. ConnectionsBounded'
  BY Zenon, <1>1, <1>u, BoundStays DEF ConnInv, Checked
<1>3. HandshakeIsPruned' /\ RoundInv'
  <2>1. \A d \in ClientId : timer[d].at \in {"off", "armed", "close", "unregister"}
    BY Zenon DEF ConnInv, ConnectionsBounded, ConnTypeOK
  <2> QED
    BY <1>b, <1>n, <1>u, <2>1, TimesAreNumbers
       DEF ConnInv, ConnectionsBounded, HandshakeIsPruned, RoundInv
<1>4. UniqueAddresses(reg') /\ OffersInv' /\ TimersInv' /\ FreshInv'
  BY Zenon, <1>b, <1>u DEF ConnInv, OffersInv, TimersInv, FreshInv, Registered
<1>5. LiveInv'
  BY Zenon, <1>b, <1>u, SupersededStays DEF ConnInv, LiveInv, Registered, Live
<1> QED
  BY Zenon, <1>2, <1>3, <1>4, <1>5 DEF ConnInv

-----------------------------------------------------------------------------
\* The server starts with nobody connected.
LEMMA ConnInitHolds == ConnInit => ConnInv
<1> SUFFICES ASSUME ConnInit PROVE ConnInv
  BY Zenon
<1>1. EmptyRegistry \in Registry
  BY Zenon, EmptyRegistryType
<1>2. ConnTypeOK
  BY Zenon, <1>1 DEF ConnInit, ConnTypeOK
<1>3. ConnectionsBounded
  <2>1. reg.peer_connections = {} /\ Checked = {}
    BY Zenon DEF ConnInit, EmptyRegistry, Checked
  <2>2. Cardinality(reg.peer_connections) = 0 /\ Cardinality(Checked) = 0
    BY Zenon, <2>1, FS_EmptySet
  <2> QED
    BY <1>2, <2>2, TimeoutsAssumption DEF ConnectionsBounded
<1>4. UniqueAddresses(reg) /\ Registered(reg) = {}
  BY Zenon DEF ConnInit, EmptyRegistry, UniqueAddresses, Registered
<1>5. OffersInv /\ TimersInv
  BY Zenon DEF ConnInit, EmptyRegistry, OffersInv, TimersInv
<1>6. HandshakeIsPruned /\ FreshInv /\ LiveInv
  <2>1. \A c \in ClientId : pc[c] = "none"
    BY Zenon DEF ConnInit
  <2> QED
    BY Zenon, <1>4, <2>1 DEF HandshakeIsPruned, FreshInv, LiveInv, Live
<1>7. RoundInv
  BY TimeoutsAssumption DEF ConnInit, RoundInv
<1> QED
  BY Zenon, <1>3, <1>4, <1>5, <1>6, <1>7 DEF ConnInv

\* Every step of an offer, a connection, a client or a task keeps the invariant.
LEMMA ConnStepKeeps == ConnInv /\ [ConnNext]_cvars => ConnInv'
<1> SUFFICES ASSUME ConnInv, [ConnNext]_cvars PROVE ConnInv'
  BY Zenon
<1>1. CASE \E c \in ClientId : \E a \in Address : Offer(c, a)
  BY Zenon, <1>1, OfferKeeps
<1>2. CASE \E c \in ClientId : OpenChannel(c) \/ FallSilent(c) \/ EvictStale(c)
  BY Zenon, <1>2, OpenChannelKeeps, FallSilentKeeps, EvictStaleKeeps
<1>3. ASSUME NEW c \in ClientId, Task(c) PROVE ConnInv'
  <2>1. CASE Register(c)
    <3>1. Registers(c) \/ FailsToRegister(c)
      BY Zenon, <2>1 DEF Register, Registers, FailsToRegister
    <3> QED
      BY Zenon, <3>1, RegistersKeeps, FailsToRegisterKeeps
  <2>2. CASE Timeout(c)
    <3>1. Fires(c) \/ Closes(c) \/ Unregisters(c)
      BY Zenon, <2>2 DEF Timeout, Fires, Closes, Unregisters
    <3> QED
      BY Zenon, <3>1, FiresKeeps, ClosesKeeps, UnregistersKeeps
  <2> QED
    BY Zenon, <1>3, <2>1, <2>2, NegotiateKeeps, StateChangeKeeps, CloseChannelKeeps, PongKeeps DEF Task
<1>4. CASE Keeper
  BY Zenon, <1>4, KeepPingKeeps, KeepScanKeeps, KeepCloseKeeps, KeepUnregisterKeeps, KeepSleepKeeps
     DEF Keeper
<1>5. CASE Tick
  BY Zenon, <1>5, TickKeeps
<1>6. CASE UNCHANGED cvars
  <2>u. UNCHANGED <<reg, now, offer, identity, pc, chan, timer, keeper, owed, alive>>
    BY Zenon, <1>6 DEF cvars
  <2>1. ConnTypeOK'
    BY Zenon, <2>u DEF ConnInv, ConnectionsBounded, ConnTypeOK
  <2>2. ConnectionsBounded'
    BY Zenon, <2>u, <2>1, BoundStays DEF ConnInv, Checked
  <2>3. HandshakeIsPruned' /\ UniqueAddresses(reg') /\ OffersInv' /\ TimersInv' /\ RoundInv'
    BY Zenon, <2>u DEF ConnInv, HandshakeIsPruned, OffersInv, TimersInv, RoundInv
  <2>4. FreshInv' /\ LiveInv'
    BY Zenon, <2>u, SupersededStays DEF ConnInv, FreshInv, LiveInv, Registered, Live
  <2> QED
    BY Zenon, <2>2, <2>3, <2>4 DEF ConnInv
<1> QED
  BY Zenon, <1>1, <1>2, <1>3, <1>4, <1>5, <1>6 DEF ConnNext

\* ConnInv is inductive.
LEMMA ConnInvariant == ConnSpec => []ConnInv
  BY ConnInitHolds, ConnStepKeeps, PTL DEF ConnSpec

\* However many offers are handled at the same time, the connections exceed
\* server.max_connections by at most one less than there are such offers.
THEOREM ConnectionsStayBounded == ConnSpec => []ConnectionsBounded
<1>1. ConnInv => ConnectionsBounded
  BY Zenon DEF ConnInv
<1> QED
  BY <1>1, ConnInvariant, PTL

\* A connection whose channel has not opened has a handshake timeout running
\* that is not overdue, whatever unregistered the client meanwhile.
THEOREM HandshakesArePruned == ConnSpec => []HandshakeIsPruned
<1>1. ConnInv => HandshakeIsPruned
  BY Zenon DEF ConnInv
<1> QED
  BY <1>1, ConnInvariant, PTL

\* The registry never holds a client that has been silent for the keep-alive
\* timeout and a ping interval.
THEOREM SilentArePurged == ConnSpec => []SilentIsPurged
<1>1. ConnInv => SilentIsPurged
  <2> SUFFICES ASSUME ConnInv, NEW c \in Registered(reg)
               PROVE  /\ reg.last_pong[c] # None
                      /\ now - reg.last_pong[c] < KeepAliveTimeout + PingInterval
    BY Zenon DEF SilentIsPurged
  <2>1. c \in ClientId
    BY Zenon DEF Registered
  <2>2. now <= keeper.due
    BY Zenon DEF ConnInv, RoundInv
  <2> QED
    BY <2>1, <2>2, TimesAreNumbers DEF ConnInv, ConnectionsBounded, FreshInv
<1> QED
  BY <1>1, ConnInvariant, PTL

\* A client that answers its pings stays registered while its channel is open
\* and nobody else has connected under its address.
THEOREM AnsweringAreKept == ConnSpec => []AnsweringIsKept
<1>1. ConnInv => AnsweringIsKept
  BY Zenon DEF ConnInv, LiveInv, Live, AnsweringIsKept
<1> QED
  BY <1>1, ConnInvariant, PTL

=============================================================================
