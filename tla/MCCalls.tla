------------------------------- MODULE MCCalls -------------------------------
(***************************************************************************)
(* 1-to-1 calls: DataChannel with every client online from the start, each *)
(* under its own address, which is the state once each has sent its offer  *)
(* and opened its channel; or with one connection still to be made, so     *)
(* that a user reconnects while the event loop of its old connection runs, *)
(* and time for a client to become stale, but one event less.              *)
(***************************************************************************)
EXTENDS DataChannel, TLC

CONSTANTS c1, c2, c3, a1, a2, a3, quiet, talk

MCPair == {c1, c2}
MCTrio == {c1, c2, c3}
MCPairAddresses == {a1, a2}
MCTrioAddresses == {a1, a2, a3}
MCVoice == {quiet, talk}
MCEnergy == [p \in MCVoice |-> IF p = quiet THEN 0 ELSE 1]

Say(kinds, keys, payloads) == [kind : kinds, key : keys, payload : payloads]

\* Every packet a call is made of.
MCCallPackets ==
    Say({"Accept", "Reject", "Hangup"}, Address, {quiet}) \cup Say({"Audio"}, Address, {talk})

\* And the answers to pings; their key is not used.
MCAllPackets == MCCallPackets \cup Say({"Pong"}, Address, {quiet})

\* Clients with an address are online, the others have not connected.
Online(f, time, spent) ==
    LET there == {c \in ClientId : f[c] # None}
    IN  /\ identity = f
        /\ reg = [EmptyRegistry EXCEPT
                    !.peer_connections = there,
                    !.addresses        = f,
                    !.data_channels    = there,
                    !.last_pong        = [c \in ClientId |-> IF c \in there THEN time ELSE None]]
        /\ now = time
        /\ chan = [c \in ClientId |-> IF c \in there THEN "open" ELSE "none"]
        /\ task = [c \in ClientId |-> IdleTask]
        /\ out = {} /\ events = spent
        /\ consent = [a \in Address |-> [k \in Key |-> "never"]]

\* Each client has its own address, except that those in away have none.
MCAddressOf == c1 :> a1 @@ c2 :> a2 @@ c3 :> a3

Identities(away) ==
    [c \in ClientId |-> IF c \in away THEN None ELSE MCAddressOf[c]]

MCAllOnline == Online(Identities({}), MaxTime, 0)

MCOneAway == \E c \in ClientId : Online(Identities({c}), 0, 1)

MCSpec == (MCAllOnline \/ MCOneAway) /\ [][Next]_vars

\* Clients that stay online and answer only calls they have been asked about.
MCPoliteNext ==
    \E c \in ClientId :
        \/ Handle(c)
        \/ \E p \in Packet :
              /\ p.kind \in {"Accept", "Reject"} =>
                     \E d \in reg.notified_requests[c] : identity[d] = p.key
              /\ Receive(c, p)

MCPoliteSpec == MCAllOnline /\ [][MCPoliteNext]_vars

\* Clients are interchangeable, each with its address.
MCSymmetry ==
    {p @@ [a \in Address |-> LET c == CHOOSE d \in ClientId : MCAddressOf[d] = a
                             IN  MCAddressOf[p[c]]] : p \in Permutations(ClientId)}

=============================================================================
