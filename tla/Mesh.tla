-------------------------------- MODULE Mesh --------------------------------
(***************************************************************************)
(* The mesh of daemons (peer.rs) and each daemon's AUDIO_BROADCAST         *)
(* (broadcast.rs): audio spoken at one daemon is flooded over the links to *)
(* its peers, with the origin check and hop limit of WPIP-05, and handed   *)
(* to the clients it is addressed to.                                      *)
(*                                                                         *)
(* AUDIO_BROADCAST is tokio's broadcast channel: every subscriber reads    *)
(* the daemon's messages from a position of its own, and one that is more  *)
(* than the channel's capacity behind is told so (Lagged) once, and then   *)
(* continues with the oldest message kept.  A client's forwarding task     *)
(* goes on; a link's send loop ends.  A link is dialled once, by the       *)
(* daemon that has the other in its configuration, and works in both       *)
(* directions: side 1 of a link is the one that dialled.                   *)
(***************************************************************************)
EXTENDS Integers, Sequences, FiniteSets

CONSTANTS
    Node,               \* daemons; node_id is unique
    Dials,              \* <<n, m>>: daemon n has m among its mesh.peers
    Session,            \* connected clients: [node, id, user, codec]
    Talks,              \* <<s, t>>: session s is in a call with t, and speaks
    InitialTtl,         \* DEFAULT_INITIAL_TTL (8)
    Capacity,           \* messages AUDIO_BROADCAST keeps (1000)
    MaxMeshPeers,       \* mesh.max_mesh_peers
    MaxFrames           \* bound: frames spoken in a behaviour

VARIABLES
    bus,        \* the messages sent to each daemon's AUDIO_BROADCAST so far
    link,       \* the state of each link
    loop,       \* how far the send loop at each side of a link has read
    wire,       \* packets on their way from each side of a link
    peers,      \* PEER_DAEMONS: the links each daemon has dialled
    fwd,        \* how far the forwarding task of each session has read
    heard       \* the frames played to each session

mvars == <<bus, link, loop, wire, peers, fwd, heard>>

Side == Dials \X {1, 2}

Here(s) == s[1][s[2]]
There(s) == s[1][3 - s[2]]

\* How a frame is encoded.  A link labels whatever it sends as Opus.
Codec == {"opus", "pcm"}

ASSUME MeshAssumption ==
    /\ Dials \subseteq Node \X Node
    /\ \A d \in Dials : d[1] # d[2]
    /\ Talks \subseteq Session \X Session
    /\ \A s \in Session : s.node \in Node /\ s.id \in Nat /\ s.codec \in Codec
    /\ Capacity \in Nat \ {0}
    /\ {InitialTtl, MaxMeshPeers, MaxFrames} \subseteq Nat

\* The frame is what was spoken; hops, which the code does not have, counts
\* the links this copy has crossed.
Message == [frame : 1 .. MaxFrames, sender_id : Nat, to : {s.user : s \in Session},
            codec_id : Codec, origin_node : Node, ttl : 0 .. InitialTtl, hops : Nat]

MeshInit ==
    /\ bus   = [n \in Node |-> << >>]
    /\ link  = [d \in Dials |-> "idle"]
    /\ loop  = [s \in Side |-> 0]
    /\ wire  = [s \in Side |-> << >>]
    /\ peers = [n \in Node |-> {}]
    /\ fwd   = [s \in Session |-> 0]
    /\ heard = [s \in Session |-> {}]

\* What has been spoken; a frame is told from all others.
Frames == UNION {{bus[n][i].frame : i \in DOMAIN bus[n]} : n \in Node}

NewFrame == CHOOSE f \in 1 .. MaxFrames : f \notin Frames

-----------------------------------------------------------------------------
\* Links.

\* connect_to_peer and the handle_peer_sdp it calls, which may refuse for the
\* lack of a secret or too many clients, and compares the links it has dialled
\* itself with the limit.  Both sides subscribe before the channel opens.
Dial(d) ==
    /\ link[d] = "idle"
    /\ \/ /\ link' = [link EXCEPT ![d] = "failed"]
          /\ UNCHANGED <<loop, peers>>
       \/ /\ Cardinality(peers[d[2]]) < MaxMeshPeers
          /\ link' = [link EXCEPT ![d] = "up"]
          /\ loop' = [s \in Side |-> IF s[1] = d THEN Len(bus[Here(s)]) ELSE loop[s]]
          /\ peers' = [peers EXCEPT ![d[1]] = @ \cup {d}]
    /\ UNCHANGED <<bus, wire, fwd, heard>>

\* The connection is lost, with what was on its way.  The entry in
\* PEER_DAEMONS stays, and nobody dials again.
Drop(d) ==
    /\ link[d] = "up"
    /\ link' = [link EXCEPT ![d] = "down"]
    /\ wire' = [s \in Side |-> IF s[1] = d THEN << >> ELSE wire[s]]
    /\ UNCHANGED <<bus, loop, peers, fwd, heard>>

-----------------------------------------------------------------------------
\* Messages.

\* A client speaks to a user it is in a call with.  handle_client_targeted_audio
\* gets to AUDIO_BROADCAST only if the target is connected to the same daemon.
Speak(s, t) ==
    /\ <<s, t>> \in Talks /\ s.node = t.node
    /\ ~(1 .. MaxFrames \subseteq Frames)
    /\ bus' = [bus EXCEPT ![s.node] = Append(@,
           [frame |-> NewFrame, sender_id |-> s.id, to |-> t.user,
            codec_id |-> s.codec, origin_node |-> s.node, ttl |-> InitialTtl, hops |-> 0])]
    /\ UNCHANGED <<link, loop, wire, peers, fwd, heard>>

\* A subscriber at this position has fallen behind.
Lagged(n, position) == Len(bus[n]) - position > Capacity

\* process_peer_audio_send_loop, one round.
SendLoop(s) ==
    /\ link[s[1]] = "up"
    /\ loop[s] < Len(bus[Here(s)]) /\ ~Lagged(Here(s), loop[s])
    /\ loop' = [loop EXCEPT ![s] = @ + 1]
    /\ LET msg == bus[Here(s)][loop[s] + 1]
       IN  IF msg.origin_node # Here(s) /\ msg.ttl = 0
             THEN UNCHANGED wire
             ELSE wire' = [wire EXCEPT ![s] = Append(@, [msg EXCEPT !.codec_id = "opus"])]
    /\ UNCHANGED <<bus, link, peers, fwd, heard>>

\* `while let Ok(..)` ends on Lagged too.  A loop that has ended is one that
\* is behind for good.
Stopped(s) == link[s[1]] = "down" \/ Lagged(Here(s), loop[s])

\* Mutant: the origin is not checked.
RelayedAnyOrigin(s, msg) == msg.ttl > 0

\* Mutant: the last hop is dropped.
RelayedIfMore(s, msg) == msg.origin_node # There(s) /\ msg.ttl > 1

Relayed(s, msg) == msg.origin_node # There(s) /\ msg.ttl > 0

\* handle_peer_incoming_message at the other side.
Incoming(s) ==
    /\ wire[s] # << >>
    /\ wire' = [wire EXCEPT ![s] = Tail(@)]
    /\ LET msg == Head(wire[s])
       IN  IF Relayed(s, msg)
             THEN bus' = [bus EXCEPT ![There(s)] =
                      Append(@, [msg EXCEPT !.ttl = @ - 1, !.hops = @ + 1])]
             ELSE UNCHANGED bus
    /\ UNCHANGED <<link, loop, peers, fwd, heard>>

\* Mutant: ends on Lagged.
ForwardUntilLagged(s) ==
    /\ fwd[s] < Len(bus[s.node]) /\ ~Lagged(s.node, fwd[s])
    /\ fwd' = [fwd EXCEPT ![s] = @ + 1]
    /\ LET msg == bus[s.node][fwd[s] + 1]
       IN  heard' = [heard EXCEPT ![s] =
              IF msg.sender_id # s.id /\ msg.to = s.user THEN @ \cup {msg.frame} ELSE @]
    /\ UNCHANGED <<bus, link, loop, wire, peers>>

\* The forwarding task of a client's event loop.
Forward(s) ==
    /\ fwd[s] < Len(bus[s.node])
    /\ IF Lagged(s.node, fwd[s])
         THEN /\ fwd' = [fwd EXCEPT ![s] = Len(bus[s.node]) - Capacity]
              /\ UNCHANGED heard
         ELSE /\ fwd' = [fwd EXCEPT ![s] = @ + 1]
              /\ LET msg == bus[s.node][fwd[s] + 1]
                 IN  heard' = [heard EXCEPT ![s] =
                        IF msg.sender_id # s.id /\ msg.to = s.user THEN @ \cup {msg.frame} ELSE @]
    /\ UNCHANGED <<bus, link, loop, wire, peers>>

MeshNext ==
    \/ \E d \in Dials : Dial(d) \/ Drop(d)
    \/ \E s, t \in Session : Speak(s, t)
    \/ \E s \in Side : SendLoop(s) \/ Incoming(s)
    \/ \E s \in Session : Forward(s)

\* Tasks that have something to read run; nothing is assumed of dialling,
\* speaking, or the loss of a link.
MeshSpec ==
    /\ MeshInit /\ [][MeshNext]_mvars
    /\ \A s \in Side : WF_mvars(SendLoop(s)) /\ WF_mvars(Incoming(s))
    /\ \A s \in Session : WF_mvars(Forward(s))

-----------------------------------------------------------------------------
\* The messages, links and positions are of the types the code declares; the
\* hop limit, a u8, does not wrap below zero, and nobody reads ahead.
MeshTypeOK ==
    /\ \A n \in Node : \A i \in DOMAIN bus[n] : bus[n][i] \in Message
    /\ \A s \in Side : \A i \in DOMAIN wire[s] : wire[s][i] \in Message
    /\ link \in [Dials -> {"idle", "failed", "up", "down"}]
    /\ \A s \in Side : loop[s] \in 0 .. Len(bus[Here(s)])
    /\ \A s \in Session : fwd[s] \in 0 .. Len(bus[s.node])
    /\ peers \in [Node -> SUBSET Dials]
    /\ heard \in [Session -> SUBSET (1 .. MaxFrames)]

\* Flooding ends, loops in the mesh or not: a copy has crossed as many links
\* as its ttl has lost, and a frame never enters the daemon it came from again.
\* The ttl stays in its type: it is never taken below zero.
FloodIsBounded ==
    /\ MeshTypeOK
    /\ \A n \in Node : \A i \in DOMAIN bus[n] :
        /\ bus[n][i].hops + bus[n][i].ttl = InitialTtl
        /\ bus[n][i].hops > 0 => bus[n][i].origin_node # n

\* A copy that may still travel reaches the daemon at the other side of every
\* link whose send loop has yet to read it, unless that loop ends: by the loss of
\* the link or by falling behind.
CopyIsPassedOn ==
    \A s \in Side : \A f \in 1 .. MaxFrames :
        (/\ link[s[1]] = "up"
         /\ \E i \in DOMAIN bus[Here(s)] :
                /\ i > loop[s] /\ bus[Here(s)][i].frame = f
                /\ bus[Here(s)][i].ttl > 0 /\ bus[Here(s)][i].origin_node # There(s))
        ~> \/ Stopped(s)
           \/ \E i \in DOMAIN bus[There(s)] : bus[There(s)][i].frame = f

\* A message that reaches a daemon is played to the sessions there it is
\* addressed to, unless they fall so far behind that it is overwritten, or have
\* the id, which each daemon counts for itself, of the session that spoke.
AddresseeHears ==
    \A s \in Session : \A i \in 1 .. MaxFrames * (Cardinality(Node) - 1) :
        (/\ i > fwd[s] /\ i <= Len(bus[s.node])
         /\ bus[s.node][i].to = s.user /\ bus[s.node][i].sender_id # s.id)
        ~> (\/ i \in DOMAIN bus[s.node] /\ bus[s.node][i].frame \in heard[s]
            \/ i <= Len(bus[s.node]) - Capacity)

=============================================================================
