------------------------------- MODULE MCRooms -------------------------------
(***************************************************************************)
(* Group rooms: DataChannel with three clients online and one room, which  *)
(* can be named by its address and by a short ID.                          *)
(***************************************************************************)
EXTENDS DataChannel, TLC

CONSTANTS c1, c2, c3, a1, a2, a3, room, short, quiet, talk, shout, huge

MCTrio == {c1, c2, c3}
MCAddresses == {a1, a2, a3, room}
MCExpands == {<<room, short>>}
MCVoices == {quiet, talk, shout, huge}
MCEnergy == [p \in MCVoices |-> CASE p = quiet -> 0 [] p = talk -> 1 [] OTHER -> 2]

Say(kinds, keys, payloads) == [kind : kinds, key : keys, payload : payloads]

\* The room under both its names, and calls to and from a user who is in it.
MCRoomPackets ==
    Say({"RoomJoin"}, {room, short}, {quiet}) \cup Say({"RoomLeave"}, {short}, {quiet})
        \cup Say({"RoomAudio"}, {room}, {shout, huge}) \cup Say({"RoomAudio"}, {short}, {talk})
        \cup Say({"Hangup", "Accept"}, {a1}, {quiet}) \cup Say({"Audio"}, {a1}, {talk})

Online(f, members) ==
    /\ identity = f
    /\ reg = [EmptyRegistry EXCEPT !.peer_connections   = ClientId,
                                   !.addresses          = f,
                                   !.data_channels      = ClientId,
                                   !.rooms              = IF members = {} THEN {} ELSE {room},
                                   !.room_members[room] = members,
                                   !.last_pong          = [c \in ClientId |-> 0]]
    /\ now = 0
    /\ chan = [c \in ClientId |-> "open"]
    /\ task = [c \in ClientId |-> IdleTask]
    /\ out = {} /\ events = 0
    /\ consent = [a \in Address |-> [k \in Key |-> "never"]]

Users == [c \in ClientId |-> CASE c = c1 -> a1 [] c = c2 -> a2 [] c = c3 -> a3]

\* Nobody has joined yet, or the room is full.
MCFairSpec ==
    /\ Online(Users, {}) \/ Online(Users, {c1, c2})
    /\ [][Next]_vars
    /\ \A c \in ClientId : WF_vars(Handle(c))

=============================================================================
