----------------------------- MODULE DataChannel -----------------------------
(***************************************************************************)
(* The daemon's handling of client packets (connection/datachannel.rs),    *)
(* with the callbacks of connection/handshake.rs that register a client,   *)
(* attach its data channel and unregister it.                              *)
(*                                                                         *)
(* Every client has one event loop, which handles one packet at a time.    *)
(* A handler takes the registry's lock anew for every check and every      *)
(* update, so between any two of them the loops of other clients run: one  *)
(* action of this module is what a handler does under one acquisition of   *)
(* the lock, and task[c].at names the acquisition the loop of c is about   *)
(* to make.  The conditions a handler read earlier are kept in task[c],    *)
(* and may be stale when it uses them.                                     *)
(***************************************************************************)
EXTENDS ClientRegistry

CONSTANTS
    Payload,        \* audio payloads, told apart by size class and energy
    Empty,          \* the payload of no bytes, which asks for a call
    Oversized,      \* payloads above MAX_MESSAGE_SIZE
    EnergyOf,       \* calculate_audio_energy, or the energy byte of SFrame audio
    Packet,         \* the packets clients may send
    MaxEvents,      \* bound: packets, disconnections and closings in a behaviour
    MaxTime         \* bound: clock ticks in a behaviour

PacketKind == {"Audio", "Accept", "Reject", "Hangup",
               "RoomJoin", "RoomLeave", "RoomAudio", "Pong"}

ASSUME PacketAssumption ==
    /\ Packet \subseteq [kind : PacketKind, key : Key, payload : Payload]
    /\ Empty \in Payload /\ Oversized \subseteq Payload
    /\ EnergyOf \in [Payload -> Nat]
    /\ {MaxEvents, MaxTime} \subseteq Nat

VARIABLES
    reg,        \* CLIENT_REGISTRY
    now,        \* the clock, in ticks
    identity,   \* the address a connection was authenticated with
    chan,       \* the client's data channel as its event loop sees it
    task,       \* what the event loop of a client is doing
    out,        \* the packets the last step put on data channels
    events,     \* packets, disconnections and closings so far
    consent     \* history: whether a user has called or accepted a key, and
                \* whether it has hung up on it since

vars == <<reg, now, identity, chan, task, out, events, consent>>

-----------------------------------------------------------------------------
\* The state of an event loop.

\* The lock acquisition a handler starts with.
Entry == [ Audio     |-> "InRoom",
           Accept    |-> "Approve",
           Reject    |-> "Refuse",
           Hangup    |-> "Clear",
           RoomJoin  |-> "Join",
           RoomLeave |-> "Leave",
           RoomAudio |-> "Speak",
           Pong      |-> "Pong" ]

Label == {"Idle", "Find", "Stale", "Evict", "Rejected", "SameCall", "Mutual",
          "Full", "Approved", "Notified", "MarkNotified", "Prompt", "SetTarget",
          "Answer", "TellFind", "TellChannel", "TellSend", "Members", "Send"}
         \cup {Entry[k] : k \in PacketKind}

Body == ({"RoomState"} \X Nat) \cup ({"RoomAudio"} \X ClientId)
            \cup ({"ActiveSpeakers"} \X TopList)

Task == [ at     : Label,
          pkt    : Packet \cup {None},
          tgt    : ClientId \cup {None},    \* target_cid, caller_cid
          same   : BOOLEAN,                 \* is_in_same_call
          mutual : BOOLEAN,                 \* is_mutual
          body   : Body \cup {None},        \* what is being sent to a room
          notice : TopList \cup {None},     \* speaker list to send after it
          todo   : SUBSET ClientId ]        \* members still to be sent to

IdleTask == [ at |-> "Idle", pkt |-> None, tgt |-> None, same |-> FALSE,
              mutual |-> FALSE, body |-> None, notice |-> None, todo |-> {} ]

Init ==
    /\ reg      = EmptyRegistry
    /\ now      = 0
    /\ identity = [c \in ClientId |-> None]
    /\ chan     = [c \in ClientId |-> "none"]
    /\ task     = [c \in ClientId |-> IdleTask]
    /\ out      = {}
    /\ events   = 0
    /\ consent  = [a \in Address |-> [k \in Key |-> "never"]]

\* The loop of c is about to take the lock for l.
At(c, l) == task[c].at = l

Goto(c, l) == task' = [task EXCEPT ![c].at = l]

Finish(c) == task' = [task EXCEPT ![c] = IdleTask]

Quiet == out' = {}

\* One more thing happened to the daemon from outside.
Event == events < MaxEvents /\ events' = events + 1

\* Everything but the registry, the loops and the packets sent.
UnchangedRest == UNCHANGED <<now, identity, chan, events, consent>>

\* A step that only reads the registry and goes on at l.
ReadThen(c, l) == Goto(c, l) /\ Quiet /\ UNCHANGED reg /\ UnchangedRest

\* The handler answers its own client with ConnectionError and returns.
Refusal(c) ==
    /\ Finish(c)
    /\ out' = {<<"ConnectionError", c, task[c].pkt.key>>}
    /\ UNCHANGED reg /\ UnchangedRest

Return(c) == Finish(c) /\ Quiet /\ UNCHANGED reg /\ UnchangedRest

-----------------------------------------------------------------------------
\* Connections.

\* handle_sdp_offer registers the client under its verified address.
Connect(c, a) ==
    /\ identity[c] = None
    /\ identity' = [identity EXCEPT ![c] = a]
    /\ reg' = RegisterClient(reg, c, a, now)
    /\ Quiet
    /\ UNCHANGED <<now, chan, task, events, consent>>

\* on_data_channel: the channel is entered in the registry, whether or not
\* the client is still registered, and its event loop starts.
OpenChannel(c) ==
    /\ identity[c] # None /\ chan[c] = "none"
    /\ chan' = [chan EXCEPT ![c] = "open"]
    /\ reg' = [reg EXCEPT !.data_channels = @ \cup {c}]
    /\ out' = {<<"ClientAssignment", c, identity[c]>>}
    /\ UNCHANGED <<now, identity, task, events, consent>>

\* on_connection_state_change to Failed, Closed or Disconnected.  The event
\* loop is not told: it runs on until its channel closes.
Disconnect(c) ==
    /\ identity[c] # None
    /\ Event
    /\ reg' = UnregisterClient(reg, c)
    /\ Quiet
    /\ UNCHANGED <<now, identity, chan, task, consent>>

\* The event loop meets OnClose.
CloseChannel(c) ==
    /\ chan[c] = "open" /\ At(c, "Idle")
    /\ Event
    /\ chan' = [chan EXCEPT ![c] = "closed"]
    /\ reg' = UnregisterClient(reg, c)
    /\ Quiet
    /\ UNCHANGED <<now, identity, task, consent>>

Tick ==
    /\ now < MaxTime
    /\ now' = now + 1
    /\ Quiet
    /\ UNCHANGED <<reg, identity, chan, task, events, consent>>

\* The event loop takes a packet off the channel.  Audio above the size limit
\* is dropped before any lock is taken.
Receive(c, p) ==
    /\ chan[c] = "open" /\ At(c, "Idle")
    /\ Event
    /\ Quiet
    /\ IF p.kind \in {"Audio", "RoomAudio"} /\ p.payload \in Oversized
         THEN UNCHANGED <<task, consent>>
         ELSE /\ task' = [task EXCEPT ![c] = [IdleTask EXCEPT !.at = Entry[p.kind], !.pkt = p]]
              /\ consent' = IF p.kind \in {"Audio", "Accept"}
                              THEN [consent EXCEPT ![identity[c]][p.key] = "given"]
                              ELSE consent
    /\ UNCHANGED <<reg, now, identity, chan>>

-----------------------------------------------------------------------------
\* handle_client_targeted_audio.

\* A client whose target the key already names is handled as a room speaker.
AudioInRoom(c) ==
    /\ At(c, "InRoom")
    /\ ReadThen(c, IF IsClientInRoom(reg, c, task[c].pkt.key) THEN "Speak" ELSE "Find")

AudioFind(c) ==
    /\ At(c, "Find")
    /\ LET found == Found(reg, task[c].pkt.key)
       IN  \/ /\ found = {}         \* not found or ambiguous
              /\ Refusal(c)
           \/ \E t \in found :
                 /\ task' = [task EXCEPT ![c].at = "Stale", ![c].tgt = t]
                 /\ Quiet /\ UNCHANGED reg /\ UnchangedRest

\* A target that no longer answers pings is unregistered; a call to oneself
\* is refused.
AudioStale(c) ==
    /\ At(c, "Stale")
    /\ LET stale == task[c].tgt \in StaleClients(reg, now)
       IN  \/ stale /\ ReadThen(c, "Evict")
           \/ ~stale /\ task[c].tgt = c /\ Refusal(c)
           \/ ~stale /\ task[c].tgt # c /\ ReadThen(c, "Rejected")

AudioEvict(c) ==
    /\ At(c, "Evict")
    /\ reg' = UnregisterClient(reg, task[c].tgt)
    /\ Finish(c)
    /\ out' = {<<"ConnectionError", c, task[c].pkt.key>>}
    /\ UnchangedRest

AudioRejected(c) ==
    /\ At(c, "Rejected")
    /\ LET rejected == identity[c] \in reg.rejected_calls[task[c].tgt]
       IN  \/ rejected /\ Refusal(c)
           \/ ~rejected /\ ReadThen(c, "SameCall")

AudioSameCall(c) ==
    /\ At(c, "SameCall")
    /\ task' = [task EXCEPT ![c].at = "Mutual",
                            ![c].same = IsClientInSameCall(reg, c, task[c].pkt.key)]
    /\ Quiet /\ UNCHANGED reg /\ UnchangedRest

AudioMutual(c) ==
    /\ At(c, "Mutual")
    /\ LET mutual == MatchesPrefix(reg.targets[task[c].tgt], identity[c])
       IN  task' = [task EXCEPT ![c].at = IF task[c].same \/ mutual THEN "Approved" ELSE "Full",
                                ![c].mutual = mutual]
    /\ Quiet /\ UNCHANGED reg /\ UnchangedRest

AudioFull(c) ==
    /\ At(c, "Full")
    /\ LET full == IsRoomOrTargetFull(reg, task[c].pkt.key)
       IN  \/ full /\ Refusal(c)
           \/ ~full /\ ReadThen(c, "Approved")

\* Mutant: takes a prompt that has been sent for an approval.
ApprovedIfNotified(c) ==
    /\ At(c, "Approved")
    /\ ReadThen(c, IF task[c].mutual \/ c \in reg.notified_requests[task[c].tgt]
                     THEN "SetTarget" ELSE "Notified")

\* is_mutual short-circuits the read of approved_calls.
AudioApproved(c) ==
    /\ At(c, "Approved")
    /\ ReadThen(c, IF task[c].mutual \/ identity[c] \in reg.approved_calls[task[c].tgt]
                     THEN "SetTarget" ELSE "Notified")

\* Mutant: swaps the arguments of has_been_notified.
NotifiedSwapped(c) ==
    /\ At(c, "Notified")
    /\ LET notified == task[c].tgt \in reg.notified_requests[c]
       IN  \/ notified /\ Return(c)
           \/ ~notified /\ ReadThen(c, "MarkNotified")

AudioNotified(c) ==
    /\ At(c, "Notified")
    /\ LET notified == c \in reg.notified_requests[task[c].tgt]
       IN  \/ notified /\ Return(c)
           \/ ~notified /\ ReadThen(c, "MarkNotified")

AudioMarkNotified(c) ==
    /\ At(c, "MarkNotified")
    /\ reg' = MarkNotified(reg, task[c].tgt, c)
    /\ Goto(c, "Prompt") /\ Quiet /\ UnchangedRest

\* The call request goes out if the target has a channel at this moment.
AudioPrompt(c) ==
    /\ At(c, "Prompt")
    /\ out' = IF task[c].tgt \in reg.data_channels
                THEN {<<"CallRequest", task[c].tgt, identity[c]>>} ELSE {}
    /\ Finish(c) /\ UNCHANGED reg /\ UnchangedRest

\* The clients whose forwarding task passes on a message broadcast for key k:
\* it compares its own address with the key once more.  The task runs later, but
\* reads nothing another loop can change; all it can meet is a channel that has
\* been closed meanwhile, on which sending fails.
Receivers(c, k) == {d \in ClientId \ {c} : chan[d] = "open" /\ MatchesPrefix(identity[d], k)}

\* Mutant: enters the caller as the callee's target, too.
SetBothTargets(c) ==
    /\ At(c, "SetTarget")
    /\ LET p == task[c].pkt
       IN  /\ reg' = [reg EXCEPT !.targets[c] = p.key, !.targets[task[c].tgt] = identity[c]]
           /\ out' = IF p.payload = Empty THEN {}
                       ELSE {<<"Audio", d, identity[c]>> : d \in Receivers(c, p.key)}
    /\ Finish(c) /\ UnchangedRest

AudioSetTarget(c) ==
    /\ At(c, "SetTarget")
    /\ LET p == task[c].pkt
       IN  /\ reg' = [reg EXCEPT !.targets[c] = p.key]
           /\ out' = IF p.payload = Empty THEN {}
                       ELSE {<<"Audio", d, identity[c]>> : d \in Receivers(c, p.key)}
    /\ Finish(c) /\ UnchangedRest

-----------------------------------------------------------------------------
\* handle_call_accept_response, handle_call_reject_response and
\* handle_call_hangup, each followed by send_call_response_notification.

AcceptApprove(c) ==
    /\ At(c, "Approve")
    /\ reg' = MarkCallApproved(reg, c, task[c].pkt.key)
    /\ Goto(c, "Answer") /\ Quiet /\ UnchangedRest

\* entry(client_id).or_insert: a target the client already has is kept.
AcceptAnswer(c) ==
    /\ At(c, "Answer")
    /\ reg' = [reg EXCEPT !.targets[c] = IF @ = None THEN task[c].pkt.key ELSE @]
    /\ Goto(c, "TellFind") /\ Quiet /\ UnchangedRest

RejectRefuse(c) ==
    /\ At(c, "Refuse")
    /\ reg' = MarkCallRejected(reg, c, task[c].pkt.key)
    /\ Goto(c, "TellFind") /\ Quiet /\ UnchangedRest

HangupClear(c) ==
    /\ At(c, "Clear")
    /\ reg' = ClearCallSession(reg, c, task[c].pkt.key)
    /\ consent' = [consent EXCEPT ![identity[c]][task[c].pkt.key] =
                                    IF @ = "given" THEN "ended" ELSE @]
    /\ Goto(c, "TellFind") /\ Quiet
    /\ UNCHANGED <<now, identity, chan, events>>

TellFind(c) ==
    /\ At(c, "TellFind")
    /\ LET found == Found(reg, task[c].pkt.key)
       IN  \/ found = {} /\ Return(c)
           \/ \E t \in found :
                 /\ task' = [task EXCEPT ![c].at = "TellChannel", ![c].tgt = t]
                 /\ Quiet /\ UNCHANGED reg /\ UnchangedRest

TellChannel(c) ==
    /\ At(c, "TellChannel")
    /\ \/ task[c].tgt \notin reg.data_channels /\ Return(c)
       \/ task[c].tgt \in reg.data_channels /\ ReadThen(c, "TellSend")

Notification == [Accept |-> "CallAccepted", Reject |-> "CallRejected", Hangup |-> "CallEnded"]

\* The notification names the sender by the address it is registered with,
\* or by the default address once it is not.  The channel is the one found
\* before; sending on it fails if it has been closed since.
TellSend(c) ==
    /\ At(c, "TellSend")
    /\ out' = IF chan[task[c].tgt] = "open"
                THEN {<<Notification[task[c].pkt.kind], task[c].tgt, reg.addresses[c]>>} ELSE {}
    /\ Finish(c) /\ UNCHANGED reg /\ UnchangedRest

-----------------------------------------------------------------------------
\* Rooms and keep-alive: handle_room_join, handle_room_leave,
\* handle_room_group_audio(_e2ee), broadcast_to_room_members and Pong.

\* Go on to send body to the members of the room.
Announce(c, body, notice) ==
    task' = [task EXCEPT ![c].at = "Members", ![c].body = body, ![c].notice = notice]

\* The count that is announced is the one read under the lock that admitted
\* (or refused) the client.
RoomJoin(c) ==
    /\ At(c, "Join")
    /\ LET k == task[c].pkt.key
       IN  /\ reg' = JoinRoom(reg, c, k)
           /\ Announce(c, <<"RoomState", Cardinality(reg'.room_members[k])>>, None)
    /\ Quiet /\ UnchangedRest

RoomLeave(c) ==
    /\ At(c, "Leave")
    /\ \E k \in RoomKeys(reg, task[c].pkt.key) :
          /\ reg' = LeaveRoom(reg, c, k)
          /\ Announce(c, <<"RoomState", Cardinality(reg'.room_members[k])>>, None)
    /\ Quiet /\ UnchangedRest

\* process_room_speaker_update returns before the notice if c is not among
\* the loudest, although the list it would announce has been stored.
RoomSpeak(c) ==
    /\ At(c, "Speak")
    /\ \E k \in RoomKeys(reg, task[c].pkt.key) :
         LET speakers == SpeakersAfter(reg, c, k, EnergyOf[task[c].pkt.payload], now)
         IN  \E top \in TopSets(speakers) : \E list \in Rankings(reg, speakers, top) :
               /\ reg' = UpdateSpeakers(reg, k, speakers, list)
               /\ IF c \notin top THEN Finish(c)
                  ELSE Announce(c, <<"RoomAudio", c>>,
                                IF SpeakerListChanged(reg, k, list) /\ list # << >>
                                  THEN list ELSE None)
    /\ Quiet /\ UnchangedRest

\* broadcast_to_room_members takes a snapshot of the members...
BroadcastMembers(c) ==
    /\ At(c, "Members")
    /\ \E k \in RoomKeys(reg, task[c].pkt.key) :
          task' = [task EXCEPT
                     ![c].at = "Send",
                     ![c].todo = reg.room_members[k]
                                   \ (IF task[c].body[1] = "RoomAudio" THEN {c} ELSE {})]
    /\ Quiet /\ UNCHANGED reg /\ UnchangedRest

\* Mutant: never gets past a member without a channel.
SendOrWait(c) ==
    /\ At(c, "Send")
    /\ \/ \E m \in task[c].todo :
             /\ task' = [task EXCEPT ![c].todo = IF m \in reg.data_channels THEN @ \ {m} ELSE @]
             /\ out' = IF m \in reg.data_channels
                         THEN {<<task[c].body[1], m, task[c].body[2]>>} ELSE {}
       \/ /\ task[c].todo = {} /\ task[c].notice # None
          /\ Announce(c, <<"ActiveSpeakers", task[c].notice>>, None)
          /\ Quiet
       \/ /\ task[c].todo = {} /\ task[c].notice = None
          /\ Finish(c) /\ Quiet
    /\ UNCHANGED reg /\ UnchangedRest

\* ... and looks up the channel of each member when its turn comes.
BroadcastSend(c) ==
    /\ At(c, "Send")
    /\ \/ \E m \in task[c].todo :
             /\ task' = [task EXCEPT ![c].todo = @ \ {m}]
             /\ out' = IF m \in reg.data_channels
                         THEN {<<task[c].body[1], m, task[c].body[2]>>} ELSE {}
       \/ /\ task[c].todo = {} /\ task[c].notice # None
          /\ Announce(c, <<"ActiveSpeakers", task[c].notice>>, None)
          /\ Quiet
       \/ /\ task[c].todo = {} /\ task[c].notice = None
          /\ Finish(c) /\ Quiet
    /\ UNCHANGED reg /\ UnchangedRest

\* A pong is recorded whether or not the client is registered.
PongReceived(c) ==
    /\ At(c, "Pong")
    /\ reg' = [reg EXCEPT !.last_pong[c] = now]
    /\ Finish(c) /\ Quiet /\ UnchangedRest

-----------------------------------------------------------------------------
Handle(c) ==
    \/ AudioInRoom(c) \/ AudioFind(c) \/ AudioStale(c) \/ AudioEvict(c)
    \/ AudioRejected(c) \/ AudioSameCall(c) \/ AudioMutual(c) \/ AudioFull(c)
    \/ AudioApproved(c) \/ AudioNotified(c) \/ AudioMarkNotified(c)
    \/ AudioPrompt(c) \/ AudioSetTarget(c)
    \/ AcceptApprove(c) \/ AcceptAnswer(c) \/ RejectRefuse(c) \/ HangupClear(c)
    \/ TellFind(c) \/ TellChannel(c) \/ TellSend(c)
    \/ RoomJoin(c) \/ RoomLeave(c) \/ RoomSpeak(c)
    \/ BroadcastMembers(c) \/ BroadcastSend(c) \/ PongReceived(c)

Next ==
    \/ \E c \in ClientId : \E a \in Address : Connect(c, a)
    \/ \E c \in ClientId : OpenChannel(c) \/ Disconnect(c) \/ CloseChannel(c) \/ Handle(c)
    \/ \E c \in ClientId : \E p \in Packet : Receive(c, p)
    \/ Tick

Spec == Init /\ [][Next]_vars

\* No lock is held across an await, so a handler that has started always gets
\* to its next acquisition.
FairSpec == Spec /\ \A c \in ClientId : WF_vars(Handle(c))

-----------------------------------------------------------------------------
\* Properties.

Message == ({"ConnectionError"} \X ClientId \X Key)
           \cup ({"ClientAssignment", "CallRequest", "Audio"} \X ClientId \X Address)
           \cup ({"CallAccepted", "CallRejected", "CallEnded"}
                    \X ClientId \X (Address \cup {None}))
           \cup ({"RoomState"} \X ClientId \X Nat)
           \cup ({"RoomAudio"} \X ClientId \X ClientId)
           \cup ({"ActiveSpeakers"} \X ClientId \X TopList)

\* The registry, the event loops and the packets sent are of the types the
\* code declares.
TypeOK ==
    /\ reg \in Registry
    /\ now \in Nat /\ events \in Nat
    /\ identity \in [ClientId -> Address \cup {None}]
    /\ chan \in [ClientId -> {"none", "open", "closed"}]
    /\ task \in [ClientId -> Task]
    /\ out \subseteq Message
    /\ consent \in [Address -> [Key -> {"never", "given", "ended"}]]

\* register_client evicts the previous holder of an address: no two clients
\* are ever registered under one address, however registrations, evictions and
\* disconnections interleave, so a full address is never Ambiguous.
AddressUnique ==
    \A c, d \in Registered(reg) : reg.addresses[c] = reg.addresses[d] => c = d

\* Targeted audio reaches a user only if that user has at some time called or
\* accepted its sender (WPIP-15: recipient approval before forwarding), even
\* though the checks of handle_client_targeted_audio are spread over a dozen
\* acquisitions of the lock and clients reconnect in between.
RelayHasConsent ==
    \A m \in out : m[1] = "Audio" => consent[identity[m[2]]][m[3]] # "never"

\* The check of notified_requests and the mark that follows it are made under
\* different acquisitions of the lock; still, a handler about to mark and prompt
\* a callee never does so for a caller that is already marked, so the callee is
\* not prompted twice for one request (WPIP-07).
NoDuplicatePrompt ==
    \A c \in ClientId :
        At(c, "MarkNotified") => c \notin reg.notified_requests[task[c].tgt]

\* A channel found in data_channels is one whose event loop still runs: no
\* handler ever looks up a channel that has met OnClose.
ChannelsAreLive == \A c \in reg.data_channels : chan[c] = "open"

\* Once the event loop of a client has met OnClose, nothing that a handler
\* still running for somebody else does brings the client back into the maps
\* that calls and rooms are routed by.
ClosedIsForgotten ==
    \A c \in ClientId : chan[c] = "closed" =>
        /\ c \notin Registered(reg) /\ c \notin reg.peer_connections
        /\ reg.targets[c] = None /\ reg.last_pong[c] = None
        /\ reg.approved_calls[c] = {} /\ reg.rejected_calls[c] = {}
        /\ \A k \in Key : c \notin reg.room_members[k] /\ reg.room_speakers[k][c] = None

\* join_room admits at most RoomLimit members, whoever joins and leaves and
\* under whichever key.
RoomWithinLimit == \A k \in Key : Cardinality(reg.room_members[k]) <= RoomLimit

\* update_speaker_energy forwards a frame exactly if fewer than TopK active
\* speakers of the room are louder, ties decided either way, and purged
\* speakers no longer count.
ForwardsTheLoudest ==
    [][\A c \in ClientId :
          (At(c, "Speak") /\ task'[c].at # "Speak") =>
              \E k \in RoomKeys(reg, task[c].pkt.key) :
                  LET now_speaking(s) == reg'.room_speakers[k][s] # None
                      energy(s) == reg'.room_speakers[k][s].energy
                      louder == {s \in ClientId : now_speaking(s) /\ energy(s) > energy(c)}
                      rivals == {s \in ClientId \ {c} :
                                    now_speaking(s) /\ energy(s) >= energy(c)}
                  IN  IF task'[c].at = "Members" THEN Cardinality(louder) < TopK
                                                 ELSE Cardinality(rivals) >= TopK]_vars

\* Every packet taken off a channel is handled to its end, whatever the other
\* loops do to the registry meanwhile.
HandlersFinish == \A c \in ClientId : ~At(c, "Idle") ~> At(c, "Idle")

-----------------------------------------------------------------------------
\* What the documents, comments and tests say and the code does not do.

\* WPIP-02: audio of an authenticated client is relayed to its target.  When
\* the handler of a non-empty packet ends without having refused it or asked
\* for approval, a callee that has approved the caller has been sent it.
TargetedAudioIsRelayed ==
    [][\A c, t \in ClientId :
          LET p == task[c].pkt
          IN  (/\ task[c].at \notin {"Idle", "Notified", "Prompt"} /\ task'[c].at = "Idle"
               /\ p.kind = "Audio" /\ p.payload # Empty
               /\ t # c /\ t \in Found(reg, p.key) /\ chan[t] = "open"
               /\ identity[c] \in reg.approved_calls[t])
              => out' \cap {<<"Audio", t, identity[c]>>, <<"ConnectionError", c, p.key>>} # {}
      ]_vars

\* A user who hangs up no longer has the other as its target until it calls or
\* accepts that user again, whatever the other's handlers were doing meanwhile:
\* its own packets are handled one after the other, as long as it has a single
\* connection.  (The other's target may come back: its audio handler enters it
\* under a lock of its own, after its checks.)
HangupSticks ==
    \A c, d \in Registered(reg) :
        /\ \A e \in ClientId \ {c} : identity[e] # identity[c]
        /\ consent[identity[c]][identity[d]] = "ended"
        => reg.targets[c] # identity[d]

=============================================================================
