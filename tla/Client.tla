-------------------------------- MODULE Client --------------------------------
(***************************************************************************)
(* The terminal client: the screen's event loop (wpclient/src/tui.rs,      *)
(* tui/app.rs, tui/event.rs), the connection tasks it starts               *)
(* (wpapi/src/call.rs), the task that reads a connection's DataChannel     *)
(* (webrtc_session.rs) and the ClientSession they share (session.rs).      *)
(*                                                                         *)
(* Standby number n has a connection task, a DataChannel, and a pair of    *)
(* handler tasks that turn what the DataChannel reports into events of the *)
(* screen.  A ClientSession outlives the standbys started on it; renewing  *)
(* the identity replaces it.  One action per key, event, packet or task    *)
(* step.  Users are compared by equality: the prefix matching of addresses *)
(* is the daemon's (ClientRegistry).  Queues stay below their capacities   *)
(* (10 and 100), so that no sender waits.                                  *)
(***************************************************************************)
EXTENDS Naturals, Sequences, FiniteSets

CONSTANTS
  Peer, Me, None,  \* other users, this user, no user
  AutoAccept,      \* auto_accept in the configuration the client starts with
  MaxStarts,       \* bound: standbys started
  MaxPackets,      \* bound: packets from the daemon
  MaxKeys          \* bound: keys pressed

ASSUME BoundsAssumption ==
  /\ {MaxStarts, MaxPackets, MaxKeys} \subseteq Nat /\ MaxStarts > 0
  /\ AutoAccept \in BOOLEAN
  /\ Me \notin Peer /\ None \notin Peer \cup {Me}

Start == 1 .. MaxStarts
Prompt == 1 .. MaxPackets

VARIABLES
  app,      \* the screen: TuiApp
  session,  \* ClientSession objects, by the standby they were made for
  conn,     \* standby -> its connection task and its unread packets
  incoming, \* standby -> queue of its incoming-call handler
  notices,  \* standby -> queue of its notification handler
  events,   \* the screen's event queue
  prompt,   \* call request -> who asks, on which connection, and the answer
  sends,    \* packets handed to spawned tasks and not yet sent
  sent,     \* packets that went out
  packets, keys, \* counts of packets received and keys pressed
  stopped   \* standbys the user stopped

vars == <<app, session, conn, incoming, notices, events, prompt, sends, sent,
          packets, keys, stopped>>

NewSession == [target |-> None, room |-> FALSE, handler |-> 0, channel |-> 0,
               muted |-> FALSE]
NoConn == [stage |-> "none", obj |-> 0, auto |-> FALSE, cancelled |-> FALSE,
           inbox |-> <<>>, caller |-> None, at_once |-> FALSE]
NoPrompt == [from |-> None, on |-> 0, answer |-> "none"]

\* The outcome of start_standby on session object o: a connection task and
\* fresh handlers.  The configuration is copied.
Starting(a, o) == [a EXCEPT !.sid = @ + 1, !.cancel = a.sid + 1, !.obj = o,
                            !.state = "Standby", !.with = None]

StartTasks(n, o, auto) ==
  conn' = [conn EXCEPT ![n] = [NoConn EXCEPT !.stage = "start", !.obj = o, !.auto = auto]]

\* run_tui starts a standby before it reads the first key.
ClientInit ==
  /\ app = Starting([mode |-> "Normal", state |-> "Idle", with |-> None, sid |-> 0,
                     cancel |-> 0, from |-> None, responder |-> 0, auto |-> AutoAccept,
                     muted |-> FALSE, obj |-> 1], 1)
  /\ session = [o \in Start |-> [NewSession EXCEPT !.handler = IF o = 1 THEN 1 ELSE 0]]
  /\ conn = [n \in Start |-> IF n = 1 THEN [NoConn EXCEPT !.stage = "start", !.obj = 1,
                                                            !.auto = AutoAccept]
                                      ELSE NoConn]
  /\ incoming = [n \in Start |-> <<>>] /\ notices = [n \in Start |-> <<>>]
  /\ events = <<>>
  /\ prompt = [p \in Prompt |-> NoPrompt]
  /\ sends = {} /\ sent = {}
  /\ packets = 0 /\ keys = 0 /\ stopped = {}

tasks == <<incoming, notices, events, prompt, sent, packets>>

\* A key is read in one of the modes; quitting ends the loop.
Key(mode) == app.mode = mode /\ keys < MaxKeys /\ keys' = keys + 1

------------------------------------------------------------------------------
(* Keys *)

\* stop_standby: cancel the connection, forget target and room.
StopStandby ==
  /\ app' = [app EXCEPT !.cancel = 0, !.state = "Idle", !.with = None]
  /\ session' = [session EXCEPT ![app.obj].target = None, ![app.obj].room = FALSE]
  /\ conn' = [n \in Start |-> IF n = app.cancel
                                THEN [conn[n] EXCEPT !.cancelled = TRUE] ELSE conn[n]]
  /\ stopped' = stopped \cup ({app.cancel} \ {0})

\* start_standby: a second press stops it.
StandbyKey ==
  /\ Key("Normal")
  /\ IF app.cancel # 0 THEN StopStandby
     ELSE /\ app.sid < MaxStarts
          /\ app' = Starting(app, app.obj)
          /\ StartTasks(app.sid + 1, app.obj, app.auto)
          /\ session' = [session EXCEPT ![app.obj].handler = app.sid + 1]
          /\ UNCHANGED stopped
  /\ UNCHANGED <<tasks, sends>>

IdleKey == Key("Normal") /\ StopStandby /\ UNCHANGED <<tasks, sends>>

\* renew_identity: cancel, and start a standby on a new ClientSession.
RenewKey ==
  /\ Key("Normal") /\ app.sid < MaxStarts
  /\ LET n == app.sid + 1
     IN  /\ app' = Starting(app, n)
         /\ session' = [session EXCEPT ![n].handler = n]
         /\ conn' = [c \in Start |->
              IF c = n THEN [NoConn EXCEPT !.stage = "start", !.obj = n, !.auto = app.auto]
              ELSE IF c = app.cancel THEN [conn[c] EXCEPT !.cancelled = TRUE] ELSE conn[c]]
  /\ stopped' = stopped \cup ({app.cancel} \ {0})
  /\ UNCHANGED <<tasks, sends>>

\* m: the screen's flag and the session's.
MuteKey ==
  /\ Key("Normal")
  /\ app' = [app EXCEPT !.muted = ~@]
  /\ session' = [session EXCEPT ![app.obj].muted = ~app.muted]
  /\ UNCHANGED <<conn, tasks, sends, stopped>>

\* a: the screen's configuration; a running connection keeps its copy.
AutoAcceptKey ==
  /\ Key("Normal")
  /\ app' = [app EXCEPT !.auto = ~@]
  /\ UNCHANGED <<session, conn, tasks, sends, stopped>>

\* c and r open an input line, Esc closes it.
InputKey ==
  /\ \/ Key("Normal") /\ \E m \in {"CallInput", "RoomInput"} : app' = [app EXCEPT !.mode = m]
     \/ /\ Key("CallInput") \/ Key("RoomInput")
        /\ app' = [app EXCEPT !.mode = "Normal"]
  /\ UNCHANGED <<session, conn, tasks, sends, stopped>>

\* A packet for a spawned task; keys makes it distinct.
Spawn(kind, to) == [kind |-> kind, to |-> to, obj |-> app.obj, key |-> keys]

\* Where the screen goes back to when a call is over.
Resting(a) == [a EXCEPT !.state = IF a.cancel # 0 THEN "Standby" ELSE "Idle", !.with = None]

\* hangup: tell the daemon about the call and the room, and forget them.
Hangup ==
  LET s == session[app.obj]
  IN  /\ session' = [session EXCEPT ![app.obj].target = None, ![app.obj].room = FALSE]
      /\ sends' = sends \cup (IF s.target # None THEN {Spawn("Hangup", s.target)} ELSE {})
                        \cup (IF s.room THEN {Spawn("Leave", None)} ELSE {})

HangupKey ==
  /\ Key("Normal") /\ Hangup
  /\ app' = Resting(app)
  /\ UNCHANGED <<conn, tasks, stopped>>

\* q, or Ctrl-C in any mode: hang up, cancel the connection and leave the loop.
QuitKey ==
  /\ app.mode # "Quit" /\ Key(app.mode) /\ Hangup
  /\ app' = [Resting(app) EXCEPT !.mode = "Quit", !.cancel = 0]
  /\ conn' = [n \in Start |-> IF n = app.cancel
                                THEN [conn[n] EXCEPT !.cancelled = TRUE] ELSE conn[n]]
  /\ stopped' = stopped \cup ({app.cancel} \ {0})
  /\ UNCHANGED tasks

\* start_call: a short ID of fewer than twelve characters is refused.
SubmitCall ==
  /\ Key("CallInput")
  /\ \/ /\ app' = [app EXCEPT !.mode = "Normal", !.state = "Standby", !.with = None]
        /\ UNCHANGED <<session, sends>>
     \/ \E p \in Peer :
          /\ app' = [app EXCEPT !.mode = "Normal", !.state = "Connecting", !.with = p]
          /\ session' = [session EXCEPT ![app.obj].target = p]
          /\ sends' = sends \cup {Spawn("Call", p)}
  /\ UNCHANGED <<conn, tasks, stopped>>

\* start_room
SubmitRoom ==
  /\ Key("RoomInput")
  /\ app' = [app EXCEPT !.mode = "Normal", !.state = "InRoom", !.with = None]
  /\ session' = [session EXCEPT ![app.obj].room = TRUE]
  /\ sends' = sends \cup {Spawn("Join", None)}
  /\ UNCHANGED <<conn, tasks, stopped>>

\* The oneshot of the prompt on screen carries the answer.
Answered(yes) ==
  [prompt EXCEPT ![app.responder].answer = IF yes THEN "yes" ELSE "no"]

AcceptKey ==
  /\ Key("IncomingCall")
  /\ prompt' = Answered(TRUE)
  /\ app' = [app EXCEPT !.mode = "Normal", !.state = "InCall", !.with = app.from,
                        !.from = None, !.responder = 0]
  /\ UNCHANGED <<session, conn, incoming, notices, events, sends, sent, packets, stopped>>

RejectKey ==
  /\ Key("IncomingCall")
  /\ prompt' = Answered(FALSE)
  /\ app' = [app EXCEPT !.mode = "Normal", !.from = None, !.responder = 0]
  /\ session' = [session EXCEPT ![app.obj].target = None]
  /\ UNCHANGED <<conn, incoming, notices, events, sends, sent, packets, stopped>>

------------------------------------------------------------------------------
(* Tasks *)

ui == <<app, keys, stopped>>

\* setup_data_channel: the new channel becomes the session's.
SetupChannel(n) ==
  /\ conn[n].stage = "start"
  /\ conn' = [conn EXCEPT ![n].stage = "handshake"]
  /\ session' = [session EXCEPT ![conn[n].obj].channel = n]
  /\ UNCHANGED <<ui, tasks, sends>>

\* The offer is answered and the audio engine runs.
Connected(n) ==
  /\ conn[n].stage = "handshake"
  /\ conn' = [conn EXCEPT ![n].stage = "running"]
  /\ UNCHANGED <<ui, session, tasks, sends>>

\* Mutant: only a cancelled task reports its end.
EndConnectionQuietly(n) ==
  /\ \/ conn[n].stage \in {"start", "handshake"}
     \/ conn[n].stage = "running" /\ conn[n].cancelled
  /\ conn' = [conn EXCEPT ![n].stage = "ended"]
  /\ events' = IF conn[n].cancelled
                 THEN Append(events, [kind |-> "SessionEnded", who |-> None, id |-> n])
                 ELSE events
  /\ UNCHANGED <<ui, session, incoming, notices, prompt, sends, sent, packets>>

\* The task returns: an error before it runs, or the cancellation, which it
\* only looks at when it does.
EndConnection(n) ==
  /\ \/ conn[n].stage \in {"start", "handshake"}
     \/ conn[n].stage = "running" /\ conn[n].cancelled
  /\ conn' = [conn EXCEPT ![n].stage = "ended"]
  /\ events' = Append(events, [kind |-> "SessionEnded", who |-> None, id |-> n])
  /\ UNCHANGED <<ui, session, incoming, notices, prompt, sends, sent, packets>>

\* The daemon sends a packet on a running connection: a request from anyone, an
\* answer from a user who was called, the end of a call there may have been.
Receive(n) ==
  /\ conn[n].stage = "running" /\ packets < MaxPackets
  /\ \E k \in {"Request", "Accepted", "Rejected", "Ended"}, who \in Peer \cup {Me} :
       /\ LET called == \E x \in sent : x.kind = "Call" /\ x.to = who
              asked == \E p \in Prompt : prompt[p].from = who
          IN  (k = "Request") \/ called \/ (k = "Ended" /\ asked)
       /\ conn' = [conn EXCEPT ![n].inbox = Append(@, [kind |-> k, who |-> who])]
  /\ packets' = packets + 1
  /\ UNCHANGED <<ui, session, incoming, notices, events, prompt, sends, sent>>

\* A packet the DataChannel's own task sends is lost when the channel is closed.
Sending(n, kind, to, id) ==
  IF conn[n].stage = "running"
    THEN sent \cup {[kind |-> kind, to |-> to, on |-> n, id |-> id]} ELSE sent

\* The numbers left for prompts, and the one a new prompt gets.  A prompt takes
\* a packet, so that there is one left whenever a request is answered.
Unused == {p \in Prompt : prompt[p].answer = "none"}
NextPrompt == CHOOSE p \in Unused : TRUE

\* Mutant: a request accepted at once is put to the user as well.
AnswerAlsoPrompts(n) ==
  LET o == conn[n].obj
      p == NextPrompt
      who == conn[n].caller
  IN  /\ who # None /\ Unused # {}
      /\ session' = [session EXCEPT ![o].target = who]
      /\ prompt' = [prompt EXCEPT ![p] = [from |-> who, on |-> n,
                       answer |-> IF conn[n].at_once THEN "auto" ELSE "waiting"]]
      /\ sent' = IF conn[n].at_once THEN Sending(n, "Accept", who, p) ELSE sent
      /\ incoming' = [incoming EXCEPT ![session[o].handler] =
                        Append(@, [who |-> who, id |-> p])]
      /\ conn' = [conn EXCEPT ![n].caller = None, ![n].at_once = FALSE]
      /\ UNCHANGED <<ui, notices, events, sends, packets>>

\* dispatch_client_packet, CallRequest, after the target was read: the caller
\* becomes the target; the call is accepted at once or put to the user.
AnswerRequest(n) ==
  LET o == conn[n].obj
      p == NextPrompt
      who == conn[n].caller
  IN  /\ who # None /\ Unused # {}
      /\ session' = [session EXCEPT ![o].target = who]
      /\ prompt' = [prompt EXCEPT ![p] = [from |-> who, on |-> n,
                       answer |-> IF conn[n].at_once THEN "auto" ELSE "waiting"]]
      /\ sent' = IF conn[n].at_once THEN Sending(n, "Accept", who, p) ELSE sent
      /\ incoming' = IF conn[n].at_once THEN incoming
                     ELSE [incoming EXCEPT ![session[o].handler] =
                             Append(@, [who |-> who, id |-> p])]
      /\ conn' = [conn EXCEPT ![n].caller = None, ![n].at_once = FALSE]
      /\ UNCHANGED <<ui, notices, events, sends, packets>>

\* dispatch_client_packet, CallRequest: ignored from oneself; the task decides
\* on the target the session has now.
Request(n, who) ==
  /\ conn' = IF who = Me THEN [conn EXCEPT ![n].inbox = Tail(@)]
             ELSE [conn EXCEPT ![n].inbox = Tail(@), ![n].caller = who,
                     ![n].at_once = (conn[n].auto \/ session[conn[n].obj].target = who)]
  /\ UNCHANGED <<session, incoming, notices, prompt, sent>>

\* dispatch_client_packet, the answers and the end of a call: the target is
\* set or cleared whoever they are about, and the handler is told.
\* ConnectionError acts as a rejection does.
Notice(n, kind, who) ==
  LET o == conn[n].obj
  IN  /\ session' = [session EXCEPT ![o].target = IF kind = "Accepted" THEN who ELSE None]
      /\ notices' = [notices EXCEPT ![session[o].handler] =
                       Append(@, [kind |-> kind, who |-> who])]
      /\ conn' = [conn EXCEPT ![n].inbox = Tail(@)]
      /\ UNCHANGED <<incoming, prompt, sent>>

Dispatch(n) ==
  /\ conn[n].inbox # <<>> /\ conn[n].caller = None
  /\ LET packet == Head(conn[n].inbox)
     IN  IF packet.kind = "Request" THEN Request(n, packet.who)
                                    ELSE Notice(n, packet.kind, packet.who)
  /\ UNCHANGED <<ui, events, sends, packets>>

\* setup_incoming_call_handler and setup_call_notification_handler: each task
\* forwards its queue to the screen, in no order between the two.
ForwardCall(n) ==
  /\ incoming[n] # <<>>
  /\ LET c == Head(incoming[n])
     IN  events' = Append(events, [kind |-> "IncomingCall", who |-> c.who, id |-> c.id])
  /\ incoming' = [incoming EXCEPT ![n] = Tail(@)]
  /\ UNCHANGED <<ui, session, conn, notices, prompt, sends, sent, packets>>

ForwardNotice(n) ==
  /\ notices[n] # <<>>
  /\ LET c == Head(notices[n])
     IN  events' = Append(events, [kind |-> c.kind, who |-> c.who, id |-> n])
  /\ notices' = [notices EXCEPT ![n] = Tail(@)]
  /\ UNCHANGED <<ui, session, conn, incoming, prompt, sends, sent, packets>>

\* The task that waits for the answer to a prompt sends it.
Reply(p) ==
  /\ prompt[p].answer \in {"yes", "no"}
  /\ sent' = Sending(prompt[p].on, IF prompt[p].answer = "yes" THEN "Accept" ELSE "Reject",
                     prompt[p].from, p)
  /\ prompt' = [prompt EXCEPT ![p].answer = IF @ = "yes" THEN "accepted" ELSE "rejected"]
  /\ UNCHANGED <<ui, session, conn, incoming, notices, events, sends, packets>>

\* send_packet, in a task of its own, on the channel the session has by then.
SendPacket ==
  /\ \E x \in sends :
       /\ sends' = sends \ {x}
       /\ LET n == session[x.obj].channel
          IN  sent' = IF n = 0 THEN sent ELSE Sending(n, x.kind, x.to, 0)
  /\ UNCHANGED <<ui, session, conn, incoming, notices, events, prompt, packets>>

------------------------------------------------------------------------------
(* handle_app_event *)

\* Mutant: the end of any standby counts.
SessionEndedAny(n) ==
  /\ app' = [app EXCEPT !.state = "Idle", !.with = None, !.cancel = 0]
  /\ conn' = [c \in Start |-> IF c = app.cancel
                                THEN [conn[c] EXCEPT !.cancelled = TRUE] ELSE conn[c]]
  /\ UNCHANGED <<session, prompt>>

\* The end of the current standby; dropping cancel_tx cancels what it belongs to.
SessionEnded(n) ==
  /\ IF app.sid = n
       THEN /\ app' = [app EXCEPT !.state = "Idle", !.with = None, !.cancel = 0]
            /\ conn' = [c \in Start |-> IF c = app.cancel
                          THEN [conn[c] EXCEPT !.cancelled = TRUE] ELSE conn[c]]
       ELSE UNCHANGED <<app, conn>>
  /\ UNCHANGED <<session, prompt>>

\* CallAccepted, CallRejected and CallEnded: whoever they are about.
CallNotice(e) ==
  /\ app' = IF e.kind = "Accepted" THEN [app EXCEPT !.state = "InCall", !.with = e.who]
                                   ELSE Resting(app)
  /\ session' = IF e.kind = "Accepted" THEN session
                ELSE [session EXCEPT ![app.obj].target = None,
                                     ![app.obj].room = (@ /\ e.kind # "Ended")]
  /\ UNCHANGED <<conn, prompt>>

\* Mutant: a new prompt leaves the input line the user is typing in.
IncomingCallKeepsMode(e) ==
  /\ app' = [app EXCEPT !.mode = IF @ = "Normal" THEN "IncomingCall" ELSE @,
                        !.from = e.who, !.responder = e.id]
  /\ prompt' = [p \in Prompt |-> IF p = app.responder
                                   THEN [prompt[p] EXCEPT !.answer = "dropped"] ELSE prompt[p]]
  /\ UNCHANGED <<session, conn>>

\* IncomingCall: accepted at once from the user on screen or under the current
\* setting, otherwise put to the user in place of the prompt on screen.
IncomingCall(e) ==
  /\ IF app.auto \/ (app.state \in {"Connecting", "InCall"} /\ app.with = e.who)
       THEN /\ app' = [app EXCEPT !.state = "InCall", !.with = e.who]
            /\ prompt' = [prompt EXCEPT ![e.id].answer = "yes"]
       ELSE /\ app' = [app EXCEPT !.mode = "IncomingCall", !.from = e.who,
                                  !.responder = e.id]
            /\ prompt' = [p \in Prompt |-> IF p = app.responder
                 THEN [prompt[p] EXCEPT !.answer = "dropped"] ELSE prompt[p]]
  /\ UNCHANGED <<session, conn>>

HandleEvent ==
  /\ app.mode # "Quit" /\ events # <<>>
  /\ LET e == Head(events)
     IN  CASE e.kind = "SessionEnded" -> SessionEnded(e.id)
           [] e.kind = "IncomingCall" -> IncomingCall(e)
           [] OTHER -> CallNotice(e)
  /\ events' = Tail(events)
  /\ UNCHANGED <<incoming, notices, sends, sent, packets, keys, stopped>>

------------------------------------------------------------------------------
Keys ==
  \/ StandbyKey \/ IdleKey \/ RenewKey \/ MuteKey \/ AutoAcceptKey \/ InputKey
  \/ HangupKey \/ QuitKey \/ SubmitCall \/ SubmitRoom \/ AcceptKey \/ RejectKey

Task(n) ==
  SetupChannel(n) \/ Connected(n) \/ EndConnection(n) \/ Dispatch(n)
    \/ AnswerRequest(n) \/ ForwardCall(n) \/ ForwardNotice(n)

ClientNext ==
  \/ Keys \/ HandleEvent \/ SendPacket
  \/ \E n \in Start : Task(n) \/ Receive(n)
  \/ \E p \in Prompt : Reply(p)

ClientSpec == ClientInit /\ [][ClientNext]_vars

------------------------------------------------------------------------------
(* Properties *)

\* The screen, the sessions and the prompts are well formed.
ClientTypeOK ==
  /\ app.mode \in {"Normal", "CallInput", "RoomInput", "IncomingCall", "Quit"}
  /\ app.state \in {"Idle", "Standby", "Connecting", "InCall", "InRoom"}
  /\ app.with \in Peer \cup {None} /\ app.from \in Peer \cup {None}
  /\ app.sid \in Start /\ app.cancel \in {0, app.sid}
  /\ \A o \in Start : session[o].target \in Peer \cup {None}
                      /\ session[o].handler \in 0 .. MaxStarts
  /\ \A p \in Prompt : prompt[p].answer \in
       {"none", "auto", "waiting", "yes", "no", "accepted", "rejected", "dropped"}

\* A call request that waits for the user is on its way to the screen or is the
\* one on screen, under its caller's name and in the mode where y and n answer
\* it: no request waits for an answer that can no longer be given.
\* Screen, sessions and prompts are well formed throughout.
WaitingIsAnswerable ==
  /\ ClientTypeOK
  /\ app.mode # "Quit" =>
    \A p \in Prompt : prompt[p].answer = "waiting" =>
      \/ \E n \in Start : \E i \in 1 .. Len(incoming[n]) : incoming[n][i].id = p
      \/ \E i \in 1 .. Len(events) : events[i].kind = "IncomingCall" /\ events[i].id = p
      \/ app.responder = p /\ app.from = prompt[p].from /\ app.mode = "IncomingCall"

\* Each call request is answered at most once, on the connection it came by,
\* although the DataChannel's task and the screen both decide about it.
AnsweredAtMostOnce ==
  \A x, y \in {z \in sent : z.kind \in {"Accept", "Reject"}} :
    /\ x.id = y.id => x = y
    /\ x.on = prompt[x.id].on /\ x.to = prompt[x.id].from

\* A standby is cancelled by the user's keys only: the late end of a standby
\* that was stopped before never takes down the one started since.
OnlyTheUserStops ==
  \A n \in Start : conn[n].cancelled => n \in stopped \/ conn[n].stage = "ended"

\* The screen never stays in standby on a connection that is gone: however the
\* connection ended, its end is still to be read from the event queue.
EndIsReported ==
  (app.cancel # 0 /\ conn[app.cancel].stage = "ended") =>
    \E i \in 1 .. Len(events) :
      events[i].kind = "SessionEnded" /\ events[i].id = app.cancel

\* With auto_accept off, a request is accepted only after the user was asked,
\* or from a user this user is calling (docs/WPIP-07.md: "MUST prompt the user
\* interactively before responding").
AcceptsOnlyWhenAsked ==
  [][\A p \in Prompt :
       (prompt'[p].answer = "auto" /\ prompt[p].answer = "none") =>
         app.auto \/ (app.state \in {"Connecting", "InCall"} /\ app.with = prompt'[p].from)]_vars
=============================================================================
