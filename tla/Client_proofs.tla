---------------------------- MODULE Client_proofs ----------------------------
(***************************************************************************)
(* The invariants of the client's screen and tasks, for any users and any  *)
(* number of starts, packets and keys.                                     *)
(*                                                                         *)
(* A standby's end is news the screen reads later, when the user may have  *)
(* started the next one.  The invariant says which standbys can be in the  *)
(* news, and that the one on screen is there once its connection is gone.  *)
(*                                                                         *)
(* A request is handed from the DataChannel's task to a handler, to the    *)
(* screen's queue and to the screen.  The invariant finds each one that    *)
(* waits in exactly one of those places, so that it is answered once.      *)
(***************************************************************************)
EXTENDS Client, Integers, TLAPS

\* A user, a standby and a prompt, or none.
Someone == Peer \cup {None}
Standby == Start \cup {0}
Asking == Prompt \cup {0}

\* Notices are about users who were called or who called, never about oneself.
Packet == [kind : {"Request"}, who : Peer \cup {Me}]
            \cup [kind : {"Accepted", "Rejected", "Ended"}, who : Peer]
Call == [who : Peer, id : Prompt]
Told == [kind : {"Accepted", "Rejected", "Ended"}, who : Peer]
Event == [kind : {"SessionEnded"}, who : {None}, id : Start]
           \cup [kind : {"IncomingCall"}, who : Peer, id : Prompt]
           \cup [kind : {"Accepted", "Rejected", "Ended"}, who : Peer, id : Start]

\* The screen, a session, a connection, a prompt and what is sent, field by
\* field.
Screen ==
  [mode : {"Normal", "CallInput", "RoomInput", "IncomingCall", "Quit"},
   state : {"Idle", "Standby", "Connecting", "InCall", "InRoom"},
   with : Someone, sid : Start, cancel : Standby, from : Someone,
   responder : Asking, auto : BOOLEAN, muted : BOOLEAN, obj : Start]
Shared == [target : Someone, room : BOOLEAN, handler : Standby, channel : Standby,
           muted : BOOLEAN]
ConnState ==
  [stage : {"none", "start", "handshake", "running", "ended"}, obj : Standby,
   auto : BOOLEAN, cancelled : BOOLEAN, inbox : Seq(Packet), caller : Someone,
   at_once : BOOLEAN]
Asked == [from : Someone, on : Standby,
          answer : {"none", "auto", "waiting", "yes", "no", "accepted", "rejected", "dropped"}]
Unsent == [kind : {"Call"}, to : Peer, obj : Start, key : Nat]
            \cup [kind : {"Hangup", "Leave", "Join"}, to : Someone, obj : Start, key : Nat]
Sent == [kind : {"Call"}, to : Peer, on : Start, id : {0}]
          \cup [kind : {"Hangup", "Leave", "Join"}, to : Someone, on : Start, id : {0}]
          \cup [kind : {"Accept", "Reject"}, to : Someone, on : Start, id : Prompt]

\* The types of what the keys work on, and of what the tasks hand over.
ScreenTypes ==
  /\ app \in Screen /\ keys \in Nat /\ packets \in Nat /\ stopped \subseteq Start
  /\ session \in [Start -> Shared] /\ conn \in [Start -> ConnState]
QueueTypes ==
  /\ incoming \in [Start -> Seq(Call)] /\ notices \in [Start -> Seq(Told)]
  /\ events \in Seq(Event) /\ prompt \in [Prompt -> Asked]
  /\ sends \subseteq Unsent /\ sent \subseteq Sent

\* The elements of a queue, the calls and the ends among the screen's events.
Items(q) == {q[i] : i \in 1 .. Len(q)}
Calls(q) == {[who |-> q[i].who, id |-> q[i].id] :
               i \in {j \in 1 .. Len(q) : q[j].kind = "IncomingCall"}}
Ended(q) == {q[i].id : i \in {j \in 1 .. Len(q) : q[j].kind = "SessionEnded"}}

\* No request is twice in a queue.
Once(q) == \A i, j \in 1 .. Len(q) : q[i].id = q[j].id => i = j
OnceCalled(q) ==
  \A i, j \in 1 .. Len(q) :
    (q[i].kind = "IncomingCall" /\ q[j].kind = "IncomingCall" /\ q[i].id = q[j].id) => i = j

\* The standby on screen is the last one, or there is none.  Standbys to come
\* have no connection, those with one have a session with handlers; one is
\* cancelled by the user or has ended.  Only ended ones are reported, and the
\* end of the one on screen is reported before it is read.
StandbysOK ==
  /\ app.cancel \in {0, app.sid}
  /\ session[app.obj].handler \in Start
  /\ \A n \in Start :
       /\ n > app.sid => conn[n].stage = "none"
       /\ conn[n].stage = "none" => conn[n].inbox = <<>> /\ conn[n].caller = None
       /\ conn[n].stage # "none" => conn[n].obj \in Start /\ session[conn[n].obj].handler \in Start
       /\ conn[n].cancelled => n \in stopped \/ conn[n].stage = "ended"
  /\ \A n \in Ended(events) : conn[n].stage = "ended"
  /\ (app.cancel # 0 /\ conn[app.cancel].stage = "ended") => app.cancel \in Ended(events)

\* Prompt p waits for an answer to who.
Awaits(p, who) == p \in Prompt /\ prompt[p].answer = "waiting" /\ prompt[p].from = who

\* Whatever is queued or on screen is a prompt that waits, under its caller's
\* name, and it is there once: in one queue, or in one event, or on screen.
PlacesOK ==
  /\ \A n \in Start : Once(incoming[n]) /\ \A c \in Items(incoming[n]) : Awaits(c.id, c.who)
  /\ OnceCalled(events) /\ \A c \in Calls(events) : Awaits(c.id, c.who) /\ c.id # app.responder
  /\ \A n \in Start : \A c \in Items(incoming[n]) :
       /\ c.id # app.responder
       /\ \A d \in Calls(events) : d.id # c.id
       /\ \A m \in Start : \A d \in Items(incoming[m]) : m # n => d.id # c.id
  /\ app.mode = "IncomingCall" => app.responder # 0
  /\ app.responder # 0 => Awaits(app.responder, app.from) /\ app.mode \in {"IncomingCall", "Quit"}

\* Until the user quits, every prompt that waits is in one of those places.
FoundOK ==
  app.mode # "Quit" =>
    \A p \in Prompt : prompt[p].answer = "waiting" =>
      \/ \E n \in Start : \E c \in Items(incoming[n]) : c.id = p
      \/ \E c \in Calls(events) : c.id = p
      \/ app.responder = p

\* An answer that was sent is the one the prompt has, to the caller, on the
\* connection the request came by.
AnswersOK ==
  /\ \A p \in Prompt : prompt[p].answer # "none" => prompt[p].on \in Start
  /\ \A x \in sent :
       /\ x.kind = "Accept" => prompt[x.id].answer \in {"auto", "accepted"}
       /\ x.kind = "Reject" => prompt[x.id].answer = "rejected"
       /\ x.kind \in {"Accept", "Reject"} => x.on = prompt[x.id].on /\ x.to = prompt[x.id].from

\* The inductive invariant.
ClientInv == ScreenTypes /\ QueueTypes /\ StandbysOK /\ PlacesOK /\ FoundOK /\ AnswersOK

-----------------------------------------------------------------------------
\* Standbys and prompts are numbered from one.
LEMMA Numbers ==
  /\ 0 \notin Start /\ 0 \notin Prompt /\ 1 \in Start
  /\ \A n \in Start : n < MaxStarts => n + 1 \in Start /\ n + 1 > n /\ n + 1 # n
  /\ \A m, n \in Start : m > n + 1 => m > n
BY BoundsAssumption DEF Start, Prompt

\* What a queue holds stays of its type.
LEMMA Queue ==
  ASSUME NEW S, NEW q \in Seq(S), NEW x \in S
  PROVE  /\ Append(q, x) \in Seq(S)
         /\ q # <<>> => Tail(q) \in Seq(S) /\ Head(q) \in S
OBVIOUS

\* Where the elements of a queue are once one is put at its end.
LEMMA AtEnd ==
  ASSUME NEW S, NEW q \in Seq(S), NEW x \in S
  PROVE  /\ \A i \in 1 .. Len(Append(q, x)) :
              \/ i \in 1 .. Len(q) /\ Append(q, x)[i] = q[i]
              \/ i = Len(Append(q, x)) /\ Append(q, x)[i] = x
         /\ \A i \in 1 .. Len(q) : i \in 1 .. Len(Append(q, x)) /\ Append(q, x)[i] = q[i]
         /\ Len(Append(q, x)) \in 1 .. Len(Append(q, x))
         /\ Append(q, x)[Len(Append(q, x))] = x
OBVIOUS

\* The same when the first one is taken.
LEMMA AtFront ==
  ASSUME NEW S, NEW q \in Seq(S), q # <<>>
  PROVE  /\ \A i \in 1 .. Len(Tail(q)) : i + 1 \in 1 .. Len(q) /\ Tail(q)[i] = q[i + 1] /\ i + 1 # 1
         /\ \A i \in 1 .. Len(q) : i = 1 \/ (i - 1 \in 1 .. Len(Tail(q)) /\ Tail(q)[i - 1] = q[i])
         /\ \A i, j \in 1 .. Len(Tail(q)) : i + 1 = j + 1 => i = j
         /\ 1 \in 1 .. Len(q) /\ Head(q) = q[1]
OBVIOUS

\* A request put into a queue is its only new element, and there once.
LEMMA ItemsAppend ==
  ASSUME NEW q \in Seq(Call), NEW x \in Call
  PROVE  /\ Items(Append(q, x)) = Items(q) \cup {x}
         /\ (Once(q) /\ \A c \in Items(q) : c.id # x.id) => Once(Append(q, x))
<1> DEFINE t == Append(q, x)
<1>1. /\ \A i \in 1 .. Len(t) : (i \in 1 .. Len(q) /\ t[i] = q[i]) \/ (i = Len(t) /\ t[i] = x)
      /\ \A i \in 1 .. Len(q) : i \in 1 .. Len(t) /\ t[i] = q[i]
      /\ Len(t) \in 1 .. Len(t) /\ t[Len(t)] = x
  BY Zenon, AtEnd
<1> HIDE DEF t
<1>2. Items(t) = Items(q) \cup {x}
  BY ZenonT(60), <1>1 DEF Items
<1>3. (Once(q) /\ \A c \in Items(q) : c.id # x.id) => Once(t)
  BY ZenonT(60), <1>1 DEF Items, Once
<1> QED
  BY Zenon, <1>2, <1>3 DEF t

\* Taking the first request from a queue leaves the others, which differ from
\* it.
LEMMA ItemsTail ==
  ASSUME NEW q \in Seq(Call), q # <<>>
  PROVE  /\ Items(q) = Items(Tail(q)) \cup {Head(q)}
         /\ Once(q) => Once(Tail(q)) /\ \A c \in Items(Tail(q)) : c.id # Head(q).id
<1> DEFINE t == Tail(q)
<1>1. /\ \A i \in 1 .. Len(t) : i + 1 \in 1 .. Len(q) /\ t[i] = q[i + 1] /\ i + 1 # 1
      /\ \A i \in 1 .. Len(q) : i = 1 \/ (i - 1 \in 1 .. Len(t) /\ t[i - 1] = q[i])
      /\ \A i, j \in 1 .. Len(t) : i + 1 = j + 1 => i = j
      /\ 1 \in 1 .. Len(q) /\ Head(q) = q[1]
  BY Zenon, AtFront
<1> HIDE DEF t
<1>2. Items(q) = Items(t) \cup {Head(q)}
  <2>1. ASSUME NEW i \in 1 .. Len(q) PROVE q[i] \in Items(t) \/ q[i] = Head(q)
    <3>1. CASE i = 1
      BY Zenon, <1>1, <3>1
    <3>2. CASE i - 1 \in 1 .. Len(t) /\ t[i - 1] = q[i]
      BY Zenon, <3>2 DEF Items
    <3> QED
      BY Zenon, <1>1, <3>1, <3>2
  <2>2. ASSUME NEW i \in 1 .. Len(t) PROVE t[i] \in Items(q)
    <3>1. i + 1 \in 1 .. Len(q) /\ t[i] = q[i + 1]
      BY Zenon, <1>1
    <3> QED
      BY Zenon, <3>1 DEF Items
  <2>3. Head(q) \in Items(q)
    BY Zenon, <1>1 DEF Items
  <2>4. \A c \in Items(q) : c \in Items(t) \/ c = Head(q)
    BY Zenon, <2>1 DEF Items
  <2>5. \A c \in Items(t) : c \in Items(q)
    BY Zenon, <2>2 DEF Items
  <2> QED
    BY Zenon, <2>3, <2>4, <2>5
<1>3. Once(q) => Once(t)
  BY SMTT(60), <1>1 DEF Once
<1>4. Once(q) => \A c \in Items(t) : c.id # Head(q).id
  BY SMTT(20), <1>1 DEF Items, Once
<1> QED
  BY Zenon, <1>2, <1>3, <1>4 DEF t

\* What an event put into the screen's queue adds to its calls and ends.
LEMMA EventsAppend ==
  ASSUME NEW q \in Seq(Event), NEW x \in Event
  PROVE  /\ x.kind # "IncomingCall" => Calls(Append(q, x)) = Calls(q)
         /\ x.kind = "IncomingCall" =>
              Calls(Append(q, x)) = Calls(q) \cup {[who |-> x.who, id |-> x.id]}
         /\ x.kind # "SessionEnded" => Ended(Append(q, x)) = Ended(q)
         /\ x.kind = "SessionEnded" => Ended(Append(q, x)) = Ended(q) \cup {x.id}
         /\ (OnceCalled(q) /\ (x.kind = "IncomingCall" => \A c \in Calls(q) : c.id # x.id))
              => OnceCalled(Append(q, x))
<1> DEFINE t == Append(q, x)
<1>1. /\ \A i \in 1 .. Len(t) : (i \in 1 .. Len(q) /\ t[i] = q[i]) \/ (i = Len(t) /\ t[i] = x)
      /\ \A i \in 1 .. Len(q) : i \in 1 .. Len(t) /\ t[i] = q[i]
      /\ Len(t) \in 1 .. Len(t) /\ t[Len(t)] = x
  BY Zenon, AtEnd
<1> HIDE DEF t
<1>2. x.kind # "IncomingCall" => Calls(t) = Calls(q)
  BY ZenonT(60), <1>1 DEF Calls
<1>3. x.kind = "IncomingCall" => Calls(t) = Calls(q) \cup {[who |-> x.who, id |-> x.id]}
  BY ZenonT(60), <1>1 DEF Calls
<1>4. x.kind # "SessionEnded" => Ended(t) = Ended(q)
  BY ZenonT(60), <1>1 DEF Ended
<1>5. x.kind = "SessionEnded" => Ended(t) = Ended(q) \cup {x.id}
  BY ZenonT(60), <1>1 DEF Ended
<1>6. \A i \in 1 .. Len(q) : q[i].kind = "IncomingCall" => [who |-> q[i].who, id |-> q[i].id] \in Calls(q)
  BY Zenon DEF Calls
<1>7. (OnceCalled(q) /\ (x.kind = "IncomingCall" => \A c \in Calls(q) : c.id # x.id)) => OnceCalled(t)
  <2>1. ASSUME OnceCalled(q), x.kind = "IncomingCall" => \A c \in Calls(q) : c.id # x.id,
               NEW i \in 1 .. Len(t), NEW j \in 1 .. Len(t),
               t[i].kind = "IncomingCall", t[j].kind = "IncomingCall", t[i].id = t[j].id
        PROVE  i = j
    <3>1. CASE i \in 1 .. Len(q) /\ t[i] = q[i] /\ j \in 1 .. Len(q) /\ t[j] = q[j]
      BY Zenon, <2>1, <3>1 DEF OnceCalled
    <3>2. ASSUME NEW k \in 1 .. Len(q), t[k] = q[k], t[k].kind = "IncomingCall",
                 x.kind = "IncomingCall"
          PROVE  t[k].id # x.id
      <4>1. [who |-> q[k].who, id |-> q[k].id] \in Calls(q)
        BY Zenon, <1>6, <3>2
      <4> QED
        BY Zenon, <2>1, <3>2, <4>1
    <3> QED
      BY Zenon, <1>1, <2>1, <3>1, <3>2
  <2> QED
    BY Zenon, <2>1 DEF OnceCalled
<1> QED
  BY Zenon, <1>2, <1>3, <1>4, <1>5, <1>7 DEF t

\* What the first event takes from them.
LEMMA EventsTail ==
  ASSUME NEW q \in Seq(Event), q # <<>>
  PROVE  /\ Head(q).kind # "IncomingCall" => Calls(Tail(q)) = Calls(q)
         /\ Head(q).kind = "IncomingCall" =>
              Calls(q) = Calls(Tail(q)) \cup {[who |-> Head(q).who, id |-> Head(q).id]}
         /\ Head(q).kind # "SessionEnded" => Ended(Tail(q)) = Ended(q)
         /\ Head(q).kind = "SessionEnded" => Ended(q) = Ended(Tail(q)) \cup {Head(q).id}
         /\ OnceCalled(q) =>
              /\ OnceCalled(Tail(q))
              /\ Head(q).kind = "IncomingCall" => \A c \in Calls(Tail(q)) : c.id # Head(q).id
<1> DEFINE t == Tail(q)
<1>1. /\ \A i \in 1 .. Len(t) : i + 1 \in 1 .. Len(q) /\ t[i] = q[i + 1] /\ i + 1 # 1
      /\ \A i \in 1 .. Len(q) : i = 1 \/ (i - 1 \in 1 .. Len(t) /\ t[i - 1] = q[i])
      /\ \A i, j \in 1 .. Len(t) : i + 1 = j + 1 => i = j
      /\ 1 \in 1 .. Len(q) /\ Head(q) = q[1]
  BY Zenon, AtFront
<1> HIDE DEF t
<1>2. /\ \A i \in 1 .. Len(t) : \E k \in 1 .. Len(q) : t[i] = q[k]
      /\ \A k \in 1 .. Len(q) : q[k] = Head(q) \/ \E i \in 1 .. Len(t) : t[i] = q[k]
      /\ \E k \in 1 .. Len(q) : q[k] = Head(q)
  BY Zenon, <1>1
<1>3. /\ \A i \in 1 .. Len(t) : t[i].kind = "IncomingCall" =>
            [who |-> t[i].who, id |-> t[i].id] \in Calls(q)
      /\ Head(q).kind = "IncomingCall" => [who |-> Head(q).who, id |-> Head(q).id] \in Calls(q)
      /\ \A i \in 1 .. Len(q) : q[i].kind = "IncomingCall" =>
            \/ q[i] = Head(q)
            \/ [who |-> q[i].who, id |-> q[i].id] \in Calls(t)
  BY ZenonT(60), <1>2 DEF Calls
<1>4. /\ \A i \in 1 .. Len(t) : t[i].kind = "SessionEnded" => t[i].id \in Ended(q)
      /\ Head(q).kind = "SessionEnded" => Head(q).id \in Ended(q)
      /\ \A i \in 1 .. Len(q) : q[i].kind = "SessionEnded" => q[i] = Head(q) \/ q[i].id \in Ended(t)
  BY ZenonT(60), <1>2 DEF Ended
<1>5. /\ Head(q).kind # "IncomingCall" => Calls(t) = Calls(q)
      /\ Head(q).kind = "IncomingCall" =>
           Calls(q) = Calls(t) \cup {[who |-> Head(q).who, id |-> Head(q).id]}
  BY ZenonT(60), <1>3 DEF Calls
<1>8. /\ Head(q).kind # "SessionEnded" => Ended(t) = Ended(q)
      /\ Head(q).kind = "SessionEnded" => Ended(q) = Ended(t) \cup {Head(q).id}
  BY ZenonT(60), <1>4 DEF Ended
<1>6. OnceCalled(q) => OnceCalled(t)
  BY SMTT(60), <1>1 DEF OnceCalled
<1>7. (OnceCalled(q) /\ Head(q).kind = "IncomingCall") => \A c \in Calls(t) : c.id # Head(q).id
  BY SMTT(20), <1>1 DEF OnceCalled, Calls
<1> QED
  BY Zenon, <1>5, <1>6, <1>7, <1>8 DEF t

-----------------------------------------------------------------------------
\* The sessions are well formed, and have the handlers they had.
SameHandlers(s, t) == t \in [Start -> Shared] /\ \A k \in Start : t[k].handler = s[k].handler

\* An assignment to other fields of a session keeps the handlers.
LEMMA SessionSet ==
  ASSUME NEW s \in [Start -> Shared], NEW o, NEW t
  PROVE  /\ \A v \in Someone : t = [s EXCEPT ![o].target = v] => SameHandlers(s, t)
         /\ \A v \in Someone, b \in BOOLEAN :
              t = [s EXCEPT ![o].target = v, ![o].room = b] => SameHandlers(s, t)
         /\ \A b \in BOOLEAN : t = [s EXCEPT ![o].room = b] => SameHandlers(s, t)
         /\ \A b \in BOOLEAN : t = [s EXCEPT ![o].muted = b] => SameHandlers(s, t)
         /\ \A n \in Start : t = [s EXCEPT ![o].channel = n] => SameHandlers(s, t)
<1> USE DEF SameHandlers
<1>1. ASSUME NEW v \in Someone, t = [s EXCEPT ![o].target = v] PROVE SameHandlers(s, t)
  BY ZenonT(60), <1>1 DEF Shared
<1>2. ASSUME NEW v \in Someone, NEW b \in BOOLEAN, t = [s EXCEPT ![o].target = v, ![o].room = b]
      PROVE  SameHandlers(s, t)
  BY ZenonT(60), <1>2 DEF Shared
<1>3. ASSUME NEW b \in BOOLEAN, t = [s EXCEPT ![o].room = b] PROVE SameHandlers(s, t)
  BY ZenonT(60), <1>3 DEF Shared
<1>4. ASSUME NEW b \in BOOLEAN, t = [s EXCEPT ![o].muted = b] PROVE SameHandlers(s, t)
  BY ZenonT(60), <1>4 DEF Shared
<1>5. ASSUME NEW n \in Start, t = [s EXCEPT ![o].channel = n] PROVE SameHandlers(s, t)
  BY ZenonT(60), <1>5 DEF Shared, Standby
<1> QED
  BY Zenon, <1>1, <1>2, <1>3, <1>4, <1>5

\* An assignment to a session's handler changes that one.
LEMMA HandlerSet ==
  ASSUME NEW s \in [Start -> Shared], NEW o, NEW n \in Start, NEW t, t = [s EXCEPT ![o].handler = n]
  PROVE  /\ t \in [Start -> Shared]
         /\ \A k \in Start : t[k].handler = IF k = o THEN n ELSE s[k].handler
BY ZenonT(60) DEF Shared, Standby

\* Connection n has its stage, session and cancellation as before, and the
\* others are the same.
SameStage(c, d, n) ==
  /\ d \in [Start -> ConnState]
  /\ d[n].stage = c[n].stage /\ d[n].obj = c[n].obj /\ d[n].cancelled = c[n].cancelled
  /\ \A k \in Start : k # n => d[k] = c[k]

\* An assignment to a connection's inbox or to the request it is busy with
\* keeps its stage.
LEMMA ConnSet ==
  ASSUME NEW c \in [Start -> ConnState], NEW n \in Start, NEW d
  PROVE  /\ \A v \in Seq(Packet) : d = [c EXCEPT ![n].inbox = v] => SameStage(c, d, n)
         /\ \A v \in Seq(Packet), w \in Someone, b \in BOOLEAN :
              d = [c EXCEPT ![n].inbox = v, ![n].caller = w, ![n].at_once = b] => SameStage(c, d, n)
         /\ \A w \in Someone, b \in BOOLEAN :
              d = [c EXCEPT ![n].caller = w, ![n].at_once = b] => SameStage(c, d, n)
<1>1. ASSUME NEW v \in Seq(Packet), d = [c EXCEPT ![n].inbox = v] PROVE SameStage(c, d, n)
  BY ZenonT(60), <1>1 DEF ConnState, SameStage
<1>2. ASSUME NEW v \in Seq(Packet), NEW w \in Someone, NEW b \in BOOLEAN,
             d = [c EXCEPT ![n].inbox = v, ![n].caller = w, ![n].at_once = b]
      PROVE  SameStage(c, d, n)
  <2>1. PICK r \in ConnState : r = c[n]
    BY Zenon
  <2>2. PICK e : e = [r EXCEPT !.inbox = v, !.caller = w, !.at_once = b]
    BY Zenon
  <2>3. e \in ConnState /\ e.stage = r.stage /\ e.obj = r.obj /\ e.cancelled = r.cancelled
    BY ZenonT(60), <1>2, <2>2 DEF ConnState
  <2>4. d = [c EXCEPT ![n] = e]
    BY Zenon, <1>2, <2>1, <2>2
  <2> QED
    BY Zenon, <2>1, <2>3, <2>4 DEF SameStage
<1>3. ASSUME NEW w \in Someone, NEW b \in BOOLEAN, d = [c EXCEPT ![n].caller = w, ![n].at_once = b]
      PROVE  SameStage(c, d, n)
  BY ZenonT(60), <1>3 DEF ConnState, SameStage
<1> QED
  BY Zenon, <1>1, <1>2, <1>3

-----------------------------------------------------------------------------
\* What is in the screen's queue is about standbys and prompts.
LEMMA EndsOfStandbys ==
  ASSUME NEW q \in Seq(Event)
  PROVE  /\ Ended(q) \subseteq Start
         /\ Calls(q) \subseteq Call
<1>1. \A i \in 1 .. Len(q) : q[i] \in Event
  OBVIOUS
<1>2. \A e \in Event : /\ e.kind = "SessionEnded" => e.id \in Start
                       /\ e.kind = "IncomingCall" => e.who \in Peer /\ e.id \in Prompt
  BY Zenon DEF Event
<1>3. Ended(q) \subseteq Start
  BY Zenon, <1>1, <1>2 DEF Ended
<1>4. ASSUME NEW i \in 1 .. Len(q), q[i].kind = "IncomingCall"
      PROVE  [who |-> q[i].who, id |-> q[i].id] \in Call
  BY Zenon, <1>1, <1>2, <1>4 DEF Call
<1> QED
  BY Zenon, <1>3, <1>4 DEF Calls

\* A step that starts, cancels and ends no standby and moves no handler.
Quiet ==
  /\ app'.sid = app.sid /\ app'.cancel = app.cancel /\ app'.obj = app.obj /\ stopped' = stopped
  /\ \A k \in Start : session'[k].handler = session[k].handler

\* Such a step keeps what is known of the standbys.
LEMMA QuietStandbys ==
  ASSUME ClientInv, Quiet, Ended(events') = Ended(events),
         \A k \in Start :
           /\ conn'[k].stage = conn[k].stage /\ conn'[k].obj = conn[k].obj
           /\ conn'[k].cancelled = conn[k].cancelled
           /\ conn[k].stage = "none" => conn'[k].inbox = <<>> /\ conn'[k].caller = None
  PROVE  StandbysOK'
<1>1. app.obj \in Start /\ app.sid \in Start
  BY Zenon DEF ClientInv, ScreenTypes, Screen
<1>2. app'.cancel \in {0, app'.sid} /\ session'[app'.obj].handler \in Start
  BY SMTT(20), <1>1 DEF ClientInv, StandbysOK, Quiet
<1>3. ASSUME NEW n \in Start
      PROVE  /\ n > app'.sid => conn'[n].stage = "none"
             /\ conn'[n].stage = "none" => conn'[n].inbox = <<>> /\ conn'[n].caller = None
             /\ conn'[n].cancelled => n \in stopped' \/ conn'[n].stage = "ended"
             /\ conn'[n].stage # "none" =>
                  conn'[n].obj \in Start /\ session'[conn'[n].obj].handler \in Start
  BY SMTT(20), <1>3 DEF ClientInv, StandbysOK, Quiet
<1>4. Ended(events) \subseteq Start
  BY Zenon, EndsOfStandbys DEF ClientInv, QueueTypes
<1>5. /\ \A n \in Ended(events') : conn'[n].stage = "ended"
      /\ (app'.cancel # 0 /\ conn'[app'.cancel].stage = "ended") => app'.cancel \in Ended(events')
  BY SMTT(20), <1>1, <1>4 DEF ClientInv, StandbysOK, Quiet
<1> QED
  BY Zenon, <1>2, <1>3, <1>5 DEF StandbysOK

\* The user's standby is cancelled, and marked as stopped.
LEMMA CancelStandbys ==
  ASSUME ClientInv, events' = events, app'.sid = app.sid, app'.obj = app.obj, app'.cancel = 0,
         \A k \in Start : session'[k].handler = session[k].handler,
         stopped' = stopped \cup ({app.cancel} \ {0}),
         conn' = [n \in Start |-> IF n = app.cancel
                                   THEN [conn[n] EXCEPT !.cancelled = TRUE] ELSE conn[n]]
  PROVE  StandbysOK' /\ conn' \in [Start -> ConnState] /\ stopped' \subseteq Start
<1>1. app.obj \in Start /\ app.sid \in Start /\ 0 \notin Start /\ conn \in [Start -> ConnState]
  BY Zenon, Numbers DEF ClientInv, ScreenTypes, Screen
<1>2. ASSUME NEW n \in Start
      PROVE  /\ conn'[n] \in ConnState
             /\ conn'[n].stage = conn[n].stage /\ conn'[n].obj = conn[n].obj
             /\ conn'[n].inbox = conn[n].inbox /\ conn'[n].caller = conn[n].caller
             /\ conn'[n].cancelled => conn[n].cancelled \/ n = app.cancel
  <2>1. conn[n] \in ConnState /\ [conn[n] EXCEPT !.cancelled = TRUE] \in ConnState
    BY ZenonT(60), <1>1 DEF ConnState
  <2> QED
    BY ZenonT(60), <2>1, <1>1 DEF ConnState
<1>3. conn' \in [Start -> ConnState]
  BY Zenon, <1>2
<1>4. stopped' \subseteq Start
  BY Zenon, <1>1 DEF ClientInv, StandbysOK, ScreenTypes
<1>5. ASSUME NEW n \in Start
      PROVE  /\ n > app'.sid => conn'[n].stage = "none"
             /\ conn'[n].stage = "none" => conn'[n].inbox = <<>> /\ conn'[n].caller = None
             /\ conn'[n].cancelled => n \in stopped' \/ conn'[n].stage = "ended"
             /\ conn'[n].stage # "none" =>
                  conn'[n].obj \in Start /\ session'[conn'[n].obj].handler \in Start
  BY SMTT(20), <1>1, <1>2, <1>5 DEF ClientInv, StandbysOK
<1>6. Ended(events) \subseteq Start
  BY Zenon, EndsOfStandbys DEF ClientInv, QueueTypes
<1>7. /\ app'.cancel \in {0, app'.sid} /\ session'[app'.obj].handler \in Start
      /\ \A n \in Ended(events') : conn'[n].stage = "ended"
  BY SMTT(20), <1>1, <1>2, <1>6 DEF ClientInv, StandbysOK
<1> QED
  BY SMTT(20), <1>3, <1>4, <1>5, <1>7 DEF StandbysOK

\* The next standby is started, on a session that has its handler; the one
\* before it, if any, is cancelled and marked as stopped.
Started(o, b) ==
  /\ app.sid < MaxStarts /\ events' = events
  /\ app'.sid = app.sid + 1 /\ app'.obj = o /\ app'.cancel = app.sid + 1
  /\ session' = [session EXCEPT ![o].handler = app.sid + 1]
  /\ stopped' = stopped \cup ({app.cancel} \ {0})
  /\ conn' = [c \in Start |->
              IF c = app.sid + 1 THEN [NoConn EXCEPT !.stage = "start", !.obj = o, !.auto = b]
              ELSE IF c = app.cancel THEN [conn[c] EXCEPT !.cancelled = TRUE] ELSE conn[c]]

\* Starting a standby keeps what is known of the standbys.
LEMMA StartStandbys ==
  ASSUME ClientInv, NEW o \in Start, NEW b \in BOOLEAN, Started(o, b)
  PROVE  /\ StandbysOK' /\ conn' \in [Start -> ConnState] /\ stopped' \subseteq Start
         /\ session' \in [Start -> Shared]
<1> DEFINE m == app.sid + 1
<1>1. /\ app.obj \in Start /\ app.sid \in Start /\ 0 \notin Start /\ conn \in [Start -> ConnState]
      /\ session \in [Start -> Shared] /\ m \in Start /\ m > app.sid
  BY Zenon, Numbers DEF ClientInv, ScreenTypes, Screen, Started
<1>2. \A k \in Start : k > m => k > app.sid /\ k # m
  BY <1>1, BoundsAssumption DEF Start
<1>3. app'.sid = m /\ app'.obj = o /\ app'.cancel = m /\ events' = events
  BY Zenon DEF Started
<1>4. /\ session' = [session EXCEPT ![o].handler = m]
      /\ stopped' = stopped \cup ({app.cancel} \ {0})
  BY Zenon DEF Started
<1>5. \A n \in Start : n # m => conn'[n] = IF n = app.cancel THEN [conn[n] EXCEPT !.cancelled = TRUE] ELSE conn[n]
  BY Zenon DEF Started
<1>6. conn'[m] = [NoConn EXCEPT !.stage = "start", !.obj = o, !.auto = b] /\ conn' = [n \in Start |-> conn'[n]]
  BY Zenon, <1>1 DEF Started
<1> HIDE DEF m
<1>7. ASSUME NEW n \in Start, n # m
      PROVE  /\ conn'[n] \in ConnState
             /\ conn'[n].stage = conn[n].stage /\ conn'[n].obj = conn[n].obj
             /\ conn'[n].inbox = conn[n].inbox /\ conn'[n].caller = conn[n].caller
             /\ conn'[n].cancelled => conn[n].cancelled \/ n = app.cancel
  <2>1. conn[n] \in ConnState /\ [conn[n] EXCEPT !.cancelled = TRUE] \in ConnState
    BY ZenonT(60), <1>1 DEF ConnState
  <2> QED
    BY ZenonT(60), <2>1, <1>5, <1>7 DEF ConnState
<1>8. conn'[m].stage = "start" /\ conn'[m].obj = o /\ ~conn'[m].cancelled /\ conn'[m] \in ConnState
  <2>1. <<>> \in Seq(Packet) /\ o \in Standby /\ 0 \in Standby /\ None \in Someone
    BY DEF Standby, Someone
  <2> QED
    BY ZenonT(60), <1>6, <2>1 DEF NoConn, ConnState
<1>9. conn' \in [Start -> ConnState]
  BY Zenon, <1>6, <1>7, <1>8
<1>10. stopped' \subseteq Start
  BY ZenonT(60), <1>1, <1>4 DEF ClientInv, StandbysOK, ScreenTypes
<1>11. /\ session' \in [Start -> Shared]
       /\ \A k \in Start : session'[k].handler = IF k = o THEN m ELSE session[k].handler
  BY SMTT(60), HandlerSet, <1>1, <1>4
<1>12. ASSUME NEW n \in Start
       PROVE  /\ n > m => conn'[n].stage = "none"
              /\ conn'[n].stage = "none" => conn'[n].inbox = <<>> /\ conn'[n].caller = None
              /\ conn'[n].cancelled => n \in stopped' \/ conn'[n].stage = "ended"
              /\ conn'[n].stage # "none" =>
                   conn'[n].obj \in Start /\ session'[conn'[n].obj].handler \in Start
  <2>1. CASE n = m
    BY Zenon, <1>1, <1>2, <1>8, <1>11, <2>1
  <2>2. CASE n # m
    BY SMTT(20), <1>1, <1>2, <1>4, <1>7, <1>11, <2>2 DEF ClientInv, StandbysOK
  <2> QED
    BY Zenon, <2>1, <2>2
<1>13. \A n \in Ended(events') : conn'[n].stage = "ended"
  <2>1. \A n \in Ended(events) : conn[n].stage = "ended" /\ n \in Start
    BY Zenon, EndsOfStandbys DEF ClientInv, StandbysOK, QueueTypes
  <2>2. conn[m].stage = "none"
    BY Zenon, <1>1 DEF ClientInv, StandbysOK
  <2> QED
    BY Zenon, <2>1, <2>2, <1>3, <1>7
<1>14. session'[o].handler \in Start /\ conn'[m].stage # "ended"
  BY Zenon, <1>1, <1>8, <1>11
<1> QED
  BY SMTT(20), <1>3, <1>9, <1>10, <1>11, <1>12, <1>13, <1>14 DEF StandbysOK

\* Keys other than those that stop or start a standby leave it alone.
LEMMA QuietKeysKeep ==
  ASSUME ClientInv,
         MuteKey \/ AutoAcceptKey \/ InputKey \/ HangupKey \/ SubmitCall \/ SubmitRoom
           \/ AcceptKey \/ RejectKey
  PROVE  ScreenTypes' /\ StandbysOK'
<1>1. /\ app \in Screen /\ session \in [Start -> Shared] /\ keys \in Nat /\ None \in Someone
      /\ Peer \subseteq Someone /\ keys + 1 \in Nat /\ 0 \in Asking
  BY DEF ClientInv, ScreenTypes, Someone, Asking
<1>2. UNCHANGED <<conn, events, packets, stopped>> /\ keys' = keys + 1
  BY Zenon DEF MuteKey, AutoAcceptKey, InputKey, HangupKey, SubmitCall, SubmitRoom, AcceptKey,
               RejectKey, Key, tasks
<1>3. app' \in Screen /\ app'.sid = app.sid /\ app'.cancel = app.cancel /\ app'.obj = app.obj
  <2>1. CASE MuteKey \/ AutoAcceptKey \/ InputKey
    BY ZenonT(60), <2>1, <1>1 DEF MuteKey, AutoAcceptKey, InputKey, Screen
  <2>2. CASE HangupKey
    BY ZenonT(60), <2>2, <1>1 DEF HangupKey, Resting, Screen
  <2>3. CASE SubmitCall
    <3>1. PICK st \in {"Standby", "Connecting"}, w \in Someone :
            app' = [app EXCEPT !.mode = "Normal", !.state = st, !.with = w]
      BY Zenon, <2>3, <1>1 DEF SubmitCall
    <3> QED
      BY ZenonT(60), <3>1, <1>1 DEF Screen
  <2>4. CASE SubmitRoom
    BY ZenonT(60), <2>4, <1>1 DEF SubmitRoom, Screen
  <2>5. CASE AcceptKey
    BY ZenonT(60), <2>5, <1>1 DEF AcceptKey, Screen
  <2>6. CASE RejectKey
    BY ZenonT(60), <2>6, <1>1 DEF RejectKey, Screen
  <2> QED
    BY Zenon, <2>1, <2>2, <2>3, <2>4, <2>5, <2>6
<1>4. SameHandlers(session, session')
  <2>1. CASE AutoAcceptKey \/ InputKey \/ AcceptKey
    BY Zenon, <2>1, <1>1 DEF AutoAcceptKey, InputKey, AcceptKey, SameHandlers
  <2>2. CASE MuteKey
    <3>1. PICK b \in BOOLEAN : session' = [session EXCEPT ![app.obj].muted = b]
      BY Zenon, <2>2 DEF MuteKey
    <3> QED
      BY Zenon, <3>1, <1>1, SessionSet
  <2>3. CASE HangupKey
    <3>1. session' = [session EXCEPT ![app.obj].target = None, ![app.obj].room = FALSE]
      BY Zenon, <2>3 DEF HangupKey, Hangup
    <3> QED
      BY Zenon, <3>1, <1>1, SessionSet
  <2>4. CASE SubmitCall
    <3>1. CASE session' = session
      BY Zenon, <3>1, <1>1 DEF SameHandlers
    <3>2. CASE session' # session
      <4>1. PICK p \in Someone : session' = [session EXCEPT ![app.obj].target = p]
        BY Zenon, <2>4, <3>2, <1>1 DEF SubmitCall
      <4> QED
        BY Zenon, <4>1, <1>1, SessionSet
    <3> QED
      BY Zenon, <3>1, <3>2
  <2>5. CASE SubmitRoom
    <3>1. session' = [session EXCEPT ![app.obj].room = TRUE]
      BY Zenon, <2>5 DEF SubmitRoom
    <3> QED
      BY Zenon, <3>1, <1>1, SessionSet
  <2>6. CASE RejectKey
    <3>1. session' = [session EXCEPT ![app.obj].target = None]
      BY Zenon, <2>6 DEF RejectKey
    <3> QED
      BY Zenon, <3>1, <1>1, SessionSet
  <2> QED
    BY Zenon, <2>1, <2>2, <2>3, <2>4, <2>5, <2>6
<1>5. ScreenTypes'
  BY Zenon, <1>1, <1>2, <1>3, <1>4 DEF ClientInv, ScreenTypes, SameHandlers
<1>6. Quiet
  BY Zenon, <1>2, <1>3, <1>4 DEF Quiet, SameHandlers
<1>7. \A k \in Start : conn[k].stage = "none" => conn[k].inbox = <<>> /\ conn[k].caller = None
  BY Zenon DEF ClientInv, StandbysOK
<1> QED
  BY Zenon, <1>2, <1>5, <1>6, <1>7, QuietStandbys

\* The keys that stop the standby.
LEMMA StopKeysKeep ==
  ASSUME ClientInv, Key(app.mode),
         \/ StopStandby /\ UNCHANGED <<tasks, sends>>
         \/ QuitKey
  PROVE  ScreenTypes' /\ StandbysOK'
<1>1. /\ app \in Screen /\ session \in [Start -> Shared] /\ keys \in Nat /\ None \in Someone
      /\ keys + 1 \in Nat /\ 0 \in Standby
  BY DEF ClientInv, ScreenTypes, Someone, Standby
<1>2. /\ UNCHANGED <<events, packets>> /\ keys' = keys + 1
      /\ stopped' = stopped \cup ({app.cancel} \ {0})
      /\ conn' = [n \in Start |-> IF n = app.cancel
                                   THEN [conn[n] EXCEPT !.cancelled = TRUE] ELSE conn[n]]
      /\ session' = [session EXCEPT ![app.obj].target = None, ![app.obj].room = FALSE]
  BY Zenon DEF StopStandby, QuitKey, Hangup, Key, tasks
<1>3. app' \in Screen /\ app'.sid = app.sid /\ app'.cancel = 0 /\ app'.obj = app.obj
  <2>1. CASE StopStandby
    BY ZenonT(60), <2>1, <1>1 DEF StopStandby, Screen
  <2>2. CASE QuitKey
    BY ZenonT(60), <2>2, <1>1 DEF QuitKey, Resting, Screen
  <2> QED
    BY Zenon, <2>1, <2>2
<1>4. SameHandlers(session, session')
  BY Zenon, <1>1, <1>2, SessionSet
<1>5. StandbysOK' /\ conn' \in [Start -> ConnState] /\ stopped' \subseteq Start
  BY Zenon, <1>2, <1>3, <1>4, CancelStandbys DEF SameHandlers
<1> QED
  BY Zenon, <1>1, <1>2, <1>3, <1>4, <1>5 DEF ClientInv, ScreenTypes, SameHandlers

\* The keys that start one.
LEMMA StartKeysKeep ==
  ASSUME ClientInv, RenewKey \/ (StandbyKey /\ app.cancel = 0)
  PROVE  ScreenTypes' /\ StandbysOK'
<1>1. /\ app \in Screen /\ keys \in Nat /\ None \in Someone
      /\ keys + 1 \in Nat /\ Start \subseteq Standby /\ app.sid \in Start /\ app.obj \in Start
      /\ app.auto \in BOOLEAN /\ conn \in [Start -> ConnState]
  BY DEF ClientInv, ScreenTypes, Someone, Standby, Screen
<1>2. /\ UNCHANGED <<events, packets>> /\ keys' = keys + 1 /\ app.sid < MaxStarts
  BY Zenon DEF RenewKey, StandbyKey, Key, tasks
<1>3. app.sid + 1 \in Start /\ 0 \notin Start
  BY Zenon, <1>1, <1>2, Numbers
<1>4. \E o \in Start : app' = Starting(app, o) /\ Started(o, app.auto)
  <2>1. CASE RenewKey
    <3>1. /\ app' = Starting(app, app.sid + 1)
          /\ session' = [session EXCEPT ![app.sid + 1].handler = app.sid + 1]
          /\ stopped' = stopped \cup ({app.cancel} \ {0})
          /\ conn' = [c \in Start |->
              IF c = app.sid + 1 THEN [NoConn EXCEPT !.stage = "start", !.obj = app.sid + 1, !.auto = app.auto]
              ELSE IF c = app.cancel THEN [conn[c] EXCEPT !.cancelled = TRUE] ELSE conn[c]]
      BY Zenon, <2>1 DEF RenewKey
    <3>2. app'.sid = app.sid + 1 /\ app'.obj = app.sid + 1 /\ app'.cancel = app.sid + 1
      BY ZenonT(60), <3>1, <1>1 DEF Starting, Screen
    <3> QED
      BY Zenon, <3>1, <3>2, <1>2, <1>3 DEF Started
  <2>2. CASE StandbyKey /\ app.cancel = 0
    <3>1. /\ app' = Starting(app, app.obj)
          /\ session' = [session EXCEPT ![app.obj].handler = app.sid + 1]
          /\ stopped' = stopped
          /\ conn' = [conn EXCEPT ![app.sid + 1] =
                        [NoConn EXCEPT !.stage = "start", !.obj = app.obj, !.auto = app.auto]]
      BY Zenon, <2>2 DEF StandbyKey, StartTasks
    <3>2. app'.sid = app.sid + 1 /\ app'.obj = app.obj /\ app'.cancel = app.sid + 1
      BY ZenonT(60), <3>1, <1>1 DEF Starting, Screen
    <3>3. stopped' = stopped \cup ({app.cancel} \ {0})
      BY Zenon, <2>2, <3>1
    <3>4. conn' = [c \in Start |->
              IF c = app.sid + 1 THEN [NoConn EXCEPT !.stage = "start", !.obj = app.obj, !.auto = app.auto]
              ELSE IF c = app.cancel THEN [conn[c] EXCEPT !.cancelled = TRUE] ELSE conn[c]]
      <4>1. \A c \in Start : c # app.cancel
        BY Zenon, <2>2, <1>3
      <4> QED
        BY ZenonT(60), <4>1, <3>1, <1>1, <1>3
    <3> QED
      BY Zenon, <3>1, <3>2, <3>3, <3>4, <1>1, <1>2 DEF Started
  <2> QED
    BY Zenon, <2>1, <2>2
<1>5. app' \in Screen
  <2>1. PICK o \in Start, n \in Start :
          app' = [app EXCEPT !.sid = n, !.cancel = n, !.obj = o, !.state = "Standby", !.with = None]
    BY Zenon, <1>1, <1>3, <1>4 DEF Starting
  <2>2. n \in Standby
    BY Zenon, <1>1
  <2> QED
    BY ZenonT(60), <1>1, <2>1, <2>2 DEF Screen
<1>6. /\ StandbysOK' /\ conn' \in [Start -> ConnState] /\ stopped' \subseteq Start
      /\ session' \in [Start -> Shared]
  BY Zenon, <1>1, <1>4, StartStandbys
<1> QED
  BY Zenon, <1>1, <1>2, <1>5, <1>6 DEF ClientInv, ScreenTypes

\* A connection task moves on, and reports its end.
LEMMA StageStandbys ==
  ASSUME ClientInv, Quiet, NEW n \in Start, NEW v \in {"handshake", "running", "ended"},
         conn[n].stage \notin {"none", "ended"}, conn' = [conn EXCEPT ![n].stage = v],
         Ended(events') = IF v = "ended" THEN Ended(events) \cup {n} ELSE Ended(events)
  PROVE  StandbysOK' /\ conn' \in [Start -> ConnState]
<1>1. /\ app.obj \in Start /\ app.sid \in Start /\ conn \in [Start -> ConnState]
      /\ Ended(events) \subseteq Start
  BY Zenon, EndsOfStandbys DEF ClientInv, ScreenTypes, Screen, QueueTypes
<1>2. /\ conn' \in [Start -> ConnState]
      /\ conn'[n].stage = v /\ conn'[n].obj = conn[n].obj /\ conn'[n].cancelled = conn[n].cancelled
      /\ \A k \in Start : k # n => conn'[k] = conn[k]
  BY ZenonT(60), <1>1 DEF ConnState
<1>3. app'.cancel \in {0, app'.sid} /\ session'[app'.obj].handler \in Start
  BY SMTT(20), <1>1 DEF ClientInv, StandbysOK, Quiet
<1>4. ASSUME NEW k \in Start
      PROVE  /\ k > app'.sid => conn'[k].stage = "none"
             /\ conn'[k].stage = "none" => conn'[k].inbox = <<>> /\ conn'[k].caller = None
             /\ conn'[k].cancelled => k \in stopped' \/ conn'[k].stage = "ended"
             /\ conn'[k].stage # "none" =>
                  conn'[k].obj \in Start /\ session'[conn'[k].obj].handler \in Start
  <2>1. CASE k = n
    BY SMTT(20), <1>1, <1>2, <2>1 DEF ClientInv, StandbysOK, Quiet
  <2>2. CASE k # n
    BY SMTT(20), <1>1, <1>2, <2>2 DEF ClientInv, StandbysOK, Quiet
  <2> QED
    BY Zenon, <2>1, <2>2
<1>5. \A k \in Ended(events') : conn'[k].stage = "ended"
  <2>1. \A k \in Ended(events) : conn[k].stage = "ended"
    BY Zenon DEF ClientInv, StandbysOK
  <2> QED
    BY SMTT(20), <2>1, <1>1, <1>2
<1>6. (app'.cancel # 0 /\ conn'[app'.cancel].stage = "ended") => app'.cancel \in Ended(events')
  <2>1. (app.cancel # 0 /\ conn[app.cancel].stage = "ended") => app.cancel \in Ended(events)
    BY Zenon DEF ClientInv, StandbysOK
  <2>2. app'.cancel = app.cancel /\ app.cancel \in {0, app.sid}
    BY Zenon DEF ClientInv, StandbysOK, Quiet
  <2> QED
    BY SMTT(20), <2>1, <2>2, <1>1, <1>2
<1> QED
  BY ZenonT(60), <1>2, <1>3, <1>4, <1>5, <1>6 DEF StandbysOK

\* What the connection tasks do to the standbys.
LEMMA ConnTasksKeep ==
  ASSUME ClientInv, NEW n \in Start, SetupChannel(n) \/ Connected(n) \/ EndConnection(n)
  PROVE  ScreenTypes' /\ StandbysOK'
<1>1. /\ session \in [Start -> Shared] /\ events \in Seq(Event)
      /\ UNCHANGED <<app, keys, stopped, packets>>
  BY Zenon DEF ClientInv, ScreenTypes, QueueTypes, SetupChannel, Connected, EndConnection, ui, tasks
<1>2. SameHandlers(session, session')
  <2>1. CASE SetupChannel(n)
    <3>1. session' = [session EXCEPT ![conn[n].obj].channel = n]
      BY Zenon, <2>1 DEF SetupChannel
    <3> QED
      BY Zenon, <3>1, <1>1, SessionSet
  <2>2. CASE Connected(n) \/ EndConnection(n)
    BY Zenon, <2>2, <1>1 DEF Connected, EndConnection, SameHandlers
  <2> QED
    BY Zenon, <2>1, <2>2
<1>3. Quiet
  BY Zenon, <1>1, <1>2 DEF Quiet, SameHandlers
<1>4. \E v \in {"handshake", "running", "ended"} :
        /\ conn' = [conn EXCEPT ![n].stage = v] /\ conn[n].stage \notin {"none", "ended"}
        /\ Ended(events') = IF v = "ended" THEN Ended(events) \cup {n} ELSE Ended(events)
  <2>1. CASE SetupChannel(n) \/ Connected(n)
    BY Zenon, <2>1 DEF SetupChannel, Connected, tasks
  <2>2. CASE EndConnection(n)
    <3> DEFINE e == [kind |-> "SessionEnded", who |-> None, id |-> n]
    <3>1. /\ conn' = [conn EXCEPT ![n].stage = "ended"] /\ conn[n].stage \notin {"none", "ended"}
          /\ events' = Append(events, e)
      BY Zenon, <2>2 DEF EndConnection
    <3>2. e \in Event /\ e.kind = "SessionEnded" /\ e.id = n
      BY Zenon DEF Event
    <3> HIDE DEF e
    <3>3. Ended(events') = Ended(events) \cup {n}
      BY Zenon, <1>1, <3>1, <3>2, EventsAppend
    <3> QED
      BY Zenon, <3>1, <3>3
  <2> QED
    BY Zenon, <2>1, <2>2
<1>5. StandbysOK' /\ conn' \in [Start -> ConnState]
  BY Zenon, <1>3, <1>4, StageStandbys
<1> QED
  BY Zenon, <1>1, <1>2, <1>5 DEF ClientInv, ScreenTypes, SameHandlers

\* A packet arrives, is read, or a request is answered: the connection keeps
\* its stage.
LEMMA PacketStandbys ==
  ASSUME ClientInv, NEW n \in Start, UNCHANGED <<app, keys, stopped, events>>, packets' \in Nat,
         SameHandlers(session, session'), conn[n].inbox # <<>> \/ conn[n].caller # None \/ conn[n].stage = "running",
         SameStage(conn, conn', n)
  PROVE  ScreenTypes' /\ StandbysOK'
<1>1. Quiet /\ Ended(events') = Ended(events)
  BY Zenon DEF Quiet, SameHandlers
<1>2. /\ \A k \in Start : conn[k].stage = "none" => conn[k].inbox = <<>> /\ conn[k].caller = None
      /\ conn[n].stage # "none"
  BY Zenon DEF ClientInv, StandbysOK
<1>3. \A k \in Start :
        /\ conn'[k].stage = conn[k].stage /\ conn'[k].obj = conn[k].obj
        /\ conn'[k].cancelled = conn[k].cancelled
        /\ conn[k].stage = "none" => conn'[k].inbox = <<>> /\ conn'[k].caller = None
  BY SMTT(20), <1>2 DEF SameStage
<1>4. StandbysOK'
  BY Zenon, <1>1, <1>3, QuietStandbys
<1> QED
  BY Zenon, <1>4 DEF ClientInv, ScreenTypes, SameHandlers, SameStage

\* A packet arrives on a standby's connection.
LEMMA ReceiveStandbys ==
  ASSUME ClientInv, NEW n \in Start, Receive(n)
  PROVE  ScreenTypes' /\ StandbysOK'
<1>1. /\ conn \in [Start -> ConnState] /\ session \in [Start -> Shared] /\ conn[n].inbox \in Seq(Packet)
      /\ packets + 1 \in Nat
  <2>1. conn \in [Start -> ConnState] /\ session \in [Start -> Shared] /\ packets \in Nat
    BY Zenon DEF ClientInv, ScreenTypes
  <2>2. conn[n].inbox \in Seq(Packet)
    BY Zenon, <2>1 DEF ConnState
  <2>3. packets + 1 \in Nat
    BY <2>1
  <2> QED
    BY Zenon, <2>1, <2>2, <2>3
<1>2. PICK k \in {"Request", "Accepted", "Rejected", "Ended"}, who \in Peer \cup {Me} :
        /\ LET called == \E x \in sent : x.kind = "Call" /\ x.to = who
               asked == \E p \in Prompt : prompt[p].from = who
           IN  (k = "Request") \/ called \/ (k = "Ended" /\ asked)
        /\ conn' = [conn EXCEPT ![n].inbox = Append(@, [kind |-> k, who |-> who])]
  BY Zenon DEF Receive
<1>3. [kind |-> k, who |-> who] \in Packet
  <2>1. \A x \in sent : x.kind = "Call" => x.to \in Peer
    BY ZenonT(60) DEF ClientInv, QueueTypes, Sent
  <2>2. \A p \in Prompt : prompt[p].from \in Peer \cup {None}
    BY Zenon DEF ClientInv, QueueTypes, Asked, Someone
  <2>3. Me \notin Peer /\ Me # None
    BY Zenon, BoundsAssumption
  <2>4. k = "Request" \/ who \in Peer
    BY Zenon, <1>2, <2>1, <2>2, <2>3
  <2> QED
    BY Zenon, <2>4 DEF Packet
<1>4. PICK q \in Seq(Packet) : conn' = [conn EXCEPT ![n].inbox = q]
  <2>1. Append(conn[n].inbox, [kind |-> k, who |-> who]) \in Seq(Packet)
    BY <1>1, <1>3
  <2>2. conn' = [conn EXCEPT ![n].inbox = Append(conn[n].inbox, [kind |-> k, who |-> who])]
    BY Zenon, <1>1, <1>2
  <2> QED
    BY Zenon, <2>1, <2>2
<1>5. SameStage(conn, conn', n)
  BY Zenon, <1>1, <1>4, ConnSet
<1>6. /\ UNCHANGED <<app, keys, stopped, events>> /\ packets' \in Nat
      /\ SameHandlers(session, session') /\ conn[n].stage = "running"
  BY Zenon, <1>1 DEF Receive, ui, SameHandlers
<1> QED
  BY Zenon, <1>5, <1>6, PacketStandbys

\* The DataChannel's task answers a request.
LEMMA AnswerStandbys ==
  ASSUME ClientInv, NEW n \in Start, AnswerRequest(n)
  PROVE  ScreenTypes' /\ StandbysOK'
<1>1. /\ conn \in [Start -> ConnState] /\ session \in [Start -> Shared] /\ conn[n].caller \in Someone
      /\ packets \in Nat /\ None \in Someone
  BY Zenon DEF ClientInv, ScreenTypes, ConnState, Someone
<1>2. /\ UNCHANGED <<app, keys, stopped, events, packets>> /\ conn[n].caller # None
      /\ session' = [session EXCEPT ![conn[n].obj].target = conn[n].caller]
      /\ conn' = [conn EXCEPT ![n].caller = None, ![n].at_once = FALSE]
  BY Zenon DEF AnswerRequest, ui
<1>3. SameHandlers(session, session')
  BY Zenon, <1>1, <1>2, SessionSet
<1>4. SameStage(conn, conn', n)
  <2>1. PICK w \in Someone, b \in BOOLEAN : conn' = [conn EXCEPT ![n].caller = w, ![n].at_once = b]
    BY Zenon, <1>1, <1>2
  <2> QED
    BY Zenon, <1>1, <2>1, ConnSet
<1> QED
  BY Zenon, <1>1, <1>2, <1>3, <1>4, PacketStandbys

\* It reads a packet.
LEMMA DispatchStandbys ==
  ASSUME ClientInv, NEW n \in Start, Dispatch(n)
  PROVE  ScreenTypes' /\ StandbysOK'
<1> DEFINE packet == Head(conn[n].inbox)
<1>1. /\ conn \in [Start -> ConnState] /\ session \in [Start -> Shared] /\ conn[n].inbox \in Seq(Packet)
      /\ packets \in Nat /\ None \in Someone
  BY Zenon DEF ClientInv, ScreenTypes, ConnState, Someone
<1>2. /\ UNCHANGED <<app, keys, stopped, events, packets>> /\ conn[n].inbox # <<>>
      /\ packet.kind = "Request" => Request(n, packet.who)
      /\ packet.kind # "Request" => Notice(n, packet.kind, packet.who)
  BY Zenon DEF Dispatch, ui
<1>3. packet \in Packet /\ Tail(conn[n].inbox) \in Seq(Packet)
  BY <1>1, <1>2
<1>4. /\ packet.kind = "Request" => packet.who \in Peer \cup {Me}
      /\ packet.kind # "Request" => packet.who \in Peer
  BY Zenon, <1>3 DEF Packet
<1> HIDE DEF packet
<1>5. SameHandlers(session, session')
  <2>1. CASE packet.kind = "Request"
    BY Zenon, <2>1, <1>1, <1>2 DEF Request, SameHandlers
  <2>2. CASE packet.kind # "Request"
    <3>1. PICK v \in Someone : session' = [session EXCEPT ![conn[n].obj].target = v]
      BY Zenon, <2>2, <1>2, <1>4 DEF Notice, Someone
    <3> QED
      BY Zenon, <3>1, <1>1, SessionSet
  <2> QED
    BY Zenon, <2>1, <2>2
<1>6. SameStage(conn, conn', n)
  <2>1. CASE conn' = [conn EXCEPT ![n].inbox = Tail(conn[n].inbox)]
    <3>1. PICK q \in Seq(Packet) : conn' = [conn EXCEPT ![n].inbox = q]
      BY Zenon, <1>3, <2>1
    <3> QED
      BY Zenon, <1>1, <3>1, ConnSet
  <2>2. CASE packet.kind = "Request" /\ packet.who # Me
    <3>1. PICK w \in Someone, b \in BOOLEAN :
            conn' = [conn EXCEPT ![n].inbox = Tail(conn[n].inbox), ![n].caller = w, ![n].at_once = b]
      BY Zenon, <1>1, <1>2, <1>4, <2>2 DEF Request, Someone
    <3>2. PICK q \in Seq(Packet) : conn' = [conn EXCEPT ![n].inbox = q, ![n].caller = w, ![n].at_once = b]
      BY Zenon, <1>3, <3>1
    <3> QED
      BY Zenon, <1>1, <3>2, ConnSet
  <2> QED
    BY Zenon, <1>1, <1>2, <2>1, <2>2 DEF Request, Notice
<1> QED
  BY Zenon, <1>1, <1>2, <1>5, <1>6, PacketStandbys

\* What the incoming-call handler of a standby puts into the screen's queue.
LEMMA ForwardedCall ==
  ASSUME ClientInv, NEW n \in Start, ForwardCall(n)
  PROVE  LET c == Head(incoming[n])
             e == [kind |-> "IncomingCall", who |-> c.who, id |-> c.id]
         IN  /\ incoming[n] \in Seq(Call) /\ incoming[n] # <<>> /\ c \in Call
             /\ Tail(incoming[n]) \in Seq(Call)
             /\ e \in Event /\ events' = Append(events, e)
<1>1. incoming[n] \in Seq(Call) /\ incoming[n] # <<>>
  BY Zenon DEF ClientInv, QueueTypes, ForwardCall
<1>2. Head(incoming[n]) \in Call /\ Tail(incoming[n]) \in Seq(Call)
  BY <1>1
<1>3. \A c \in Call : [kind |-> "IncomingCall", who |-> c.who, id |-> c.id] \in Event
  BY Zenon DEF Call, Event
<1> QED
  BY Zenon, <1>1, <1>2, <1>3 DEF ForwardCall

\* What its notification handler puts there.
LEMMA ForwardedNotice ==
  ASSUME ClientInv, NEW n \in Start, ForwardNotice(n)
  PROVE  /\ Tail(notices[n]) \in Seq(Told)
         /\ \E e \in Event : /\ events' = Append(events, e)
                              /\ e.kind # "IncomingCall" /\ e.kind # "SessionEnded"
<1>1. notices[n] \in Seq(Told) /\ notices[n] # <<>>
  BY Zenon DEF ClientInv, QueueTypes, ForwardNotice
<1>2. Head(notices[n]) \in Told /\ Tail(notices[n]) \in Seq(Told)
  BY <1>1
<1>3. \A c \in Told :
        LET e == [kind |-> c.kind, who |-> c.who, id |-> n]
        IN  e \in Event /\ e.kind # "IncomingCall" /\ e.kind # "SessionEnded"
  BY ZenonT(60) DEF Told, Event
<1> QED
  BY Zenon, <1>2, <1>3 DEF ForwardNotice

\* The other tasks touch no standby.
LEMMA OtherTasksKeep ==
  ASSUME ClientInv,
         \/ SendPacket
         \/ \E n \in Start : ForwardCall(n) \/ ForwardNotice(n)
         \/ \E p \in Prompt : Reply(p)
  PROVE  ScreenTypes' /\ StandbysOK'
<1>1. UNCHANGED <<app, keys, stopped, session, conn, packets>>
  BY Zenon DEF SendPacket, ForwardCall, ForwardNotice, Reply, ui
<1>2. events \in Seq(Event)
  BY Zenon DEF ClientInv, QueueTypes
<1>3. Ended(events') = Ended(events)
  <2>1. CASE SendPacket \/ \E p \in Prompt : Reply(p)
    BY Zenon, <2>1 DEF SendPacket, Reply
  <2>2. ASSUME NEW n \in Start, ForwardCall(n) PROVE Ended(events') = Ended(events)
    <3>1. PICK e \in Event : events' = Append(events, e) /\ e.kind = "IncomingCall"
      BY Zenon, <2>2, ForwardedCall
    <3> QED
      BY Zenon, <3>1, <1>2, EventsAppend
  <2>3. ASSUME NEW n \in Start, ForwardNotice(n) PROVE Ended(events') = Ended(events)
    <3>1. PICK e \in Event : events' = Append(events, e) /\ e.kind # "SessionEnded"
      BY Zenon, <2>3, ForwardedNotice
    <3> QED
      BY Zenon, <3>1, <1>2, EventsAppend
  <2> QED
    BY Zenon, <2>1, <2>2, <2>3
<1>4. Quiet
  BY Zenon, <1>1 DEF Quiet
<1>5. \A k \in Start : conn[k].stage = "none" => conn[k].inbox = <<>> /\ conn[k].caller = None
  BY Zenon DEF ClientInv, StandbysOK
<1>6. StandbysOK'
  BY Zenon, <1>1, <1>3, <1>4, <1>5, QuietStandbys
<1> QED
  BY Zenon, <1>1, <1>6 DEF ClientInv, ScreenTypes

\* The screen reads an event.  The end of the current standby drops its sender,
\* which cancels a task that has ended.
LEMMA EventStandbys ==
  ASSUME ClientInv, HandleEvent
  PROVE  ScreenTypes' /\ StandbysOK'
<1> DEFINE e == Head(events)
<1>1. /\ app \in Screen /\ session \in [Start -> Shared] /\ events \in Seq(Event) /\ events # <<>>
      /\ events' = Tail(events) /\ UNCHANGED <<keys, packets, stopped>>
      /\ None \in Someone /\ Peer \subseteq Someone
  BY Zenon DEF ClientInv, ScreenTypes, QueueTypes, HandleEvent, Someone
<1>2. e \in Event
  BY <1>1
<1>3. /\ e.kind = "SessionEnded" => SessionEnded(e.id)
      /\ e.kind = "IncomingCall" => IncomingCall(e)
      /\ e.kind \notin {"SessionEnded", "IncomingCall"} => CallNotice(e)
  BY Zenon DEF HandleEvent
<1>4. /\ e.kind = "SessionEnded" => e.id \in Start
      /\ e.kind = "IncomingCall" => e.who \in Peer /\ e.id \in Prompt
      /\ e.kind \notin {"SessionEnded", "IncomingCall"} => e.who \in Peer
  BY Zenon, <1>2 DEF Event
<1>5. /\ e.kind # "SessionEnded" => Ended(events') = Ended(events)
      /\ e.kind = "SessionEnded" => Ended(events) = Ended(events') \cup {e.id}
  BY Zenon, <1>1, EventsTail
<1> HIDE DEF e
<1>6. CASE e.kind # "SessionEnded"
  <2>1. app' \in Screen /\ app'.sid = app.sid /\ app'.cancel = app.cancel /\ app'.obj = app.obj
    <3>1. CASE e.kind = "IncomingCall"
      <4>1. CASE app.auto \/ (app.state \in {"Connecting", "InCall"} /\ app.with = e.who)
        <5>1. app' = [app EXCEPT !.state = "InCall", !.with = e.who] /\ e.who \in Someone
          BY Zenon, <3>1, <4>1, <1>1, <1>3, <1>4, <1>6 DEF IncomingCall
        <5> QED
          BY ZenonT(60), <5>1, <1>1 DEF Screen
      <4>2. CASE ~(app.auto \/ (app.state \in {"Connecting", "InCall"} /\ app.with = e.who))
        <5>1. PICK w \in Someone, i \in Asking :
                app' = [app EXCEPT !.mode = "IncomingCall", !.from = w, !.responder = i]
          BY Zenon, <3>1, <4>2, <1>1, <1>3, <1>4, <1>6 DEF IncomingCall, Asking
        <5>2. app \in Screen
          BY Zenon, <1>1
        <5> QED
          BY ZenonT(60), <5>1, <5>2 DEF Screen
      <4> QED
        BY Zenon, <4>1, <4>2
    <3>2. CASE e.kind # "IncomingCall"
      <4>1. /\ app' = IF e.kind = "Accepted" THEN [app EXCEPT !.state = "InCall", !.with = e.who]
                                            ELSE Resting(app)
            /\ e.who \in Someone
        BY Zenon, <3>2, <1>1, <1>3, <1>4, <1>6 DEF CallNotice
      <4> QED
        BY ZenonT(60), <4>1, <1>1 DEF Screen, Resting
    <3> QED
      BY Zenon, <3>1, <3>2
  <2>2. SameHandlers(session, session') /\ conn' = conn
    <3>1. CASE session' = session
      BY Zenon, <3>1, <1>1, <1>3, <1>6 DEF SameHandlers, IncomingCall, CallNotice
    <3>2. CASE session' # session
      <4>1. /\ session' = [session EXCEPT ![app.obj].target = None,
                                         ![app.obj].room = (@ /\ e.kind # "Ended")]
            /\ conn' = conn
        BY Zenon, <3>2, <1>3, <1>6 DEF IncomingCall, CallNotice
      <4>2. PICK b \in BOOLEAN : session' = [session EXCEPT ![app.obj].target = None, ![app.obj].room = b]
        BY Zenon, <4>1, <1>1
      <4> QED
        BY Zenon, <4>1, <4>2, <1>1, SessionSet
    <3> QED
      BY Zenon, <3>1, <3>2
  <2>3. Quiet
    BY Zenon, <1>1, <2>1, <2>2 DEF Quiet, SameHandlers
  <2>4. \A k \in Start : conn[k].stage = "none" => conn[k].inbox = <<>> /\ conn[k].caller = None
    BY Zenon DEF ClientInv, StandbysOK
  <2>5. StandbysOK'
    BY Zenon, <1>5, <1>6, <2>2, <2>3, <2>4, QuietStandbys
  <2> QED
    BY Zenon, <1>1, <2>1, <2>2, <2>5 DEF ClientInv, ScreenTypes, SameHandlers
<1>7. CASE e.kind = "SessionEnded"
  <2>1. SessionEnded(e.id) /\ e.id \in Start /\ Ended(events) = Ended(events') \cup {e.id}
        /\ session' = session
    BY Zenon, <1>3, <1>4, <1>5, <1>7 DEF SessionEnded
  <2>2. CASE app.sid # e.id
    <3>1. app' = app /\ conn' = conn
      BY Zenon, <2>1, <2>2 DEF SessionEnded
    <3>2. \A n \in Ended(events') : conn[n].stage = "ended"
      BY Zenon, <2>1 DEF ClientInv, StandbysOK
    <3>3. (app.cancel # 0 /\ conn[app.cancel].stage = "ended") => app.cancel \in Ended(events')
      <4>1. app.cancel \in {0, app.sid}
        BY Zenon DEF ClientInv, StandbysOK
      <4>2. (app.cancel # 0 /\ conn[app.cancel].stage = "ended") => app.cancel \in Ended(events)
        BY Zenon DEF ClientInv, StandbysOK
      <4> QED
        BY Zenon, <2>1, <2>2, <4>1, <4>2
    <3>4. StandbysOK'
      BY Zenon, <2>1, <3>1, <3>2, <3>3, <1>1 DEF ClientInv, StandbysOK
    <3> QED
      BY Zenon, <2>1, <3>1, <3>4, <1>1 DEF ClientInv, ScreenTypes
  <2>3. CASE app.sid = e.id
    <3>1. /\ app' = [app EXCEPT !.state = "Idle", !.with = None, !.cancel = 0]
          /\ conn' = [c \in Start |-> IF c = app.cancel
                          THEN [conn[c] EXCEPT !.cancelled = TRUE] ELSE conn[c]]
      BY Zenon, <2>1, <2>3 DEF SessionEnded
    <3>2. app' \in Screen /\ app'.sid = app.sid /\ app'.cancel = 0 /\ app'.obj = app.obj
      <4>1. 0 \in Standby
        BY Zenon DEF Standby
      <4> QED
        BY ZenonT(60), <4>1, <3>1, <1>1 DEF Screen
    <3>3. /\ app.obj \in Start /\ conn \in [Start -> ConnState] /\ 0 \notin Start
          /\ app.cancel \in {0, e.id} /\ conn[e.id].stage = "ended"
      BY Zenon, <1>1, <2>1, <2>3, Numbers DEF ClientInv, ScreenTypes, StandbysOK, Screen
    <3>4. ASSUME NEW n \in Start
          PROVE  /\ conn'[n] \in ConnState
                 /\ conn'[n].stage = conn[n].stage /\ conn'[n].obj = conn[n].obj
                 /\ conn'[n].inbox = conn[n].inbox /\ conn'[n].caller = conn[n].caller
                 /\ conn'[n].cancelled => conn[n].cancelled \/ conn[n].stage = "ended"
      <4>1. conn[n] \in ConnState /\ [conn[n] EXCEPT !.cancelled = TRUE] \in ConnState
        BY ZenonT(60), <3>3 DEF ConnState
      <4>2. conn'[n] = IF n = app.cancel THEN [conn[n] EXCEPT !.cancelled = TRUE] ELSE conn[n]
        BY Zenon, <3>1
      <4> QED
        BY ZenonT(60), <4>1, <4>2, <3>3 DEF ConnState
    <3>5. conn' \in [Start -> ConnState]
      BY Zenon, <3>1, <3>4
    <3>6. ASSUME NEW n \in Start
          PROVE  /\ n > app'.sid => conn'[n].stage = "none"
                 /\ conn'[n].stage = "none" => conn'[n].inbox = <<>> /\ conn'[n].caller = None
                 /\ conn'[n].cancelled => n \in stopped' \/ conn'[n].stage = "ended"
                 /\ conn'[n].stage # "none" =>
                      conn'[n].obj \in Start /\ session'[conn'[n].obj].handler \in Start
      BY SMTT(20), <1>1, <2>1, <3>2, <3>4, <3>6 DEF ClientInv, StandbysOK
    <3>7. \A n \in Ended(events') : conn'[n].stage = "ended"
      <4>1. \A n \in Ended(events) : conn[n].stage = "ended" /\ n \in Start
        BY Zenon, EndsOfStandbys DEF ClientInv, StandbysOK, QueueTypes
      <4> QED
        BY Zenon, <4>1, <2>1, <3>4
    <3>8. session'[app'.obj].handler \in Start
      BY Zenon, <2>1, <3>2 DEF ClientInv, StandbysOK
    <3>9. StandbysOK'
      BY Zenon, <3>2, <3>6, <3>7, <3>8 DEF StandbysOK
    <3> QED
      BY Zenon, <1>1, <2>1, <3>2, <3>5, <3>9 DEF ClientInv, ScreenTypes
  <2> QED
    BY Zenon, <2>2, <2>3
<1> QED
  BY Zenon, <1>6, <1>7

-----------------------------------------------------------------------------
\* What is known of the requests.
RequestsOK == PlacesOK /\ FoundOK /\ AnswersOK

\* A step that touches no prompt, and whose packets answer none.
LEMMA NoRequest ==
  ASSUME ClientInv, UNCHANGED <<incoming, prompt>>,
         Calls(events') = Calls(events), OnceCalled(events'),
         app'.responder = app.responder, app'.from = app.from,
         \/ app'.mode = app.mode
         \/ app'.mode = "Quit"
         \/ {app.mode, app'.mode} \cap {"IncomingCall", "Quit"} = {},
         \A x \in sent' : x \in sent \/ x.kind \notin {"Accept", "Reject"}
  PROVE  RequestsOK'
<1>1. PlacesOK'
  <2>1. PlacesOK
    BY Zenon DEF ClientInv
  <2>2. /\ \A n \in Start : Once(incoming'[n]) /\ \A c \in Items(incoming'[n]) : Awaits(c.id, c.who)'
        /\ OnceCalled(events') /\ \A c \in Calls(events') : Awaits(c.id, c.who)' /\ c.id # app'.responder
    BY Zenon, <2>1 DEF PlacesOK, Awaits
  <2>3. \A n \in Start : \A c \in Items(incoming'[n]) :
          /\ c.id # app'.responder
          /\ \A d \in Calls(events') : d.id # c.id
          /\ \A m \in Start : \A d \in Items(incoming'[m]) : m # n => d.id # c.id
    BY SMTT(20), <2>1 DEF PlacesOK
  <2>4. /\ app'.mode = "IncomingCall" => app'.responder # 0
        /\ app'.responder # 0 => Awaits(app.responder, app.from)' /\ app'.mode \in {"IncomingCall", "Quit"}
    BY Zenon, <2>1 DEF PlacesOK, Awaits
  <2> QED
    BY Zenon, <2>2, <2>3, <2>4 DEF PlacesOK
<1>2. FoundOK'
  BY Zenon DEF ClientInv, FoundOK
<1>3. AnswersOK'
  BY Zenon DEF ClientInv, AnswersOK
<1> QED
  BY Zenon, <1>1, <1>2, <1>3 DEF RequestsOK

\* The keys, except those that answer a prompt.
LEMMA KeysNoRequest ==
  ASSUME ClientInv, Keys, ~AcceptKey, ~RejectKey
  PROVE  QueueTypes' /\ RequestsOK'
<1>1. UNCHANGED tasks
  BY Zenon DEF Keys, StandbyKey, IdleKey, RenewKey, MuteKey, AutoAcceptKey, InputKey, HangupKey,
               QuitKey, SubmitCall, SubmitRoom
<1>2. sends' \subseteq Unsent
  <2>1. /\ sends \subseteq Unsent /\ session \in [Start -> Shared] /\ app.obj \in Start
        /\ session[app.obj].target \in Someone /\ keys \in Nat /\ None \in Someone
    BY Zenon DEF ClientInv, QueueTypes, ScreenTypes, Screen, Shared, Someone
  <2>2. /\ \A p \in Someone : Spawn("Hangup", p) \in Unsent
        /\ Spawn("Leave", None) \in Unsent /\ Spawn("Join", None) \in Unsent
        /\ \A p \in Peer : Spawn("Call", p) \in Unsent
    BY Zenon, <2>1 DEF Spawn, Unsent
  <2>3. CASE HangupKey \/ QuitKey
    <3>1. \A x \in sends' : x \in sends \/ x = Spawn("Hangup", session[app.obj].target)
                             \/ x = Spawn("Leave", None)
      <4>1. sends' = sends
              \cup (IF session[app.obj].target # None THEN {Spawn("Hangup", session[app.obj].target)} ELSE {})
              \cup (IF session[app.obj].room THEN {Spawn("Leave", None)} ELSE {})
        BY Zenon, <2>3 DEF HangupKey, QuitKey, Hangup
      <4> QED
        BY Zenon, <4>1
    <3> QED
      BY Zenon, <2>1, <2>2, <3>1
  <2>4. CASE SubmitCall \/ SubmitRoom
    <3>1. \A x \in sends' : x \in sends \/ x = Spawn("Join", None) \/ \E p \in Peer : x = Spawn("Call", p)
      BY Zenon, <2>4 DEF SubmitCall, SubmitRoom
    <3> QED
      BY Zenon, <2>1, <2>2, <3>1
  <2>5. CASE sends' = sends
    BY Zenon, <2>1, <2>5
  <2> QED
    BY Zenon, <2>3, <2>4, <2>5 DEF Keys, StandbyKey, IdleKey, RenewKey, MuteKey, AutoAcceptKey, InputKey
<1>3. /\ app'.responder = app.responder /\ app'.from = app.from
      /\ \/ app'.mode = app.mode
         \/ app'.mode = "Quit"
         \/ {app.mode, app'.mode} \cap {"IncomingCall", "Quit"} = {}
  <2>1. app \in Screen
    BY Zenon DEF ClientInv, ScreenTypes
  <2>2. CASE StandbyKey \/ IdleKey \/ RenewKey
    <3>1. CASE StopStandby
      BY ZenonT(60), <2>1, <3>1 DEF StopStandby, Screen
    <3>2. ASSUME NEW o, app' = Starting(app, o)
          PROVE  app'.responder = app.responder /\ app'.from = app.from /\ app'.mode = app.mode
      BY ZenonT(60), <2>1, <3>2 DEF Starting, Screen
    <3> QED
      BY Zenon, <2>2, <3>1, <3>2 DEF StandbyKey, IdleKey, RenewKey
  <2>3. CASE MuteKey \/ AutoAcceptKey \/ HangupKey
    BY ZenonT(60), <2>1, <2>3 DEF MuteKey, AutoAcceptKey, HangupKey, Resting, Screen
  <2>4. CASE QuitKey
    BY ZenonT(60), <2>1, <2>4 DEF QuitKey, Resting, Screen
  <2>5. CASE InputKey
    <3>1. PICK m \in {"Normal", "CallInput", "RoomInput"} : app' = [app EXCEPT !.mode = m]
      BY Zenon, <2>5 DEF InputKey
    <3>2. app.mode \in {"Normal", "CallInput", "RoomInput"}
      BY Zenon, <2>5 DEF InputKey, Key
    <3>3. app'.responder = app.responder /\ app'.from = app.from /\ app'.mode = m
      BY Zenon, <2>1, <3>1 DEF Screen
    <3> QED
      BY Zenon, <3>2, <3>3
  <2>6. CASE SubmitCall \/ SubmitRoom
    BY ZenonT(60), <2>1, <2>6 DEF SubmitCall, SubmitRoom, Key, Screen
  <2> QED
    BY Zenon, <2>2, <2>3, <2>4, <2>5, <2>6 DEF Keys
<1>4. OnceCalled(events)
  BY Zenon DEF ClientInv, PlacesOK
<1>5. RequestsOK'
  BY Zenon, <1>1, <1>3, <1>4, NoRequest DEF tasks
<1> QED
  BY Zenon, <1>1, <1>2, <1>5 DEF ClientInv, QueueTypes, tasks

\* The tasks that have nothing to do with requests.
LEMMA TasksNoRequest ==
  ASSUME ClientInv,
         \/ SendPacket
         \/ \E n \in Start : SetupChannel(n) \/ Connected(n) \/ EndConnection(n) \/ Dispatch(n)
                              \/ ForwardNotice(n) \/ Receive(n)
  PROVE  QueueTypes' /\ RequestsOK'
<1>1. UNCHANGED <<app, incoming, prompt>>
  BY ZenonT(60) DEF SendPacket, SetupChannel, Connected, EndConnection, Dispatch, Request, Notice,
               ForwardNotice, Receive, ui, tasks
<1>2. events \in Seq(Event) /\ OnceCalled(events)
  BY Zenon DEF ClientInv, QueueTypes, PlacesOK
<1>3. events' \in Seq(Event) /\ Calls(events') = Calls(events) /\ OnceCalled(events')
  <2>1. ASSUME NEW n \in Start, EndConnection(n) \/ ForwardNotice(n)
        PROVE  \E e \in Event : events' = Append(events, e) /\ e.kind # "IncomingCall"
    <3>1. CASE EndConnection(n)
      <4> DEFINE e == [kind |-> "SessionEnded", who |-> None, id |-> n]
      <4>1. e \in Event /\ e.kind # "IncomingCall"
        BY Zenon DEF Event
      <4> QED
        BY Zenon, <3>1, <4>1 DEF EndConnection
    <3>2. CASE ForwardNotice(n)
      BY Zenon, <3>2, ForwardedNotice
    <3> QED
      BY Zenon, <2>1, <3>1, <3>2
  <2>2. CASE \E n \in Start : EndConnection(n) \/ ForwardNotice(n)
    <3>1. PICK e \in Event : events' = Append(events, e) /\ e.kind # "IncomingCall"
      BY Zenon, <2>1, <2>2
    <3> QED
      BY Zenon, <1>2, <3>1, EventsAppend, Queue
  <2>3. CASE events' = events
    BY Zenon, <1>2, <2>3
  <2> QED
    BY Zenon, <2>2, <2>3 DEF SendPacket, SetupChannel, Connected, Dispatch, Receive, tasks
<1>4. sends' \subseteq Unsent /\ sent' \subseteq Sent
      /\ \A x \in sent' : x \in sent \/ x.kind \notin {"Accept", "Reject"}
  <2>1. sends \subseteq Unsent /\ sent \subseteq Sent
    BY Zenon DEF ClientInv, QueueTypes
  <2>2. CASE SendPacket
    <3>1. PICK x \in sends :
            /\ sends' = sends \ {x}
            /\ LET n == session[x.obj].channel
               IN  sent' = IF n = 0 THEN sent ELSE Sending(n, x.kind, x.to, 0)
      BY Zenon, <2>2 DEF SendPacket
    <3> DEFINE n == session[x.obj].channel
               y == [kind |-> x.kind, to |-> x.to, on |-> n, id |-> 0]
    <3>2. sent' = sent \/ (n # 0 /\ sent' = sent \cup {y})
      BY Zenon, <3>1 DEF Sending
    <3>3. x \in Unsent
      BY Zenon, <2>1, <3>1
    <3>4. x.obj \in Start /\ x.kind \notin {"Accept", "Reject"}
      BY Zenon, <3>3 DEF Unsent
    <3>5. n \in Start \cup {0}
      BY Zenon, <3>4 DEF ClientInv, ScreenTypes, Shared, Standby
    <3> HIDE DEF n
    <3>6. n # 0 => y \in Sent /\ y.kind \notin {"Accept", "Reject"}
      BY ZenonT(60), <3>3, <3>4, <3>5 DEF Unsent, Sent
    <3> HIDE DEF y
    <3> QED
      BY Zenon, <2>1, <3>1, <3>2, <3>6
  <2>3. CASE UNCHANGED <<sends, sent>>
    BY Zenon, <2>1, <2>3
  <2> QED
    BY Zenon, <2>2, <2>3 DEF SetupChannel, Connected, EndConnection, Dispatch, Request, Notice,
               ForwardNotice, Receive, tasks
<1>5. notices' \in [Start -> Seq(Told)]
  <2>1. notices \in [Start -> Seq(Told)]
    BY Zenon DEF ClientInv, QueueTypes
  <2>2. ASSUME NEW n \in Start, ForwardNotice(n) PROVE notices' \in [Start -> Seq(Told)]
    BY Zenon, <2>1, <2>2, ForwardedNotice DEF ForwardNotice
  <2>3. ASSUME NEW n \in Start, Dispatch(n) PROVE notices' \in [Start -> Seq(Told)]
    <3> DEFINE packet == Head(conn[n].inbox)
               h == session[conn[n].obj].handler
    <3>1. conn[n].inbox \in Seq(Packet) /\ conn[n].inbox # <<>>
      BY Zenon, <2>3 DEF ClientInv, ScreenTypes, ConnState, Dispatch
    <3>2. packet \in Packet
      BY <3>1
    <3>3. packet.kind # "Request" => [kind |-> packet.kind, who |-> packet.who] \in Told
      BY Zenon, <3>2 DEF Packet, Told
    <3>4. \/ notices' = notices
          \/ /\ packet.kind # "Request"
             /\ notices' = [notices EXCEPT ![h] = Append(@, [kind |-> packet.kind, who |-> packet.who])]
      BY Zenon, <2>3 DEF Dispatch, Request, Notice
    <3> HIDE DEF packet, h
    <3>5. CASE notices' = notices
      BY Zenon, <2>1, <3>5
    <3>6. CASE notices' # notices
      <4>1. PICK x \in Told : notices' = [notices EXCEPT ![h] = Append(notices[h], x)]
        BY Zenon, <2>1, <3>3, <3>4, <3>6
      <4>2. notices[h] \in Seq(Told) => Append(notices[h], x) \in Seq(Told)
        OBVIOUS
      <4> QED
        BY Zenon, <2>1, <4>1, <4>2
    <3> QED
      BY Zenon, <3>5, <3>6
  <2>4. CASE notices' = notices
    BY Zenon, <2>1, <2>4
  <2> QED
    BY Zenon, <2>2, <2>3, <2>4 DEF SendPacket, SetupChannel, Connected, EndConnection, Receive, tasks
<1>6. RequestsOK'
  BY Zenon, <1>1, <1>3, <1>4, NoRequest
<1> QED
  BY Zenon, <1>1, <1>3, <1>4, <1>5, <1>6 DEF ClientInv, QueueTypes

\* What was sent stays the answer as long as only prompts that wait change.
LEMMA AnswersKept ==
  ASSUME ClientInv, sent' = sent,
         \A q \in Prompt :
           /\ prompt'[q].from = prompt[q].from /\ prompt'[q].on = prompt[q].on
           /\ prompt'[q].answer = prompt[q].answer \/ prompt[q].answer = "waiting"
  PROVE  AnswersOK'
<1>1. \A x \in sent : x.kind \in {"Accept", "Reject"} => x.id \in Prompt
  BY ZenonT(60) DEF ClientInv, QueueTypes, Sent
<1>2. \A p \in Prompt : prompt'[p].answer # "none" => prompt'[p].on \in Start
  BY SMTT(20) DEF ClientInv, AnswersOK
<1>3. \A x \in sent :
        /\ x.kind = "Accept" => prompt'[x.id].answer \in {"auto", "accepted"}
        /\ x.kind = "Reject" => prompt'[x.id].answer = "rejected"
        /\ x.kind \in {"Accept", "Reject"} => x.on = prompt'[x.id].on /\ x.to = prompt'[x.id].from
  BY SMTT(20), <1>1 DEF ClientInv, AnswersOK
<1> QED
  BY Zenon, <1>2, <1>3 DEF AnswersOK

\* Giving prompt p the answer a.
Settled(p, a) ==
  /\ prompt' \in [Prompt -> Asked]
  /\ \A q \in Prompt : prompt'[q].from = prompt[q].from /\ prompt'[q].on = prompt[q].on
  /\ \A q \in Prompt : q # p => prompt'[q] = prompt[q]
  /\ p \in Prompt => prompt'[p].answer = a

\* An assignment to the prompt's answer is such a step.
LEMMA Settles ==
  ASSUME prompt \in [Prompt -> Asked], NEW p,
         NEW a \in {"yes", "no", "accepted", "rejected", "dropped"},
         \/ prompt' = [prompt EXCEPT ![p].answer = a]
         \/ prompt' = [q \in Prompt |-> IF q = p THEN [prompt[q] EXCEPT !.answer = a] ELSE prompt[q]]
  PROVE  Settled(p, a)
<1>1. \A q \in Prompt : prompt'[q] = IF q = p THEN [prompt[q] EXCEPT !.answer = a] ELSE prompt[q]
  BY Zenon
<1>2. \A q \in Prompt : prompt[q] \in Asked /\ [prompt[q] EXCEPT !.answer = a] \in Asked
  BY ZenonT(60) DEF Asked
<1>3. prompt' \in [Prompt -> Asked]
  BY Zenon, <1>2
<1>4. \A q \in Prompt :
        LET r == [prompt[q] EXCEPT !.answer = a]
        IN  r.from = prompt[q].from /\ r.on = prompt[q].on /\ r.answer = a
  BY ZenonT(60), <1>2 DEF Asked
<1> QED
  BY ZenonT(60), <1>1, <1>3, <1>4 DEF Settled

\* y and n answer the prompt on screen, which waits.
LEMMA AnswerKeysKeep ==
  ASSUME ClientInv, AcceptKey \/ RejectKey
  PROVE  QueueTypes' /\ RequestsOK'
<1> DEFINE p == app.responder
<1>1. /\ UNCHANGED <<incoming, notices, events, sends, sent>> /\ app.mode = "IncomingCall"
      /\ \E a \in {"yes", "no"} : prompt' = [prompt EXCEPT ![p].answer = a]
  BY Zenon DEF AcceptKey, RejectKey, Key, Answered
<1>2. app'.mode = "Normal" /\ app'.responder = 0
  <2>1. app \in Screen
    BY Zenon DEF ClientInv, ScreenTypes
  <2> QED
    BY ZenonT(60), <2>1 DEF AcceptKey, RejectKey, Screen
<1>3. prompt \in [Prompt -> Asked] /\ PlacesOK /\ 0 \notin Prompt
  BY Zenon, Numbers DEF ClientInv, QueueTypes
<1>4. PICK a \in {"yes", "no"} : Settled(p, a)
  BY Zenon, <1>1, <1>3, Settles
<1>5. p \in Prompt /\ prompt[p].answer = "waiting"
  BY Zenon, <1>1, <1>3 DEF PlacesOK, Awaits
<1>6. AnswersOK'
  BY SMTT(20), <1>1, <1>4, <1>5, AnswersKept DEF Settled
<1> HIDE DEF p
<1>7. \A q, who : q # p /\ Awaits(q, who) => Awaits(q, who)'
  BY Zenon, <1>4 DEF Awaits, Settled
<1>8. PlacesOK'
  <2>1. /\ \A n \in Start : Once(incoming[n]) /\ \A c \in Items(incoming[n]) : Awaits(c.id, c.who)'
        /\ OnceCalled(events) /\ \A c \in Calls(events) : Awaits(c.id, c.who)' /\ c.id # 0
    BY SMTT(20), <1>3, <1>7 DEF PlacesOK, Awaits, p
  <2>2. \A n \in Start : \A c \in Items(incoming[n]) :
          /\ c.id # 0
          /\ \A d \in Calls(events) : d.id # c.id
          /\ \A m \in Start : \A d \in Items(incoming[m]) : m # n => d.id # c.id
    BY SMTT(20), <1>3 DEF PlacesOK, Awaits
  <2>3. /\ \A n \in Start : Once(incoming'[n]) /\ \A c \in Items(incoming'[n]) : Awaits(c.id, c.who)'
        /\ OnceCalled(events') /\ \A c \in Calls(events') : Awaits(c.id, c.who)' /\ c.id # app'.responder
    BY Zenon, <1>1, <1>2, <2>1
  <2>4. \A n \in Start : \A c \in Items(incoming'[n]) :
          /\ c.id # app'.responder
          /\ \A d \in Calls(events') : d.id # c.id
          /\ \A m \in Start : \A d \in Items(incoming'[m]) : m # n => d.id # c.id
    BY ZenonT(60), <1>1, <1>2, <2>2
  <2> QED
    BY Zenon, <1>2, <2>3, <2>4 DEF PlacesOK
<1>9. FoundOK'
  <2>1. ASSUME NEW q \in Prompt, prompt'[q].answer = "waiting"
        PROVE  q # p /\ prompt[q].answer = "waiting"
    BY Zenon, <1>4, <2>1 DEF Settled
  <2>2. app.mode # "Quit"
    BY Zenon, <1>1
  <2> QED
    BY Zenon, <1>1, <2>1, <2>2 DEF ClientInv, FoundOK, p
<1> QED
  BY Zenon, <1>1, <1>4, <1>6, <1>8, <1>9 DEF ClientInv, QueueTypes, Settled, RequestsOK

\* The screen reads an event: a call is accepted at once or takes the place of
\* the prompt on screen, which is dropped; the others are about no request.
LEMMA EventRequests ==
  ASSUME ClientInv, HandleEvent
  PROVE  QueueTypes' /\ RequestsOK'
<1>1. /\ app \in Screen /\ events \in Seq(Event) /\ events # <<>> /\ events' = Tail(events)
      /\ UNCHANGED <<incoming, notices, sends, sent>>
      /\ prompt \in [Prompt -> Asked] /\ PlacesOK /\ 0 \notin Prompt /\ app.mode # "Quit"
  BY Zenon, Numbers DEF ClientInv, ScreenTypes, QueueTypes, HandleEvent
<1>2. Head(events) \in Event /\ events' \in Seq(Event)
  BY <1>1
<1>6. PICK e \in Event : e = Head(events)
  BY Zenon, <1>2
<1>3. OnceCalled(events) /\ OnceCalled(events')
  BY Zenon, <1>1, EventsTail DEF PlacesOK
<1>4. CASE e.kind # "IncomingCall"
  <2>1. Calls(events') = Calls(events)
    BY Zenon, <1>1, <1>4, <1>6, EventsTail
  <2>2. SessionEnded(e.id) \/ CallNotice(e)
    BY Zenon, <1>4, <1>6 DEF HandleEvent
  <2>3. /\ prompt' = prompt /\ app'.responder = app.responder /\ app'.from = app.from
        /\ app'.mode = app.mode
    BY ZenonT(60), <1>1, <2>2 DEF SessionEnded, CallNotice, Resting, Screen
  <2>4. RequestsOK'
    BY Zenon, <1>1, <1>3, <2>1, <2>3, NoRequest
  <2> QED
    BY Zenon, <1>1, <1>2, <2>3, <2>4 DEF ClientInv, QueueTypes
<1>5. CASE e.kind = "IncomingCall"
  <2> DEFINE here == [who |-> e.who, id |-> e.id]
  <2>1. /\ Calls(events) = Calls(events') \cup {here} /\ IncomingCall(e)
        /\ \A c \in Calls(events') : c.id # e.id
    BY Zenon, <1>1, <1>3, <1>5, <1>6, EventsTail DEF HandleEvent
  <2>2. here \in Calls(events) /\ Calls(events') \subseteq Calls(events)
    BY Zenon, <2>1
  <2>3. here.id = e.id /\ here.who = e.who
    BY Zenon
  <2>4. /\ Awaits(e.id, e.who) /\ e.id # app.responder
        /\ \A n \in Start : \A c \in Items(incoming[n]) : c.id # e.id
    BY SMTT(20), <1>1, <2>2, <2>3 DEF PlacesOK
  <2>5. /\ \A n \in Start : \A c \in Items(incoming[n]) : Awaits(c.id, c.who) /\ c.id # app.responder
        /\ \A c \in Calls(events') : Awaits(c.id, c.who) /\ c.id # app.responder
        /\ \A n \in Start : \A c \in Items(incoming[n]) : \A d \in Calls(events') : d.id # c.id
        /\ app.responder # 0 => Awaits(app.responder, app.from) /\ app.mode \in {"IncomingCall", "Quit"}
        /\ app.mode = "IncomingCall" => app.responder # 0
    BY SMTT(20), <1>1, <2>2 DEF PlacesOK
  <2>6. \A n \in Start :
          /\ Once(incoming[n])
          /\ \A c \in Items(incoming[n]) : \A m \in Start : \A d \in Items(incoming[m]) : m # n => d.id # c.id
    BY Zenon, <1>1 DEF PlacesOK
  <2>7. \A p \in Prompt : prompt[p].answer = "waiting" =>
          \/ \E n \in Start : \E c \in Items(incoming[n]) : c.id = p
          \/ \E c \in Calls(events') : c.id = p
          \/ p = e.id
          \/ app.responder = p
    BY Zenon, <1>1, <2>1, <2>3 DEF ClientInv, FoundOK
  <2> HIDE DEF here
  <2>8. CASE app.auto \/ (app.state \in {"Connecting", "InCall"} /\ app.with = e.who)
    <3>1. /\ app' = [app EXCEPT !.state = "InCall", !.with = e.who]
          /\ prompt' = [prompt EXCEPT ![e.id].answer = "yes"]
      BY Zenon, <2>1, <2>8 DEF IncomingCall
    <3>2. app'.responder = app.responder /\ app'.from = app.from /\ app'.mode = app.mode
      BY ZenonT(60), <1>1, <3>1 DEF Screen
    <3>3. Settled(e.id, "yes")
      BY Zenon, <1>1, <3>1, Settles
    <3>4. AnswersOK'
      BY SMTT(20), <1>1, <2>4, <3>3, AnswersKept DEF Settled, Awaits
    <3>5. \A p, who : p # e.id /\ Awaits(p, who) => Awaits(p, who)'
      BY Zenon, <3>3 DEF Awaits, Settled
    <3>6. PlacesOK'
      <4>1. /\ \A n \in Start : \A c \in Items(incoming[n]) : Awaits(c.id, c.who)'
            /\ \A c \in Calls(events') : Awaits(c.id, c.who)'
        BY Zenon, <2>1, <2>4, <2>5, <3>5
      <4>2. app.responder # 0 => Awaits(app.responder, app.from)'
        <5>1. \A p, who : (p = app.responder /\ who = app.from /\ p # 0) => Awaits(p, who)'
          BY Zenon, <2>4, <2>5, <3>5
        <5> QED
          BY Zenon, <3>2, <5>1
      <4> QED
        BY SMTT(20), <1>1, <1>3, <2>5, <2>6, <3>2, <4>1, <4>2 DEF PlacesOK
    <3>7. FoundOK'
      <4>1. \A p \in Prompt : prompt'[p].answer = "waiting" => p # e.id /\ prompt[p].answer = "waiting"
        BY Zenon, <3>3 DEF Settled
      <4> QED
        BY SMTT(20), <1>1, <2>7, <3>2, <4>1 DEF FoundOK
    <3> QED
      BY Zenon, <1>1, <1>2, <3>3, <3>4, <3>6, <3>7 DEF ClientInv, QueueTypes, Settled, RequestsOK
  <2>9. CASE ~(app.auto \/ (app.state \in {"Connecting", "InCall"} /\ app.with = e.who))
    <3>1. /\ app' = [app EXCEPT !.mode = "IncomingCall", !.from = e.who, !.responder = e.id]
          /\ prompt' = [p \in Prompt |-> IF p = app.responder
                 THEN [prompt[p] EXCEPT !.answer = "dropped"] ELSE prompt[p]]
      BY Zenon, <2>1, <2>9 DEF IncomingCall
    <3>2. app'.responder = e.id /\ app'.from = e.who /\ app'.mode = "IncomingCall"
      BY ZenonT(60), <1>1, <3>1 DEF Screen
    <3>3. Settled(app.responder, "dropped")
      BY Zenon, <1>1, <3>1, Settles
    <3>4. AnswersOK'
      BY SMTT(20), <1>1, <2>5, <3>3, AnswersKept DEF Settled, Awaits
    <3>5. \A p, who : p # app.responder /\ Awaits(p, who) => Awaits(p, who)'
      BY Zenon, <3>3 DEF Awaits, Settled
    <3>6. PlacesOK'
      <4>1. /\ \A n \in Start : \A c \in Items(incoming[n]) : Awaits(c.id, c.who)'
            /\ \A c \in Calls(events') : Awaits(c.id, c.who)'
        BY Zenon, <2>5, <3>5
      <4>2. Awaits(e.id, e.who)' /\ e.id # 0
        BY Zenon, <1>1, <2>4, <3>5 DEF Awaits
      <4>3. Awaits(app.responder, app.from)'
        BY Zenon, <3>2, <4>2 DEF Awaits
      <4> QED
        BY SMTT(20), <1>1, <1>3, <2>1, <2>4, <2>5, <2>6, <3>2, <4>1, <4>2, <4>3 DEF PlacesOK
    <3>7. FoundOK'
      <4>1. \A p \in Prompt : prompt'[p].answer = "waiting" =>
              p # app.responder /\ prompt[p].answer = "waiting"
        BY Zenon, <3>3 DEF Settled
      <4> QED
        BY SMTT(20), <1>1, <2>7, <3>2, <4>1 DEF FoundOK
    <3> QED
      BY Zenon, <1>1, <1>2, <3>3, <3>4, <3>6, <3>7 DEF ClientInv, QueueTypes, Settled, RequestsOK
  <2> QED
    BY Zenon, <2>8, <2>9
<1> QED
  BY Zenon, <1>4, <1>5

\* The incoming-call handler hands a request on to the screen.
LEMMA ForwardRequests ==
  ASSUME ClientInv, NEW n \in Start, ForwardCall(n)
  PROVE  QueueTypes' /\ RequestsOK'
<1>1. PICK c \in Call, e \in Event :
        /\ c = Head(incoming[n]) /\ e = [kind |-> "IncomingCall", who |-> c.who, id |-> c.id]
        /\ events' = Append(events, e)
  BY Zenon, ForwardedCall
<1>2. /\ incoming[n] \in Seq(Call) /\ incoming[n] # <<>> /\ Tail(incoming[n]) \in Seq(Call)
      /\ incoming' = [incoming EXCEPT ![n] = Tail(incoming[n])]
      /\ UNCHANGED <<app, notices, prompt, sends, sent>>
      /\ incoming \in [Start -> Seq(Call)] /\ events \in Seq(Event) /\ PlacesOK
  BY Zenon, ForwardedCall DEF ForwardCall, ui, ClientInv, QueueTypes
<1>3. /\ incoming' \in [Start -> Seq(Call)] /\ incoming'[n] = Tail(incoming[n])
      /\ \A m \in Start : m # n => incoming'[m] = incoming[m]
      /\ events' \in Seq(Event)
  BY Zenon, <1>1, <1>2, Queue
<1>4. e.kind = "IncomingCall" /\ e.who = c.who /\ e.id = c.id /\ c = [who |-> c.who, id |-> c.id]
  BY Zenon, <1>1 DEF Call
<1>5. Once(incoming[n]) /\ OnceCalled(events)
  BY Zenon, <1>2 DEF PlacesOK
<1>6. /\ Items(incoming[n]) = Items(incoming'[n]) \cup {c}
      /\ Once(incoming'[n]) /\ \A d \in Items(incoming'[n]) : d.id # c.id
  BY SMTT(20), <1>1, <1>2, <1>3, <1>5, ItemsTail
<1>7. Calls(events') = Calls(events) \cup {c}
  <2>1. Calls(events') = Calls(events) \cup {[who |-> e.who, id |-> e.id]}
    <3>1. events' = Append(events, e) /\ events \in Seq(Event) /\ e.kind = "IncomingCall"
      BY Zenon, <1>1, <1>2, <1>4
    <3> QED
      BY Zenon, <3>1, EventsAppend
  <2>2. [who |-> e.who, id |-> e.id] = c
    BY Zenon, <1>4
  <2> QED
    BY Zenon, <2>1, <2>2
<1>8. \A d \in Calls(events) : d.id # c.id
  BY Zenon, <1>2, <1>6 DEF PlacesOK
<1>9. OnceCalled(events')
  BY SMTT(20), <1>1, <1>2, <1>4, <1>5, <1>8, EventsAppend
<1>10. \A m \in Start : Items(incoming'[m]) \subseteq Items(incoming[m]) /\ Once(incoming'[m])
  BY Zenon, <1>2, <1>3, <1>6 DEF PlacesOK
<1>11. ASSUME NEW m \in Start, NEW d \in Items(incoming'[m]) PROVE d.id # c.id
  <2>1. CASE m = n
    BY Zenon, <1>6, <1>11, <2>1
  <2>2. CASE m # n
    <3>1. c \in Items(incoming[n]) /\ d \in Items(incoming[m])
      BY Zenon, <1>6, <1>10, <1>11
    <3> QED
      BY SMTT(20), <1>2, <2>2, <3>1 DEF PlacesOK
  <2> QED
    BY Zenon, <2>1, <2>2
<1>12. PlacesOK'
  <2>1. /\ \A m \in Start : \A d \in Items(incoming'[m]) : Awaits(d.id, d.who)
        /\ \A d \in Calls(events') : Awaits(d.id, d.who) /\ d.id # app.responder
    BY Zenon, <1>2, <1>6, <1>7, <1>10 DEF PlacesOK
  <2>2. \A m \in Start : \A d \in Items(incoming'[m]) :
          /\ d.id # app.responder
          /\ \A x \in Calls(events') : x.id # d.id
          /\ \A k \in Start : \A x \in Items(incoming'[k]) : k # m => x.id # d.id
    BY SMTT(20), <1>2, <1>7, <1>10, <1>11 DEF PlacesOK
  <2> QED
    BY SMTT(20), <1>2, <1>9, <1>10, <2>1, <2>2 DEF PlacesOK, Awaits
<1>13. FoundOK'
  <2>1. ASSUME NEW m \in Start, NEW d \in Items(incoming[m])
        PROVE  d \in Items(incoming'[m]) \/ d \in Calls(events')
    BY Zenon, <1>3, <1>6, <1>7, <2>1
  <2>2. Calls(events) \subseteq Calls(events')
    BY Zenon, <1>7
  <2> QED
    BY SMTT(60), <1>2, <2>1, <2>2 DEF ClientInv, FoundOK
<1>14. AnswersOK'
  BY Zenon, <1>2 DEF ClientInv, AnswersOK
<1> QED
  BY Zenon, <1>2, <1>3, <1>12, <1>13, <1>14 DEF ClientInv, QueueTypes, RequestsOK

\* A task sends the answer the user gave: there was none before.
LEMMA ReplyRequests ==
  ASSUME ClientInv, NEW p \in Prompt, Reply(p)
  PROVE  QueueTypes' /\ RequestsOK'
<1>1. /\ prompt[p].answer \in {"yes", "no"} /\ UNCHANGED <<app, incoming, notices, events, sends>>
      /\ prompt \in [Prompt -> Asked] /\ PlacesOK /\ sent \subseteq Sent
  BY Zenon DEF Reply, ui, ClientInv, QueueTypes
<1> DEFINE a == IF prompt[p].answer = "yes" THEN "accepted" ELSE "rejected"
           k == IF prompt[p].answer = "yes" THEN "Accept" ELSE "Reject"
           x == [kind |-> k, to |-> prompt[p].from, on |-> prompt[p].on, id |-> p]
<1>2. prompt' = [prompt EXCEPT ![p].answer = a] /\ a \in {"accepted", "rejected"}
  BY Zenon, <1>1 DEF Reply
<1>3. Settled(p, a)
  BY Zenon, <1>1, <1>2, Settles
<1>4. sent' = sent \/ sent' = sent \cup {x}
  BY Zenon DEF Reply, Sending
<1>5. x \in Sent
  <2>1. prompt[p].from \in Someone /\ prompt[p].on \in Start /\ k \in {"Accept", "Reject"}
    BY Zenon, <1>1 DEF ClientInv, AnswersOK, Asked
  <2> HIDE DEF k
  <2> QED
    BY Zenon, <2>1 DEF Sent
<1>6. /\ x.id = p /\ x.on = prompt[p].on /\ x.to = prompt[p].from
      /\ x.kind = "Accept" => a = "accepted"
      /\ x.kind = "Reject" => a = "rejected"
  BY Zenon
<1> HIDE DEF a, k, x
<1>7. \A y \in sent : y.kind \in {"Accept", "Reject"} => y.id \in Prompt /\ y.id # p
  <2>1. \A y \in sent : y.kind \in {"Accept", "Reject"} => y.id \in Prompt
    BY ZenonT(60), <1>1 DEF Sent
  <2> QED
    BY SMTT(20), <1>1, <2>1 DEF ClientInv, AnswersOK
<1>8. AnswersOK'
  <2>1. \A q \in Prompt : prompt'[q].answer # "none" => prompt'[q].on \in Start
    BY SMTT(20), <1>1, <1>3 DEF Settled, ClientInv, AnswersOK
  <2>2. \A y \in sent :
          /\ y.kind = "Accept" => prompt'[y.id].answer \in {"auto", "accepted"}
          /\ y.kind = "Reject" => prompt'[y.id].answer = "rejected"
          /\ y.kind \in {"Accept", "Reject"} => y.on = prompt'[y.id].on /\ y.to = prompt'[y.id].from
    BY SMTT(20), <1>3, <1>7 DEF Settled, ClientInv, AnswersOK
  <2>3. /\ x.kind = "Accept" => prompt'[x.id].answer \in {"auto", "accepted"}
        /\ x.kind = "Reject" => prompt'[x.id].answer = "rejected"
        /\ x.on = prompt'[x.id].on /\ x.to = prompt'[x.id].from
    BY SMTT(20), <1>3, <1>6 DEF Settled
  <2> QED
    BY Zenon, <1>4, <2>1, <2>2, <2>3 DEF AnswersOK
<1>9. \A q, who : Awaits(q, who) => Awaits(q, who)'
  BY SMTT(20), <1>1, <1>3 DEF Awaits, Settled
<1>10. PlacesOK'
  <2>1. app.responder # 0 => Awaits(app.responder, app.from)'
    BY Zenon, <1>1, <1>9 DEF PlacesOK
  <2> QED
    BY SMTT(20), <1>1, <1>9, <2>1 DEF PlacesOK
<1>11. FoundOK'
  <2>1. \A q \in Prompt : prompt'[q].answer = "waiting" => prompt[q].answer = "waiting"
    BY SMTT(20), <1>2, <1>3 DEF Settled
  <2> QED
    BY Zenon, <1>1, <2>1 DEF ClientInv, FoundOK
<1> QED
  BY Zenon, <1>1, <1>3, <1>4, <1>5, <1>8, <1>10, <1>11 DEF ClientInv, QueueTypes, Settled, RequestsOK

\* The DataChannel's task answers a request or asks the user, under a number
\* no prompt has had.
LEMMA AnswerRequests ==
  ASSUME ClientInv, NEW n \in Start, AnswerRequest(n)
  PROVE  QueueTypes' /\ RequestsOK'
<1>1. /\ conn \in [Start -> ConnState] /\ prompt \in [Prompt -> Asked] /\ sent \subseteq Sent
      /\ incoming \in [Start -> Seq(Call)] /\ PlacesOK /\ 0 \notin Prompt
      /\ UNCHANGED <<app, notices, events, sends>>
  BY Zenon, Numbers DEF ClientInv, ScreenTypes, QueueTypes, AnswerRequest, ui
<1>2. PICK p \in Prompt : p = NextPrompt /\ prompt[p].answer = "none"
  <2>1. Unused # {}
    BY Zenon DEF AnswerRequest
  <2> QED
    BY Zenon, <2>1 DEF NextPrompt, Unused
<1>3. PICK who \in Peer : who = conn[n].caller
  BY Zenon, <1>1 DEF ConnState, Someone, AnswerRequest
<1>4. PICK h \in Start : h = session[conn[n].obj].handler
  <2>1. conn[n].caller # None
    BY Zenon DEF AnswerRequest
  <2> QED
    BY Zenon, <2>1 DEF ClientInv, StandbysOK
<1>5. PICK a \in {"auto", "waiting"} : a = IF conn[n].at_once THEN "auto" ELSE "waiting"
  BY Zenon
<1>5a. PICK asked, c, x : /\ asked = [from |-> who, on |-> n, answer |-> a]
                           /\ c = [who |-> who, id |-> p]
                           /\ x = [kind |-> "Accept", to |-> who, on |-> n, id |-> p]
  BY Zenon
<1>6. /\ prompt' = [prompt EXCEPT ![p] = asked]
      /\ a = "auto" => incoming' = incoming /\ (sent' = sent \/ sent' = sent \cup {x})
      /\ a = "waiting" => incoming' = [incoming EXCEPT ![h] = Append(incoming[h], c)] /\ sent' = sent
  BY Zenon, <1>1, <1>2, <1>3, <1>4, <1>5, <1>5a DEF AnswerRequest, Sending
<1>7. /\ asked \in Asked /\ asked.from = who /\ asked.on = n /\ asked.answer = a
      /\ c \in Call /\ c.id = p /\ c.who = who
      /\ x \in Sent /\ x.kind = "Accept" /\ x.to = who /\ x.on = n /\ x.id = p
  <2>1. n \in Standby /\ who \in Someone
    BY Zenon DEF Standby, Someone
  <2> QED
    BY ZenonT(60), <1>5a, <2>1 DEF Asked, Call, Sent
<1>8. /\ prompt' \in [Prompt -> Asked] /\ prompt'[p] = asked
      /\ \A q \in Prompt : q # p => prompt'[q] = prompt[q]
  BY Zenon, <1>1, <1>6, <1>7
<1>9. \A q, w : Awaits(q, w) => q # p /\ Awaits(q, w)'
  BY SMTT(20), <1>2, <1>8 DEF Awaits
<1>9a. /\ \A m \in Start : \A d \in Items(incoming[m]) : Awaits(d.id, d.who)
       /\ \A d \in Calls(events) : Awaits(d.id, d.who)
       /\ app.responder # 0 => Awaits(app.responder, app.from)
  BY Zenon, <1>1 DEF PlacesOK
<1>10. AnswersOK'
  <2>1. \A y \in sent : y.kind \in {"Accept", "Reject"} => y.id \in Prompt
    BY ZenonT(60), <1>1 DEF Sent
  <2>2. \A y \in sent : y.kind \in {"Accept", "Reject"} => y.id # p
    BY SMTT(20), <1>2, <2>1 DEF ClientInv, AnswersOK
  <2>3. \A q \in Prompt : prompt'[q].answer # "none" => prompt'[q].on \in Start
    BY SMTT(20), <1>7, <1>8 DEF ClientInv, AnswersOK
  <2>4. \A y \in sent :
          /\ y.kind = "Accept" => prompt'[y.id].answer \in {"auto", "accepted"}
          /\ y.kind = "Reject" => prompt'[y.id].answer = "rejected"
          /\ y.kind \in {"Accept", "Reject"} => y.on = prompt'[y.id].on /\ y.to = prompt'[y.id].from
    BY SMTT(20), <1>8, <2>1, <2>2 DEF ClientInv, AnswersOK
  <2>5. a = "auto" => prompt'[x.id].answer = "auto" /\ x.on = prompt'[x.id].on /\ x.to = prompt'[x.id].from
    BY Zenon, <1>7, <1>8
  <2>6. \A y \in sent' : y \in sent \/ (a = "auto" /\ y = x)
    BY Zenon, <1>6
  <2> QED
    BY SMTT(20), <1>7, <2>3, <2>4, <2>5, <2>6 DEF AnswersOK
<1>11. sent' \subseteq Sent
  BY Zenon, <1>1, <1>6, <1>7
<1>12. /\ incoming' \in [Start -> Seq(Call)]
       /\ \A m \in Start : m # h => incoming'[m] = incoming[m]
       /\ a = "auto" => incoming' = incoming
       /\ a = "waiting" => Items(incoming'[h]) = Items(incoming[h]) \cup {c}
       /\ Once(incoming'[h])
  <2>1. incoming[h] \in Seq(Call) /\ Once(incoming[h]) /\ \A d \in Items(incoming[h]) : d.id # c.id
    <3>1. \A d \in Items(incoming[h]) : d.id # p
      BY Zenon, <1>9, <1>9a
    <3>2. c.id = p
      BY Zenon, <1>7
    <3> QED
      BY Zenon, <1>1, <3>1, <3>2 DEF PlacesOK
  <2>2. /\ Append(incoming[h], c) \in Seq(Call)
        /\ Items(Append(incoming[h], c)) = Items(incoming[h]) \cup {c}
        /\ Once(Append(incoming[h], c))
    <3>1. c \in Call
      BY Zenon, <1>7
    <3> QED
      BY Zenon, <2>1, <3>1, ItemsAppend, Queue
  <2>3. CASE a = "auto"
    BY Zenon, <1>1, <1>6, <2>1, <2>3
  <2>4. CASE a = "waiting"
    <3>1. incoming' = [incoming EXCEPT ![h] = Append(incoming[h], c)]
      BY Zenon, <1>6, <2>4
    <3>2. /\ incoming' \in [Start -> Seq(Call)] /\ incoming'[h] = Append(incoming[h], c)
          /\ \A m \in Start : m # h => incoming'[m] = incoming[m]
      BY Zenon, <1>1, <2>2, <3>1
    <3> QED
      BY Zenon, <2>2, <2>4, <3>2
  <2> QED
    BY Zenon, <2>3, <2>4
<1>13. /\ \A m \in Start : Once(incoming'[m]) /\ Items(incoming[m]) \subseteq Items(incoming'[m])
       /\ \A m \in Start : \A d \in Items(incoming'[m]) :
             d \in Items(incoming[m]) \/ (d = c /\ m = h /\ a = "waiting")
  <2>1. \A m \in Start : Once(incoming[m])
    BY Zenon, <1>1 DEF PlacesOK
  <2>2. \A m \in Start : m # h => Items(incoming'[m]) = Items(incoming[m]) /\ Once(incoming'[m])
    BY Zenon, <1>12, <2>1
  <2>3. CASE a = "auto"
    BY Zenon, <1>12, <2>1, <2>3
  <2>4. CASE a = "waiting"
    BY ZenonT(60), <1>12, <2>2, <2>4
  <2> QED
    BY Zenon, <1>5, <2>3, <2>4
<1>14. PlacesOK'
  <2>1. a = "waiting" => Awaits(c.id, c.who)'
    <3>1. a = "waiting" => p \in Prompt /\ prompt'[p].answer = "waiting" /\ prompt'[p].from = who
      BY Zenon, <1>7, <1>8
    <3>2. c.id = p /\ c.who = who
      BY Zenon, <1>7
    <3> QED
      BY Zenon, <3>1, <3>2 DEF Awaits
  <2>2. /\ \A m \in Start : \A d \in Items(incoming[m]) : Awaits(d.id, d.who)' /\ d.id # p
        /\ \A d \in Calls(events) : Awaits(d.id, d.who)' /\ d.id # p
        /\ app.responder # 0 => Awaits(app.responder, app.from)' /\ app.responder # p
    <3>1. \A m \in Start : \A d \in Items(incoming[m]) : Awaits(d.id, d.who)' /\ d.id # p
      BY Zenon, <1>9, <1>9a
    <3>2. \A d \in Calls(events) : Awaits(d.id, d.who)' /\ d.id # p
      BY Zenon, <1>9, <1>9a
    <3>3. app.responder # 0 => Awaits(app.responder, app.from)' /\ app.responder # p
      <4>1. PICK r, f : r = app.responder /\ f = app.from
        BY Zenon
      <4>2. r # 0 => Awaits(r, f)' /\ r # p
        BY Zenon, <1>9, <1>9a, <4>1
      <4>3. r = app'.responder /\ f = app'.from
        BY Zenon, <1>1, <4>1
      <4> QED
        BY Zenon, <4>1, <4>2, <4>3
    <3> QED
      BY Zenon, <3>1, <3>2, <3>3
  <2>3. \A m \in Start : \A d \in Items(incoming'[m]) : Awaits(d.id, d.who)'
    BY Zenon, <1>13, <2>1, <2>2
  <2>4. app.responder # p
    BY ZenonT(60), <1>1, <2>2
  <2>5. \A m \in Start : \A d \in Items(incoming'[m]) :
          /\ d.id # app.responder
          /\ \A y \in Calls(events) : y.id # d.id
    BY SMTT(20), <1>1, <1>7, <1>13, <2>2, <2>4 DEF PlacesOK
  <2>6. ASSUME NEW m \in Start, NEW d \in Items(incoming'[m]),
               NEW k \in Start, NEW y \in Items(incoming'[k]), k # m
        PROVE  y.id # d.id
    <3>1. CASE d \in Items(incoming[m]) /\ y \in Items(incoming[k])
      BY ZenonT(60), <1>1, <2>6, <3>1 DEF PlacesOK
    <3>2. c.id = p /\ \A z \in Items(incoming[m]) \cup Items(incoming[k]) : z.id # p
      BY Zenon, <1>7, <2>2
    <3> QED
      BY Zenon, <1>13, <2>6, <3>1, <3>2
  <2> QED
    BY SMTT(20), <1>1, <1>13, <2>2, <2>3, <2>5, <2>6 DEF PlacesOK
<1>15. FoundOK'
  <2>1. \A q \in Prompt : prompt'[q].answer = "waiting" => (q = p /\ a = "waiting") \/ prompt[q].answer = "waiting"
    BY Zenon, <1>7, <1>8
  <2>2. a = "waiting" => c \in Items(incoming'[h])
    BY Zenon, <1>12
  <2> DEFINE Found(q) == \/ \E m \in Start : \E d \in Items(incoming'[m]) : d.id = q
                         \/ \E d \in Calls(events) : d.id = q
                         \/ app.responder = q
  <2>3. ASSUME NEW q \in Prompt, prompt'[q].answer = "waiting", app.mode # "Quit"
        PROVE  Found(q)
    <3>1. CASE q = p /\ a = "waiting"
      <4>1. c.id = q
        BY Zenon, <1>7, <3>1
      <4> QED
        BY Zenon, <2>2, <3>1, <4>1
    <3>2. CASE prompt[q].answer = "waiting"
      BY Zenon, <1>13, <2>3, <3>2 DEF ClientInv, FoundOK
    <3> QED
      BY Zenon, <2>1, <2>3, <3>1, <3>2
  <2> QED
    BY Zenon, <1>1, <2>3 DEF FoundOK
<1> QED
  BY Zenon, <1>1, <1>8, <1>10, <1>11, <1>12, <1>14, <1>15 DEF ClientInv, QueueTypes, RequestsOK

-----------------------------------------------------------------------------
(* The invariants *)

\* run_tui starts with one standby, empty queues and no request.
LEMMA InitClient ==
  ClientInit => ClientInv
<1> SUFFICES ASSUME ClientInit PROVE ClientInv
  OBVIOUS
<1>1. /\ 0 \notin Start /\ 0 \notin Prompt /\ 1 \in Start /\ 1 \in Standby /\ 0 \in Standby
      /\ None \in Someone /\ 0 \in Asking /\ AutoAccept \in BOOLEAN /\ 0 + 1 = 1 /\ 0 \in Nat
  BY Numbers, BoundsAssumption DEF Standby, Someone, Asking
<1>2. /\ app = [mode |-> "Normal", state |-> "Standby", with |-> None, sid |-> 1, cancel |-> 1,
                from |-> None, responder |-> 0, auto |-> AutoAccept, muted |-> FALSE, obj |-> 1]
      /\ events = <<>> /\ sends = {} /\ sent = {} /\ stopped = {} /\ keys = 0 /\ packets = 0
  BY Zenon, <1>1 DEF ClientInit, Starting
<1>3. /\ app \in Screen /\ app.mode = "Normal" /\ app.sid = 1 /\ app.cancel = 1
      /\ app.responder = 0 /\ app.obj = 1
  BY ZenonT(60), <1>1, <1>2 DEF Screen
<1>4. ASSUME NEW n \in Start
      PROVE  /\ session[n] \in Shared
             /\ n = 1 => session[n].handler = 1
             /\ conn[n] \in ConnState /\ ~conn[n].cancelled /\ conn[n].stage # "ended"
             /\ conn[n].inbox = <<>> /\ conn[n].caller = None
             /\ n # 1 => conn[n].stage = "none"
             /\ n = 1 => conn[n].obj = 1
  <2>1. session[n] = [NewSession EXCEPT !.handler = IF n = 1 THEN 1 ELSE 0]
    BY Zenon DEF ClientInit
  <2>2. conn[n] = IF n = 1 THEN [NoConn EXCEPT !.stage = "start", !.obj = 1, !.auto = AutoAccept]
                  ELSE NoConn
    BY Zenon DEF ClientInit
  <2>3. PICK h \in Standby, st \in {"start", "none"}, o \in Standby, b \in BOOLEAN :
          /\ h = IF n = 1 THEN 1 ELSE 0
          /\ st = IF n = 1 THEN "start" ELSE "none"
          /\ o = IF n = 1 THEN 1 ELSE 0
          /\ b = IF n = 1 THEN AutoAccept ELSE FALSE
    BY Zenon, <1>1
  <2>4. session[n] = [target |-> None, room |-> FALSE, handler |-> h, channel |-> 0, muted |-> FALSE]
    BY Zenon, <2>1, <2>3 DEF NewSession
  <2>5. conn[n] = [stage |-> st, obj |-> o, auto |-> b, cancelled |-> FALSE,
                   inbox |-> <<>>, caller |-> None, at_once |-> FALSE]
    <3>1. CASE n = 1
      BY Zenon, <2>2, <2>3, <3>1 DEF NoConn
    <3>2. CASE n # 1
      BY Zenon, <2>2, <2>3, <3>2 DEF NoConn
    <3> QED
      BY Zenon, <3>1, <3>2
  <2>6. /\ session[n] \in Shared /\ session[n].handler = h
        /\ conn[n] \in ConnState /\ conn[n].stage = st /\ conn[n].obj = o /\ ~conn[n].cancelled
        /\ conn[n].inbox = <<>> /\ conn[n].caller = None
    <3>1. PICK s, c : s = session[n] /\ c = conn[n]
      BY Zenon
    <3>2. 0 \in Standby /\ None \in Someone /\ <<>> \in Seq(Packet)
      BY <1>1
    <3>3. s = [target |-> None, room |-> FALSE, handler |-> h, channel |-> 0, muted |-> FALSE]
      BY Zenon, <2>4, <3>1
    <3>4. c = [stage |-> st, obj |-> o, auto |-> b, cancelled |-> FALSE,
               inbox |-> <<>>, caller |-> None, at_once |-> FALSE]
      BY Zenon, <2>5, <3>1
    <3>5. s \in Shared /\ s.handler = h
      BY ZenonT(60), <3>2, <3>3 DEF Shared
    <3>6. c \in ConnState
      BY ZenonT(60), <3>2, <3>4 DEF ConnState
    <3>7. c.stage = st /\ c.obj = o /\ ~c.cancelled /\ c.inbox = <<>> /\ c.caller = None
      BY Zenon, <3>4
    <3> QED
      BY Zenon, <3>1, <3>5, <3>6, <3>7
  <2>7. st # "ended"
    BY Zenon
  <2> QED
    BY Zenon, <2>3, <2>6, <2>7
<1>5. ScreenTypes
  <2>1. /\ session = [o \in Start |-> session[o]] /\ conn = [n \in Start |-> conn[n]]
    BY Zenon DEF ClientInit
  <2> QED
    BY Zenon, <1>1, <1>2, <1>3, <1>4, <2>1 DEF ScreenTypes
<1>6. /\ incoming = [n \in Start |-> <<>>] /\ notices = [n \in Start |-> <<>>]
      /\ prompt = [p \in Prompt |-> NoPrompt] /\ NoPrompt \in Asked /\ NoPrompt.answer = "none"
  BY SMTT(20), <1>1 DEF ClientInit, NoPrompt, Asked
<1>7. QueueTypes
  BY SMTT(20), <1>2, <1>6 DEF QueueTypes
<1>8. Items(<<>>) = {} /\ Calls(<<>>) = {} /\ Ended(<<>>) = {} /\ Once(<<>>) /\ OnceCalled(<<>>)
  BY DEF Items, Calls, Ended, Once, OnceCalled
<1>9. StandbysOK
  <2>1. \A n \in Start : n > 1 => n # 1
    BY DEF Start
  <2> QED
    BY SMTT(20), <1>1, <1>2, <1>3, <1>4, <1>8, <2>1 DEF StandbysOK
<1>10. PlacesOK /\ FoundOK /\ AnswersOK
  BY Zenon, <1>2, <1>3, <1>6, <1>8 DEF PlacesOK, FoundOK, AnswersOK
<1> QED
  BY Zenon, <1>5, <1>7, <1>9, <1>10 DEF ClientInv

\* Every key, every task and every event keeps the invariant.
LEMMA StepClient ==
  ClientInv /\ [ClientNext]_vars => ClientInv'
<1> SUFFICES ASSUME ClientInv, [ClientNext]_vars PROVE ClientInv'
  OBVIOUS
<1>1. ASSUME ScreenTypes' /\ StandbysOK', QueueTypes' /\ RequestsOK'
      PROVE  ClientInv'
  BY Zenon, <1>1 DEF ClientInv, RequestsOK
<1>2. CASE Keys
  <2>1. ScreenTypes' /\ StandbysOK'
    <3>1. CASE StandbyKey /\ app.cancel = 0
      BY Zenon, <3>1, StartKeysKeep
    <3>2. CASE (StandbyKey /\ app.cancel # 0) \/ IdleKey
      <4>1. Key(app.mode) /\ StopStandby /\ UNCHANGED <<tasks, sends>>
        BY Zenon, <3>2 DEF StandbyKey, IdleKey, Key
      <4> QED
        BY Zenon, <4>1, StopKeysKeep
    <3>3. CASE RenewKey
      BY Zenon, <3>3, StartKeysKeep
    <3>4. CASE QuitKey
      <4>1. Key(app.mode)
        BY Zenon, <3>4 DEF QuitKey, Key
      <4> QED
        BY Zenon, <3>4, <4>1, StopKeysKeep
    <3> QED
      BY Zenon, <1>2, <3>1, <3>2, <3>3, <3>4, QuietKeysKeep DEF Keys
  <2>2. QueueTypes' /\ RequestsOK'
    BY Zenon, <1>2, KeysNoRequest, AnswerKeysKeep
  <2> QED
    BY Zenon, <1>1, <2>1, <2>2
<1>3. CASE HandleEvent
  BY Zenon, <1>1, <1>3, EventStandbys, EventRequests
<1>4. CASE SendPacket
  BY Zenon, <1>1, <1>4, OtherTasksKeep, TasksNoRequest
<1>5. ASSUME NEW n \in Start, Task(n) \/ Receive(n) PROVE ClientInv'
  <2>1. CASE SetupChannel(n) \/ Connected(n) \/ EndConnection(n)
    BY Zenon, <1>1, <2>1, ConnTasksKeep, TasksNoRequest
  <2>2. CASE Dispatch(n)
    BY Zenon, <1>1, <2>2, DispatchStandbys, TasksNoRequest
  <2>3. CASE AnswerRequest(n)
    BY Zenon, <1>1, <2>3, AnswerStandbys, AnswerRequests
  <2>4. CASE ForwardCall(n)
    BY Zenon, <1>1, <2>4, OtherTasksKeep, ForwardRequests
  <2>5. CASE ForwardNotice(n)
    BY Zenon, <1>1, <2>5, OtherTasksKeep, TasksNoRequest
  <2>6. CASE Receive(n)
    BY Zenon, <1>1, <2>6, ReceiveStandbys, TasksNoRequest
  <2> QED
    BY Zenon, <1>5, <2>1, <2>2, <2>3, <2>4, <2>5, <2>6 DEF Task
<1>6. ASSUME NEW p \in Prompt, Reply(p) PROVE ClientInv'
  BY Zenon, <1>1, <1>6, OtherTasksKeep, ReplyRequests
<1>7. CASE UNCHANGED vars
  <2>1. ScreenTypes' /\ StandbysOK'
    BY Zenon, <1>7 DEF vars, ClientInv, ScreenTypes, StandbysOK
  <2>2. QueueTypes' /\ OnceCalled(events)
    BY Zenon, <1>7 DEF vars, ClientInv, QueueTypes, PlacesOK
  <2>3. RequestsOK'
    <3>1. app' = app /\ UNCHANGED <<incoming, prompt>> /\ events' = events /\ sent' = sent
      BY Zenon, <1>7 DEF vars
    <3> QED
      BY Zenon, <2>2, <3>1, NoRequest
  <2> QED
    BY Zenon, <1>1, <2>1, <2>2, <2>3
<1> QED
  BY Zenon, <1>2, <1>3, <1>4, <1>5, <1>6, <1>7 DEF ClientNext

\* ClientInv holds in every state of the client.
LEMMA ClientInvariant ==
  ClientSpec => []ClientInv
BY InitClient, StepClient, PTL DEF ClientSpec

\* A call request that waits for the user is on its way to the screen or is the
\* one on screen, under its caller's name and where y and n answer it.
THEOREM WaitingRequests ==
  ClientSpec => []WaitingIsAnswerable
<1>1. ClientInv => WaitingIsAnswerable
  <2> SUFFICES ASSUME ClientInv PROVE WaitingIsAnswerable
    OBVIOUS
  <2>1. /\ app \in Screen /\ session \in [Start -> Shared] /\ prompt \in [Prompt -> Asked]
        /\ app.cancel \in {0, app.sid}
    BY Zenon DEF ClientInv, ScreenTypes, QueueTypes, StandbysOK
  <2>2. Standby = 0 .. MaxStarts
    BY BoundsAssumption DEF Standby, Start
  <2>3. ClientTypeOK
    <3>1. /\ app.mode \in {"Normal", "CallInput", "RoomInput", "IncomingCall", "Quit"}
          /\ app.state \in {"Idle", "Standby", "Connecting", "InCall", "InRoom"}
          /\ app.with \in Peer \cup {None} /\ app.from \in Peer \cup {None} /\ app.sid \in Start
      BY Zenon, <2>1 DEF Screen, Someone
    <3>2. \A o \in Start : session[o].target \in Peer \cup {None}
                              /\ session[o].handler \in 0 .. MaxStarts
      BY Zenon, <2>1, <2>2 DEF Shared, Someone
    <3>3. \A p \in Prompt : prompt[p].answer \in
            {"none", "auto", "waiting", "yes", "no", "accepted", "rejected", "dropped"}
      BY Zenon, <2>1 DEF Asked
    <3> QED
      BY Zenon, <2>1, <3>1, <3>2, <3>3 DEF ClientTypeOK
  <2>4. \A n \in Start : \A c \in Items(incoming[n]) :
          \E i \in 1 .. Len(incoming[n]) : incoming[n][i] = c
    BY Zenon DEF Items
  <2>5. \A c \in Calls(events) :
          \E i \in 1 .. Len(events) : events[i].kind = "IncomingCall" /\ events[i].id = c.id
    BY SMTT(20) DEF Calls
  <2>6. \A p \in Prompt : app.responder = p =>
          app.from = prompt[p].from /\ app.mode \in {"IncomingCall", "Quit"}
    <3>1. 0 \notin Prompt
      BY Zenon, Numbers
    <3> QED
      BY Zenon, <3>1 DEF ClientInv, PlacesOK, Awaits
  <2>7. ASSUME app.mode # "Quit", NEW p \in Prompt, prompt[p].answer = "waiting"
        PROVE  \/ \E n \in Start : \E i \in 1 .. Len(incoming[n]) : incoming[n][i].id = p
               \/ \E i \in 1 .. Len(events) : events[i].kind = "IncomingCall" /\ events[i].id = p
               \/ app.responder = p /\ app.from = prompt[p].from /\ app.mode = "IncomingCall"
    <3>1. \/ \E n \in Start : \E c \in Items(incoming[n]) : c.id = p
          \/ \E c \in Calls(events) : c.id = p
          \/ app.responder = p
      BY Zenon, <2>7 DEF ClientInv, FoundOK
    <3>2. CASE \E n \in Start : \E c \in Items(incoming[n]) : c.id = p
      <4>1. PICK n \in Start : \E c \in Items(incoming[n]) : c.id = p
        BY Zenon, <3>2
      <4>3. PICK c \in Items(incoming[n]) : c.id = p
        BY Zenon, <4>1
      <4>2. PICK i \in 1 .. Len(incoming[n]) : incoming[n][i] = c
        BY Zenon, <2>4
      <4> QED
        BY Zenon, <4>2, <4>3
    <3>3. CASE \E c \in Calls(events) : c.id = p
      BY Zenon, <2>5, <3>3
    <3>4. CASE app.responder = p
      BY Zenon, <2>6, <2>7, <3>4
    <3> QED
      BY Zenon, <3>1, <3>2, <3>3, <3>4
  <2> QED
    BY Zenon, <2>3, <2>7 DEF WaitingIsAnswerable
<1> QED
  BY <1>1, ClientInvariant, PTL

\* A call request is answered at most once, on the connection it came by.
THEOREM OneAnswer ==
  ClientSpec => []AnsweredAtMostOnce
<1>1. ClientInv => AnsweredAtMostOnce
  <2> SUFFICES ASSUME ClientInv,
                      NEW x \in sent, NEW y \in sent,
                      x.kind \in {"Accept", "Reject"}, y.kind \in {"Accept", "Reject"}
               PROVE  /\ x.id = y.id => x = y
                      /\ x.on = prompt[x.id].on /\ x.to = prompt[x.id].from
    BY Zenon DEF AnsweredAtMostOnce
  <2>1. /\ x.on = prompt[x.id].on /\ x.to = prompt[x.id].from
        /\ y.on = prompt[y.id].on /\ y.to = prompt[y.id].from
        /\ x.kind = "Accept" => prompt[x.id].answer \in {"auto", "accepted"}
        /\ x.kind = "Reject" => prompt[x.id].answer = "rejected"
        /\ y.kind = "Accept" => prompt[y.id].answer \in {"auto", "accepted"}
        /\ y.kind = "Reject" => prompt[y.id].answer = "rejected"
    BY Zenon DEF ClientInv, AnswersOK
  <2>2. /\ x = [kind |-> x.kind, to |-> x.to, on |-> x.on, id |-> x.id]
        /\ y = [kind |-> y.kind, to |-> y.to, on |-> y.on, id |-> y.id]
    BY SMTT(20) DEF ClientInv, QueueTypes, Sent
  <2>3. x.id = y.id => x.kind = y.kind /\ x.to = y.to /\ x.on = y.on
    BY SMTT(20), <2>1
  <2> QED
    BY Zenon, <2>1, <2>2, <2>3
<1> QED
  BY <1>1, ClientInvariant, PTL

\* A standby is cancelled by the user's keys only: the late end of a standby
\* that was stopped before never takes down the one started since.
THEOREM StoppedByUser ==
  ClientSpec => []OnlyTheUserStops
<1>1. ClientInv => OnlyTheUserStops
  BY Zenon DEF ClientInv, StandbysOK, OnlyTheUserStops
<1> QED
  BY <1>1, ClientInvariant, PTL

\* While the screen shows a standby whose connection is gone, the news of it is
\* still to be read from the event queue.
THEOREM ReportedEnd ==
  ClientSpec => []EndIsReported
<1>1. ClientInv => EndIsReported
  <2>1. \A n : n \in Ended(events) =>
          \E i \in 1 .. Len(events) : events[i].kind = "SessionEnded" /\ events[i].id = n
    BY Zenon DEF Ended
  <2> QED
    BY Zenon, <2>1 DEF ClientInv, StandbysOK, EndIsReported
<1> QED
  BY <1>1, ClientInvariant, PTL
=============================================================================
