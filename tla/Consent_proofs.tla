---------------------------- MODULE Consent_proofs ----------------------------
(***************************************************************************)
(* What users have agreed to, for any number of clients, addresses, short  *)
(* IDs and packets.                                                        *)
(*                                                                         *)
(* First: a call that a user has hung up does not come back by itself.     *)
(* The user's event loop handles one packet after the other, and no other  *)
(* loop enters a target for it.                                            *)
(*                                                                         *)
(* Second: audio is relayed only to users who have called or accepted its  *)
(* sender.  It needs that no two addresses start with the same short ID:   *)
(* the daemon checks the approval of the one client the key resolves to,   *)
(* and then forwards to every client the key matches.                      *)
(***************************************************************************)
EXTENDS DataChannel_proofs


-----------------------------------------------------------------------------
\* What a step of an event loop does to consent and to the packets sent.

\* Only the last step of the handler of targeted audio relays audio, and only to
\* the clients its key matches.
LEMMA RelayedBySetTarget ==
    ASSUME TypeInv, NEW c \in ClientId, Handle(c), NEW m \in out', m[1] = "Audio"
    PROVE  /\ At(c, "SetTarget")
           /\ m[2] \in ClientId /\ chan[m[2]] = "open"
           /\ MatchesPrefix(identity[m[2]], task[c].pkt.key)
           /\ m[3] = identity[c]
<1>1. CASE AudioSetTarget(c)
  BY <1>1 DEF AudioSetTarget, Receivers
<1>2. CASE \/ AudioInRoom(c) \/ AudioSameCall(c) \/ AudioMutual(c) \/ AudioApproved(c)
           \/ AudioMarkNotified(c) \/ AcceptApprove(c) \/ AcceptAnswer(c) \/ RejectRefuse(c)
           \/ HangupClear(c) \/ TellFind(c) \/ TellChannel(c) \/ RoomJoin(c) \/ RoomLeave(c) \/ RoomSpeak(c)
           \/ BroadcastMembers(c) \/ PongReceived(c) \/ AudioNotified(c)
  BY Zenon, <1>2 DEF AudioInRoom, AudioSameCall, AudioMutual, AudioApproved, AudioMarkNotified,
              AcceptApprove, AcceptAnswer, RejectRefuse, HangupClear, TellFind, TellChannel, RoomJoin, RoomLeave,
              RoomSpeak, BroadcastMembers, PongReceived, AudioNotified, ReadThen, Return, Quiet
<1>3. CASE \/ AudioFind(c) \/ AudioStale(c) \/ AudioEvict(c) \/ AudioRejected(c) \/ AudioFull(c)
  <2>1. out' \subseteq {<<"ConnectionError", c, task[c].pkt.key>>}
    BY Zenon, <1>3 DEF AudioFind, AudioStale, AudioEvict, AudioRejected, AudioFull, Refusal, ReadThen, Quiet
  <2> QED
    BY <2>1
<1>4. CASE AudioPrompt(c)
  <2>1. out' \subseteq {<<"CallRequest", task[c].tgt, identity[c]>>}
    BY Zenon, <1>4 DEF AudioPrompt
  <2> QED
    BY <2>1
<1>5. CASE TellSend(c)
  <2>1. out' \subseteq {<<Notification[task[c].pkt.kind], task[c].tgt, reg.addresses[c]>>}
    BY Zenon, <1>5 DEF TellSend
  <2>2. ~At(c, "Idle")
    BY Zenon, <1>5 DEF TellSend, At
  <2>3. task[c].pkt.kind \in {"Accept", "Reject", "Hangup"}
    BY Zenon, <1>5, <2>2, Handling DEF TellSend, At, Consistent, AnswerLabel
  <2> QED
    BY <2>1, <2>3 DEF Notification
<1>6. CASE BroadcastSend(c)
  <2>1. out' = {} \/ \E m2 \in ClientId : out' \subseteq {<<task[c].body[1], m2, task[c].body[2]>>}
    <3>1. task[c].todo \subseteq ClientId
      BY Zenon DEF TypeInv, TypeOK, Task
    <3> QED
      BY Zenon, <1>6, <3>1 DEF BroadcastSend, Quiet
  <2>2. task[c].body \in Body
    BY Zenon, <1>6 DEF BroadcastSend, At, TypeInv, TaskInv, Consistent
  <2> QED
    BY <2>1, <2>2 DEF Body
<1> QED
  BY Zenon, <1>1, <1>2, <1>3, <1>4, <1>5, <1>6 DEF Handle

\* Consent once given may end, and never becomes "never" again.
LEMMA ConsentIsKept ==
    ASSUME TypeInv, NEW c \in ClientId, Handle(c)
    PROVE  \A a \in Address, k \in Key : consent[a][k] # "never" => consent'[a][k] # "never"
<1>1. CASE HangupClear(c)
  <2>1. ~At(c, "Idle")
    BY Zenon, <1>1 DEF HangupClear, At
  <2>2. consent \in ConsentType /\ identity[c] \in Address /\ task[c].pkt.key \in Key
    BY Zenon, <2>1, Handling
  <2> QED
    BY Zenon, <1>1, <2>2 DEF HangupClear, ConsentType
<1>2. CASE ~HangupClear(c)
  <2>1. UNCHANGED consent
    BY Zenon, <1>2 DEF Handle, AudioInRoom, AudioFind, AudioStale, AudioEvict, AudioRejected,
         AudioSameCall, AudioMutual, AudioFull, AudioApproved, AudioNotified,
         AudioMarkNotified, AudioPrompt, AudioSetTarget, AcceptApprove, AcceptAnswer,
         RejectRefuse, TellFind, TellChannel, TellSend, RoomJoin, RoomLeave, RoomSpeak,
         BroadcastMembers, BroadcastSend, PongReceived, ReadThen, Refusal, Return, UnchangedRest
  <2> QED
    BY Zenon, <2>1
<1> QED
  BY Zenon, <1>1, <1>2

\* Only the hangup handler ends a call, and only for its own identity: its step
\* forgets the target of its client.
LEMMA EndedByHangup ==
    ASSUME TypeInv, NEW c \in ClientId, Handle(c)
    PROVE  \/ UNCHANGED consent
           \/ /\ task[c].pkt.kind \notin {"Audio", "Accept"}
              /\ reg'.targets[c] = None
              /\ \A a \in Address \ {identity[c]} : consent'[a] = consent[a]
<1>1. CASE HangupClear(c)
  <2>1. ~At(c, "Idle") /\ task[c].at = "Clear"
    BY Zenon, <1>1 DEF HangupClear, At
  <2>2. /\ consent \in ConsentType /\ identity[c] \in Address /\ task[c].pkt.key \in Key
        /\ Consistent(task[c]) /\ reg \in Registry
    BY Zenon, <2>1, Handling
  <2>3. \A a \in Address \ {identity[c]} : consent'[a] = consent[a]
    <3>1. DOMAIN consent = Address
      BY Zenon, <2>2 DEF ConsentType
    <3>2. consent' = [consent EXCEPT ![identity[c]][task[c].pkt.key] =
                                        IF @ = "given" THEN "ended" ELSE @]
      BY Zenon, <1>1 DEF HangupClear
    <3> QED
      BY Zenon, <3>1, <3>2
  <2>4. reg'.targets[c] = None
    BY Zenon, <1>1, <2>2 DEF HangupClear, ClearCallSession, Registry
  <2>5. task[c].pkt.kind \in {"Hangup"}
    BY Zenon, <2>1, <2>2 DEF Consistent, AnswerLabel
  <2> QED
    BY Zenon, <2>3, <2>4, <2>5
<1>2. CASE ~HangupClear(c)
  BY Zenon, <1>2 DEF Handle, AudioInRoom, AudioFind, AudioStale, AudioEvict, AudioRejected,
       AudioSameCall, AudioMutual, AudioFull, AudioApproved, AudioNotified,
       AudioMarkNotified, AudioPrompt, AudioSetTarget, AcceptApprove, AcceptAnswer,
       RejectRefuse, TellFind, TellChannel, TellSend, RoomJoin, RoomLeave, RoomSpeak,
       BroadcastMembers, BroadcastSend, PongReceived, ReadThen, Refusal, Return, UnchangedRest
<1> QED
  BY Zenon, <1>1, <1>2

-----------------------------------------------------------------------------
\* c is the only connection its identity has had.
Alone(c) == \A e \in ClientId \ {c} : identity[e] # identity[c]

\* The target of such a client, and the user that a handler of its audio or
\* acceptance may enter as one, is one whose call has not been ended since.
HangupInv ==
    /\ \A c \in ClientId : reg.addresses[c] \in {None, identity[c]}
    /\ \A c \in ClientId : reg.targets[c] # None => identity[c] # None
    /\ \A c \in ClientId : reg.targets[c] # None /\ Alone(c)
          => consent[identity[c]][reg.targets[c]] = "given"
    /\ \A c \in ClientId : (/\ ~At(c, "Idle") /\ task[c].pkt.kind \in {"Audio", "Accept"}
                            /\ Alone(c))
          => consent[identity[c]][task[c].pkt.key] = "given"

\* A step of an event loop preserves HangupInv.
LEMMA HangupHandle ==
    ASSUME TypeInv, HangupInv, NEW c \in ClientId, Handle(c)
    PROVE  HangupInv'
<1>1. /\ TypeInv' /\ reg \in Registry /\ reg' \in Registry
      /\ identity \in [ClientId -> Address \cup {None}]
  BY Zenon, HandleTypes DEF TypeInv, TypeOK
<1>2. RegistryEffect(c) /\ ~At(c, "Idle") /\ UNCHANGED identity
  BY Zenon, HandleEffect
<1>3. TaskEffect(c) /\ task[c].pkt.key \in Key /\ identity[c] \in Address
  BY Zenon, <1>2, HandleTask, Handling
<1>4. \A d \in ClientId : reg'.addresses[d] \in {None, identity'[d]}
  BY Zenon, <1>2 DEF HangupInv, RegistryEffect
<1>5. \A d \in ClientId : Alone(d)' = Alone(d)
  BY Zenon, <1>2 DEF Alone
<1>6. \A d \in ClientId : d # c /\ Alone(d) /\ identity[d] # None
          => consent'[identity[d]] = consent[identity[d]]
  BY <1>1, <1>3, EndedByHangup DEF Alone
<1>7. task[c].pkt.kind \in {"Audio", "Accept"} \/ reg'.targets[c] # None => UNCHANGED consent
  BY Zenon, EndedByHangup
<1>8. ASSUME NEW d \in ClientId, reg'.targets[d] # None
      PROVE  /\ identity'[d] # None
             /\ Alone(d)' => consent'[identity'[d]][reg'.targets[d]] = "given"
  <2>1. CASE reg'.targets[d] = reg.targets[d]
    BY ZenonT(60), <1>2, <1>5, <1>6, <1>7, <1>8, <2>1 DEF HangupInv
  <2>2. CASE /\ d = c /\ task[c].pkt.kind \in {"Audio", "Accept"}
             /\ reg'.targets[c] = task[c].pkt.key
    <3>1. identity[c] # None
      BY Zenon, <1>3, KeysAssumption DEF Key
    <3> QED
      BY Zenon, <1>2, <1>5, <1>7, <2>2, <3>1 DEF HangupInv
  <2> QED
    BY Zenon, <1>2, <1>8, <2>1, <2>2 DEF RegistryEffect
<1>9. ASSUME NEW d \in ClientId, ~At(d, "Idle")', task'[d].pkt.kind \in {"Audio", "Accept"},
             Alone(d)'
      PROVE  consent'[identity'[d]][task'[d].pkt.key] = "given"
  <2>1. CASE d = c
    <3>1. task'[c].pkt = task[c].pkt
      BY Zenon, <1>3, <1>9, <2>1 DEF TaskEffect, At
    <3> QED
      BY ZenonT(60), <1>2, <1>5, <1>7, <1>9, <2>1, <3>1 DEF HangupInv
  <2>2. CASE d # c
    <3>1. task'[d] = task[d] /\ ~At(d, "Idle")
      BY Zenon, <1>3, <1>9, <2>2 DEF TaskEffect, At
    <3>2. identity[d] \in Address /\ identity[d] # None
      BY Zenon, <3>1, Handling, KeysAssumption DEF Key
    <3> QED
      BY Zenon, <1>2, <1>5, <1>6, <1>9, <2>2, <3>1, <3>2 DEF HangupInv
  <2> QED
    BY Zenon, <2>1, <2>2
<1> QED
  BY Zenon, <1>4, <1>8, <1>9 DEF HangupInv

\* So does a step that enters no target, ends no call and gives a connection
\* its identity at most once.
LEMMA HangupForgets ==
    ASSUME TypeInv, HangupInv,
           \A t \in ClientId : /\ reg'.addresses[t] \in {reg.addresses[t], identity'[t], None}
                               /\ reg'.targets[t] \in {reg.targets[t], None}
                               /\ identity[t] # None => identity'[t] = identity[t],
           UNCHANGED <<task, consent>>
    PROVE  HangupInv'
<1>1. None \notin Address
  BY Zenon, KeysAssumption DEF Key
<1>2. \A t \in ClientId : reg'.addresses[t] \in {None, identity'[t]}
  BY Zenon, <1>1 DEF HangupInv
<1>3. \A t \in ClientId : identity[t] # None /\ Alone(t)' => Alone(t)
  BY Zenon DEF Alone
<1>4. ASSUME NEW t \in ClientId, reg'.targets[t] # None
      PROVE  /\ identity'[t] # None
             /\ Alone(t)' => consent'[identity'[t]][reg'.targets[t]] = "given"
  <2>1. reg'.targets[t] = reg.targets[t] /\ identity[t] # None /\ identity'[t] = identity[t]
    BY Zenon, <1>4 DEF HangupInv
  <2> QED
    BY Zenon, <1>3, <1>4, <2>1 DEF HangupInv
<1>5. ASSUME NEW t \in ClientId, ~At(t, "Idle")', task'[t].pkt.kind \in {"Audio", "Accept"},
             Alone(t)'
      PROVE  consent'[identity'[t]][task'[t].pkt.key] = "given"
  <2>1. ~At(t, "Idle") /\ task[t].pkt.kind \in {"Audio", "Accept"}
    BY Zenon, <1>5 DEF At
  <2>2. identity[t] # None
    BY Zenon, <1>1, <2>1, Handling
  <2> QED
    BY ZenonT(60), <1>3, <1>5, <2>1, <2>2 DEF HangupInv
<1> QED
  BY Zenon, <1>2, <1>4, <1>5 DEF HangupInv

\* Every step preserves HangupInv.
LEMMA HangupStep ==
    ASSUME SafetyInv, HangupInv, [Next]_vars
    PROVE  HangupInv'
<1>1. /\ TypeInv /\ UniqueAddresses(reg) /\ reg \in Registry /\ now \in Nat
      /\ consent \in ConsentType /\ identity \in [ClientId -> Address \cup {None}]
      /\ task \in [ClientId -> Task]
  BY Zenon DEF SafetyInv, TypeInv, TypeOK, ConsentType
<1>2. ASSUME NEW c \in ClientId, Handle(c)
      PROVE  HangupInv'
  BY Zenon, <1>1, <1>2, HangupHandle
<1>3. ASSUME NEW c \in ClientId, NEW a \in Address, Connect(c, a)
      PROVE  HangupInv'
  <2>1. /\ reg' = RegisterClient(reg, c, a, now) /\ UNCHANGED <<task, consent>>
        /\ identity[c] = None /\ identity' = [identity EXCEPT ![c] = a]
    BY Zenon, <1>3 DEF Connect
  <2>2. identity'[c] = a /\ \A t \in ClientId \ {c} : identity'[t] = identity[t]
    BY Zenon, <1>1, <2>1
  <2>3. /\ reg'.addresses[c] = a
        /\ \A t \in ClientId \ {c} : reg'.addresses[t] \in {reg.addresses[t], None}
        /\ \A t \in ClientId : reg'.targets[t] \in {reg.targets[t], None}
    BY <1>1, <2>1, RegisterClientEvicts
  <2> QED
    BY Zenon, <1>1, <2>1, <2>2, <2>3, HangupForgets
<1>4. ASSUME NEW c \in ClientId, Disconnect(c) \/ CloseChannel(c)
      PROVE  HangupInv'
  <2>1. reg' = UnregisterClient(reg, c) /\ UNCHANGED <<task, consent, identity>>
    BY Zenon, <1>4 DEF Disconnect, CloseChannel
  <2>2. OnlyForgets(reg, reg')
    BY Zenon, <1>1, <2>1, UnregisterClientForgets
  <2> QED
    BY Zenon, <1>1, <2>1, <2>2, HangupForgets DEF OnlyForgets
<1>5. ASSUME NEW c \in ClientId, OpenChannel(c)
      PROVE  HangupInv'
  <2>1. /\ reg'.addresses = reg.addresses /\ reg'.targets = reg.targets
        /\ UNCHANGED <<task, consent, identity>>
    BY Zenon, <1>1, <1>5 DEF OpenChannel, Registry
  <2> QED
    BY Zenon, <1>1, <2>1, HangupForgets
<1>6. ASSUME NEW c \in ClientId, NEW p \in Packet, Receive(c, p)
      PROVE  HangupInv'
  <2> DEFINE x == [IdleTask EXCEPT !.at = Entry[p.kind], !.pkt = p]
  <2>1. UNCHANGED <<reg, identity>>
    BY Zenon, <1>6 DEF Receive
  <2>2. identity[c] \in Address /\ p.key \in Key
    BY Zenon, <1>1, <1>6, PacketAssumption DEF Receive, TypeInv, TaskInv
  <2>3. CASE UNCHANGED <<task, consent>>
    BY Zenon, <1>1, <2>1, <2>3, HangupForgets DEF HangupInv
  <2>4. CASE /\ task' = [task EXCEPT ![c] = x]
             /\ consent' = IF p.kind \in {"Audio", "Accept"}
                             THEN [consent EXCEPT ![identity[c]][p.key] = "given"] ELSE consent
    <3>1. x.pkt = p
      BY Zenon DEF IdleTask
    <3> HIDE DEF x
    <3>2. task'[c].pkt = p /\ \A d \in ClientId \ {c} : task'[d] = task[d]
      BY Zenon, <1>1, <2>4, <3>1
    <3>3. /\ \A a \in Address, k \in Key : consent[a][k] = "given" => consent'[a][k] = "given"
          /\ p.kind \in {"Audio", "Accept"} => consent'[identity[c]][p.key] = "given"
      BY Zenon, <1>1, <2>2, <2>4 DEF ConsentType
    <3>4. \A d \in ClientId : Alone(d)' = Alone(d)
      BY Zenon, <2>1 DEF Alone
    <3>5. ASSUME NEW d \in ClientId, reg'.targets[d] # None, Alone(d)'
          PROVE  consent'[identity'[d]][reg'.targets[d]] = "given"
      <4>1. reg.targets[d] \in Key /\ identity[d] \in Address
        BY ZenonT(60), <1>1, <2>1, <3>5 DEF Registry, HangupInv
      <4> QED
        BY Zenon, <2>1, <3>3, <3>4, <3>5, <4>1 DEF HangupInv
    <3>6. ASSUME NEW d \in ClientId, ~At(d, "Idle")', task'[d].pkt.kind \in {"Audio", "Accept"},
                 Alone(d)'
          PROVE  consent'[identity'[d]][task'[d].pkt.key] = "given"
      <4>1. CASE d = c
        BY Zenon, <2>1, <3>2, <3>3, <3>6, <4>1
      <4>2. CASE d # c
        <5>1. ~At(d, "Idle") /\ task'[d].pkt = task[d].pkt
          BY Zenon, <3>2, <3>6, <4>2 DEF At
        <5>2. task[d].pkt.key \in Key /\ identity[d] \in Address
          BY Zenon, <1>1, <5>1, Handling
        <5> QED
          BY <2>1, <3>3, <3>4, <3>6, <5>1, <5>2 DEF HangupInv
      <4> QED
        BY Zenon, <4>1, <4>2
    <3> QED
      BY Zenon, <2>1, <3>5, <3>6 DEF HangupInv
  <2> QED
    BY Zenon, <1>6, <2>3, <2>4 DEF Receive
<1>7. CASE Tick
  BY Zenon, <1>1, <1>7, HangupForgets DEF Tick
<1>8. CASE UNCHANGED vars
  BY Zenon, <1>1, <1>8, HangupForgets DEF vars
<1> QED
  BY Zenon, <1>2, <1>3, <1>4, <1>5, <1>6, <1>7, <1>8 DEF Next

\* A user with a single connection who hangs up does not have the other as its
\* target until it calls or accepts that user again, whatever other handlers
\* are doing meanwhile; short IDs may be ambiguous.
THEOREM HangupsStick == Spec => []HangupSticks
<1>1. Init => HangupInv
  <2> SUFFICES ASSUME Init PROVE HangupInv
    BY Zenon
  <2>1. \A c \in ClientId : task[c].at = "Idle"
    BY Zenon DEF Init, IdleTask
  <2>2. \A c \in ClientId : reg.addresses[c] = None /\ reg.targets[c] = None
    BY Zenon DEF Init, EmptyRegistry
  <2> QED
    BY Zenon, <2>1, <2>2 DEF HangupInv, At
<1>2. SafetyInv /\ HangupInv /\ [Next]_vars => HangupInv'
  BY Zenon, HangupStep
<1>3. SafetyInv /\ HangupInv => HangupSticks
  <2> SUFFICES ASSUME HangupInv, NEW c \in Registered(reg), NEW d \in Registered(reg),
                      Alone(c), consent[identity[c]][identity[d]] = "ended",
                      reg.targets[c] = identity[d]
               PROVE  FALSE
    BY Zenon DEF HangupSticks, Alone
  <2>1. c \in ClientId /\ d \in ClientId /\ identity[d] # None
    BY Zenon DEF Registered, HangupInv
  <2> QED
    BY Zenon, <2>1 DEF HangupInv
<1> QED
  BY <1>1, <1>2, <1>3, SafetyInvariant, PTL DEF Spec

-----------------------------------------------------------------------------
\* No key names two addresses.
Unambiguous ==
    \A a, b \in Address : \A k \in Key : MatchesPrefix(a, k) /\ MatchesPrefix(b, k) => a = b

\* By the history h, the user a has called or accepted k.
Given(h, a, k) == a \in Address /\ h[a][k] # "never"

\* What the registry and the event loops know of consent: targets and approvals
\* were entered for users who gave it, and a handler that has passed the
\* approval check holds it from the user it found.
ConsentInv ==
    /\ \A c \in ClientId : reg.addresses[c] \in {None, identity[c]}
    /\ \A c \in ClientId :
          (~At(c, "Idle") /\ task[c].pkt.kind \in {"Audio", "Accept"}) => Given(consent, identity[c], task[c].pkt.key)
    /\ \A c \in ClientId : reg.targets[c] # None => Given(consent, identity[c], reg.targets[c])
    /\ \A c \in ClientId : \A k \in reg.approved_calls[c] : Given(consent, identity[c], k)
    /\ \A c \in ClientId : task[c].at \in TargetLabel =>
          identity[task[c].tgt] \in Address /\ MatchesPrefix(identity[task[c].tgt], task[c].pkt.key)
    /\ \A c \in ClientId : (task[c].mutual \/ At(c, "SetTarget"))
          => Given(consent, identity[task[c].tgt], identity[c])
    /\ RelayHasConsent

\* A full address is matched by itself alone.
LEMMA FullAddressMatch ==
    ASSUME NEW b \in Address
    PROVE  \A a : MatchesPrefix(a, b) => a = b
  BY Zenon, KeysAssumption DEF MatchesPrefix, Key

\* A client that a key resolves to is registered under an address it matches.
LEMMA FoundMatches ==
    ASSUME NEW r \in Registry, NEW k \in Key, NEW t \in Found(r, k)
    PROVE  t \in ClientId /\ r.addresses[t] # None /\ MatchesPrefix(r.addresses[t], k)
<1>1. t \in ClientId /\ MatchesPrefix(r.addresses[t], k)
  BY Zenon DEF Found, FindMatches
<1>2. ~MatchesPrefix(None, k)
  BY Zenon, KeysAssumption DEF MatchesPrefix, Key
<1> QED
  BY Zenon, <1>1, <1>2

\* A step of an event loop preserves what is known of consent.
LEMMA ConsentHandle ==
    ASSUME Unambiguous, SafetyInv, ConsentInv, NEW c \in ClientId, Handle(c)
    PROVE  ConsentInv'
<1>1. TypeInv /\ TypeInv' /\ reg \in Registry /\ reg' \in Registry
  BY Zenon, HandleTypes DEF SafetyInv, TypeInv, TypeOK
<1>2. RegistryEffect(c) /\ ~At(c, "Idle") /\ UNCHANGED <<identity, chan>>
  BY Zenon, <1>1, HandleEffect
<1>3. TaskEffect(c)
  BY Zenon, <1>1, HandleTask
<1>4. \A a : \A k \in Key : Given(consent, a, k) => Given(consent', a, k)
  BY Zenon, <1>1, ConsentIsKept DEF Given
<1>5. /\ identity[c] \in Address /\ task[c].pkt.key \in Key /\ Consistent(task[c])
      /\ identity \in [ClientId -> Address \cup {None}]
  BY Zenon, <1>1, <1>2, Handling DEF TypeInv, TypeOK
<1>6. \A d \in ClientId : reg'.addresses[d] \in {None, identity'[d]}
  BY Zenon, <1>2 DEF ConsentInv, RegistryEffect
<1>7. ASSUME NEW d \in ClientId, ~At(d, "Idle")', task'[d].pkt.kind \in {"Audio", "Accept"}
      PROVE  Given(consent', identity'[d], task'[d].pkt.key)
  <2>1. task'[d].pkt = task[d].pkt /\ ~At(d, "Idle")
    <3>1. CASE d = c
      BY Zenon, <1>2, <1>3, <1>7, <3>1 DEF TaskEffect, At
    <3>2. CASE d # c
      BY Zenon, <1>3, <1>7, <3>2 DEF TaskEffect, At
    <3> QED
      BY Zenon, <3>1, <3>2
  <2>2. task[d].pkt.key \in Key
    BY Zenon, <1>1, <2>1, Handling
  <2> QED
    BY Zenon, <1>2, <1>4, <1>7, <2>1, <2>2 DEF ConsentInv
<1>8. ASSUME NEW d \in ClientId, reg'.targets[d] # None
      PROVE  Given(consent', identity'[d], reg'.targets[d])
  <2>1. reg'.targets[d] \in Key
    BY Zenon, <1>1, <1>8 DEF Registry
  <2>2. Given(consent, identity[d], reg'.targets[d])
    BY Zenon, <1>2, <1>8 DEF ConsentInv, RegistryEffect
  <2> QED
    BY Zenon, <1>2, <1>4, <2>1, <2>2
<1>9. ASSUME NEW d \in ClientId, NEW k \in reg'.approved_calls[d]
      PROVE  Given(consent', identity'[d], k)
  <2>1. k \in Key
    BY Zenon, <1>1 DEF Registry
  <2>2. Given(consent, identity[d], k)
    BY Zenon, <1>2, <1>9 DEF ConsentInv, RegistryEffect
  <2> QED
    BY Zenon, <1>2, <1>4, <2>1, <2>2
<1>10. ASSUME NEW d \in ClientId, task'[d].at \in TargetLabel
       PROVE  /\ identity'[task'[d].tgt] \in Address
              /\ MatchesPrefix(identity'[task'[d].tgt], task'[d].pkt.key)
  <2>1. CASE d # c
    BY Zenon, <1>2, <1>3, <1>10, <2>1 DEF TaskEffect, ConsentInv
  <2>2. CASE d = c
    <3>1. task'[c].pkt = task[c].pkt
      BY Zenon, <1>3, <1>10, <2>2 DEF TaskEffect, TargetLabel, AudioLabel
    <3>2. CASE task[c].at \in TargetLabel /\ task'[c].tgt = task[c].tgt
      BY Zenon, <1>2, <2>2, <3>1, <3>2 DEF ConsentInv
    <3>3. CASE task'[c].tgt \in Found(reg, task[c].pkt.key)
      <4> DEFINE t == task'[c].tgt
      <4>1. t \in ClientId /\ reg.addresses[t] # None /\ MatchesPrefix(reg.addresses[t], task[c].pkt.key)
        BY Zenon, <1>1, <1>5, <3>3, FoundMatches
      <4>2. reg.addresses[t] = identity[t] /\ identity[t] \in Address
        BY ZenonT(60), <1>1, <4>1 DEF ConsentInv, Registry
      <4> QED
        BY Zenon, <1>2, <2>2, <3>1, <4>1, <4>2
    <3> QED
      BY Zenon, <1>3, <1>10, <2>2, <3>2, <3>3 DEF TaskEffect
  <2> QED
    BY Zenon, <2>1, <2>2
<1>11. ASSUME NEW d \in ClientId, task'[d].mutual \/ At(d, "SetTarget")'
       PROVE  Given(consent', identity'[task'[d].tgt], identity'[d])
  <2>1. identity[d] \in Address
    <3>1. task'[d].at # "Idle" /\ chan'[d] = "open"
      BY Zenon, <1>1, <1>11 DEF TypeInv, TaskInv, Consistent, IdleTask, At
    <3> QED
      BY Zenon, <1>1, <1>2, <1>5, <3>1 DEF TypeInv, TaskInv
  <2>2. Given(consent, identity[task'[d].tgt], identity[d])
    <3>1. CASE d # c
      BY Zenon, <1>2, <1>3, <1>11, <3>1 DEF TaskEffect, ConsentInv, At
    <3>2. CASE d = c
      <4>1. task'[c].at \in TargetLabel \ {"Stale"}
        BY Zenon, <1>1, <1>11, <3>2 DEF TypeInv, TaskInv, Consistent, At, TargetLabel, AudioLabel
      <4>2. task[c].at \in TargetLabel /\ task'[c].tgt = task[c].tgt
        BY Zenon, <1>3, <4>1 DEF TaskEffect
      <4>3. task[c].tgt \in ClientId
        BY Zenon, <1>5, <4>2 DEF Consistent
      <4>4. CASE task[c].mutual
        BY Zenon, <3>2, <4>2, <4>4 DEF ConsentInv
      <4>5. CASE MatchesPrefix(reg.targets[task[c].tgt], identity[c])
        <5>1. reg.targets[task[c].tgt] = identity[c]
          BY Zenon, <1>5, <4>5, FullAddressMatch
        <5>2. identity[c] # None
          BY Zenon, <1>5, KeysAssumption DEF Key
        <5> QED
          BY Zenon, <3>2, <4>2, <4>3, <5>1, <5>2 DEF ConsentInv
      <4>6. CASE identity[c] \in reg.approved_calls[task[c].tgt]
        BY Zenon, <3>2, <4>2, <4>3, <4>6 DEF ConsentInv
      <4> QED
        BY Zenon, <1>3, <1>11, <3>2, <4>4, <4>5, <4>6 DEF TaskEffect, At
    <3> QED
      BY Zenon, <3>1, <3>2
  <2> QED
    BY Zenon, <1>2, <1>4, <2>1, <2>2 DEF Key
<1>12. RelayHasConsent'
  <2> SUFFICES ASSUME NEW m \in out', m[1] = "Audio"
               PROVE  consent'[identity'[m[2]]][m[3]] # "never"
    BY Zenon DEF RelayHasConsent
  <2>1. /\ At(c, "SetTarget")
        /\ m[2] \in ClientId /\ chan[m[2]] = "open"
        /\ MatchesPrefix(identity[m[2]], task[c].pkt.key)
        /\ m[3] = identity[c]
    BY Zenon, <1>1, RelayedBySetTarget
  <2>2. identity[m[2]] \in Address
    BY Zenon, <1>1, <1>5, <2>1 DEF TypeInv, TaskInv
  <2>3. /\ identity[task[c].tgt] \in Address
        /\ MatchesPrefix(identity[task[c].tgt], task[c].pkt.key)
        /\ Given(consent, identity[task[c].tgt], identity[c])
    BY Zenon, <2>1 DEF ConsentInv, At, TargetLabel, AudioLabel
  <2>4. identity[m[2]] = identity[task[c].tgt]
    BY Zenon, <1>5, <2>1, <2>2, <2>3 DEF Unambiguous
  <2>5. Given(consent', identity[task[c].tgt], identity[c])
    BY Zenon, <1>4, <1>5, <2>3 DEF Key
  <2> QED
    BY Zenon, <1>2, <2>1, <2>4, <2>5 DEF Given
<1> QED
  BY Zenon, <1>6, <1>7, <1>8, <1>9, <1>10, <1>11, <1>12 DEF ConsentInv

\* So does a step that removes entries from the registry, adds none but a
\* channel, a connection or the address of c, and leaves the loops alone.
LEMMA ConsentForgets ==
    ASSUME SafetyInv, ConsentInv, TypeInv',
           \A t \in ClientId : /\ reg'.addresses[t] \in {reg.addresses[t], identity'[t], None}
                               /\ reg'.targets[t] \in {reg.targets[t], None}
                               /\ reg'.approved_calls[t] \subseteq reg.approved_calls[t]
                               /\ identity[t] # None => identity'[t] = identity[t],
           RelayHasConsent',
           UNCHANGED <<task, consent>>
    PROVE  ConsentInv'
<1>1. TypeInv /\ None \notin Address /\ identity \in [ClientId -> Address \cup {None}]
  BY Zenon, KeysAssumption DEF SafetyInv, TypeInv, TypeOK, Key
<1>2. \A t \in ClientId : identity[t] \in Address => identity'[t] = identity[t]
  BY Zenon, <1>1
<1>3. \A t \in ClientId : reg'.addresses[t] \in {None, identity'[t]}
  BY Zenon, <1>1 DEF ConsentInv
<1>4. ASSUME NEW t \in ClientId, ~At(t, "Idle")', task'[t].pkt.kind \in {"Audio", "Accept"}
      PROVE  Given(consent', identity'[t], task'[t].pkt.key)
  <2>1. Given(consent, identity[t], task[t].pkt.key)
    BY Zenon, <1>4 DEF ConsentInv, At
  <2> QED
    BY Zenon, <1>2, <2>1 DEF Given
<1>5. ASSUME NEW t \in ClientId, reg'.targets[t] # None
      PROVE  Given(consent', identity'[t], reg'.targets[t])
  <2>1. Given(consent, identity[t], reg'.targets[t])
    BY Zenon, <1>5 DEF ConsentInv
  <2> QED
    BY Zenon, <1>2, <2>1 DEF Given
<1>6. ASSUME NEW t \in ClientId, NEW k \in reg'.approved_calls[t]
      PROVE  Given(consent', identity'[t], k)
  <2>1. Given(consent, identity[t], k)
    BY Zenon, <1>6 DEF ConsentInv
  <2> QED
    BY Zenon, <1>2, <2>1 DEF Given
<1>7. ASSUME NEW c \in ClientId, task'[c].at \in TargetLabel
      PROVE  /\ identity'[task'[c].tgt] \in Address
             /\ MatchesPrefix(identity'[task'[c].tgt], task'[c].pkt.key)
  <2>1. task[c].tgt \in ClientId
    BY Zenon, <1>1, <1>7 DEF TypeInv, TaskInv, Consistent
  <2> QED
    BY Zenon, <1>2, <1>7, <2>1 DEF ConsentInv
<1>8. ASSUME NEW c \in ClientId, task'[c].mutual \/ At(c, "SetTarget")'
      PROVE  Given(consent', identity'[task'[c].tgt], identity'[c])
  <2>1. task[c].at \in TargetLabel /\ task[c].at # "Idle"
    BY Zenon, <1>1, <1>8 DEF TypeInv, TaskInv, Consistent, At, TargetLabel, AudioLabel
  <2>2. task[c].tgt \in ClientId /\ identity[c] # None
    BY Zenon, <1>1, <2>1 DEF TypeInv, TaskInv, Consistent, At
  <2>3. Given(consent, identity[task[c].tgt], identity[c])
    BY Zenon, <1>8 DEF ConsentInv, At
  <2> QED
    BY Zenon, <1>1, <1>2, <2>2, <2>3 DEF Given
<1> QED
  BY Zenon, <1>3, <1>4, <1>5, <1>6, <1>7, <1>8 DEF ConsentInv

\* So does the arrival of a packet: audio and an acceptance are consent.
LEMMA ConsentReceive ==
    ASSUME SafetyInv, ConsentInv, TypeInv', NEW c \in ClientId, NEW p \in Packet, Receive(c, p)
    PROVE  ConsentInv'
<1>0. TypeInv /\ TypeInv' /\ reg \in Registry
  BY Zenon DEF SafetyInv, TypeInv, TypeOK
<1> DEFINE x == [IdleTask EXCEPT !.at = Entry[p.kind], !.pkt = p]
<1>1. UNCHANGED <<reg, identity>> /\ out' = {}
  BY Zenon DEF Receive, Quiet
<1>2. RelayHasConsent'
  BY Zenon, <1>1 DEF RelayHasConsent
<1>3. chan[c] = "open" /\ identity[c] \in Address /\ p.key \in Key /\ p.key \notin {None}
  BY ZenonT(60), <1>0, PacketAssumption, KeysAssumption DEF Receive, TypeInv, TypeOK, TaskInv
<1>4. CASE UNCHANGED <<task, consent>>
  BY Zenon, <1>0, <1>1, <1>2, <1>4, ConsentForgets
<1>5. CASE /\ task' = [task EXCEPT ![c] = x]
           /\ consent' = IF p.kind \in {"Audio", "Accept"}
                           THEN [consent EXCEPT ![identity[c]][p.key] = "given"] ELSE consent
  <2>1. x.at \notin {"SetTarget"} \cup TargetLabel /\ x.pkt = p /\ ~x.mutual
    BY Zenon, EntryLabel DEF IdleTask
  <2> HIDE DEF x
  <2>2. task'[c] = x /\ \A d \in ClientId \ {c} : task'[d] = task[d]
    BY Zenon, <1>0, <1>5 DEF TypeInv, TypeOK
  <2>3. \A a : \A k \in Key : Given(consent, a, k) => Given(consent', a, k)
    <3>1. consent \in ConsentType
      BY Zenon, <1>0 DEF TypeInv, TypeOK, ConsentType
    <3> QED
      BY Zenon, <1>3, <1>5, <3>1 DEF Given, ConsentType
  <2>4. p.kind \in {"Audio", "Accept"} => Given(consent', identity[c], p.key)
    <3>1. consent \in ConsentType
      BY Zenon, <1>0 DEF TypeInv, TypeOK, ConsentType
    <3> QED
      BY Zenon, <1>3, <1>5, <3>1 DEF Given, ConsentType
  <2>5. ASSUME NEW d \in ClientId, ~At(d, "Idle")', task'[d].pkt.kind \in {"Audio", "Accept"}
        PROVE  Given(consent', identity'[d], task'[d].pkt.key)
    <3>1. CASE d = c
      BY Zenon, <1>1, <2>1, <2>2, <2>4, <2>5, <3>1
    <3>2. CASE d # c
      <4>1. ~At(d, "Idle") /\ task'[d].pkt = task[d].pkt
        BY Zenon, <2>2, <2>5, <3>2 DEF At
      <4>2. task[d].pkt.key \in Key
        BY Zenon, <1>0, <4>1, Handling
      <4> QED
        BY Zenon, <1>1, <2>3, <2>5, <4>1, <4>2 DEF ConsentInv
    <3> QED
      BY Zenon, <3>1, <3>2
  <2>6. ASSUME NEW d \in ClientId, reg'.targets[d] # None
        PROVE  Given(consent', identity'[d], reg'.targets[d])
    <3>1. reg.targets[d] \in Key
      BY Zenon, <1>0, <1>1, <2>6 DEF Registry
    <3> QED
      BY Zenon, <1>1, <2>3, <2>6, <3>1 DEF ConsentInv
  <2>7. ASSUME NEW d \in ClientId, NEW k \in reg'.approved_calls[d]
        PROVE  Given(consent', identity'[d], k)
    <3>1. k \in Key
      BY Zenon, <1>0, <1>1 DEF Registry
    <3> QED
      BY Zenon, <1>1, <2>3, <3>1 DEF ConsentInv
  <2>8. ASSUME NEW d \in ClientId, task'[d].at \in TargetLabel
        PROVE  /\ identity'[task'[d].tgt] \in Address
               /\ MatchesPrefix(identity'[task'[d].tgt], task'[d].pkt.key)
    BY Zenon, <1>1, <2>1, <2>2, <2>8 DEF ConsentInv
  <2>9. ASSUME NEW d \in ClientId, task'[d].mutual \/ At(d, "SetTarget")'
        PROVE  Given(consent', identity'[task'[d].tgt], identity'[d])
    <3>1. d # c /\ task'[d] = task[d] /\ (task[d].mutual \/ At(d, "SetTarget"))
      BY Zenon, <2>1, <2>2, <2>9 DEF At
    <3>2. task[d].at # "Idle"
      BY Zenon, <1>0, <3>1 DEF TypeInv, TaskInv, Consistent, At
    <3>3. identity[d] \in Key
      BY Zenon, <1>0, <3>2, Handling DEF At, Key
    <3> QED
      BY Zenon, <1>1, <2>3, <3>1, <3>3 DEF ConsentInv
  <2>10. \A d \in ClientId : reg'.addresses[d] \in {None, identity'[d]}
    BY Zenon, <1>1 DEF ConsentInv
  <2> QED
    BY Zenon, <1>2, <2>5, <2>6, <2>7, <2>8, <2>9, <2>10 DEF ConsentInv
<1> QED
  BY Zenon, <1>4, <1>5 DEF Receive

\* Every step preserves what is known of consent.
LEMMA ConsentStep ==
    ASSUME Unambiguous, SafetyInv, ConsentInv, [Next]_vars
    PROVE  ConsentInv'
<1>1. SafetyInv' /\ TypeInv' /\ TypeInv /\ UniqueAddresses(reg) /\ reg \in Registry /\ now \in Nat
  BY Zenon, SafetyStep DEF SafetyInv, TypeInv, TypeOK
<1>2. ASSUME NEW c \in ClientId, Handle(c)
      PROVE  ConsentInv'
  BY Zenon, <1>2, ConsentHandle
<1>3. ASSUME NEW c \in ClientId, NEW a \in Address, Connect(c, a)
      PROVE  ConsentInv'
  <2>1. /\ reg' = RegisterClient(reg, c, a, now) /\ UNCHANGED <<task, consent>> /\ out' = {}
        /\ identity[c] = None /\ identity' = [identity EXCEPT ![c] = a]
    BY Zenon, <1>3 DEF Connect, Quiet
  <2>2. identity'[c] = a /\ \A t \in ClientId \ {c} : identity'[t] = identity[t]
    BY Zenon, <1>1, <2>1 DEF TypeInv, TypeOK
  <2>3. /\ reg'.addresses[c] = a
        /\ \A t \in ClientId \ {c} : reg'.addresses[t] \in {reg.addresses[t], None}
        /\ \A t \in ClientId : /\ reg'.targets[t] \in {reg.targets[t], None}
                               /\ reg'.approved_calls[t] \subseteq reg.approved_calls[t]
    BY <1>1, <2>1, RegisterClientEvicts
  <2>4. RelayHasConsent'
    BY Zenon, <2>1 DEF RelayHasConsent
  <2> QED
    BY Zenon, <1>1, <2>1, <2>2, <2>3, <2>4, ConsentForgets
<1>4. ASSUME NEW c \in ClientId, Disconnect(c) \/ CloseChannel(c)
      PROVE  ConsentInv'
  <2>1. reg' = UnregisterClient(reg, c) /\ UNCHANGED <<task, consent, identity>> /\ out' = {}
    BY Zenon, <1>4 DEF Disconnect, CloseChannel, Quiet
  <2>2. OnlyForgets(reg, reg')
    BY Zenon, <1>1, <2>1, UnregisterClientForgets
  <2>3. RelayHasConsent'
    BY Zenon, <2>1 DEF RelayHasConsent
  <2> QED
    BY Zenon, <1>1, <2>1, <2>2, <2>3, ConsentForgets DEF OnlyForgets
<1>5. ASSUME NEW c \in ClientId, OpenChannel(c)
      PROVE  ConsentInv'
  <2>1. /\ reg'.addresses = reg.addresses /\ reg'.targets = reg.targets
        /\ reg'.approved_calls = reg.approved_calls
        /\ UNCHANGED <<task, consent, identity>> /\ out' = {<<"ClientAssignment", c, identity[c]>>}
    BY Zenon, <1>1, <1>5 DEF OpenChannel, Registry
  <2>2. RelayHasConsent'
    BY <2>1 DEF RelayHasConsent
  <2> QED
    BY Zenon, <1>1, <2>1, <2>2, ConsentForgets
<1>6. ASSUME NEW c \in ClientId, NEW p \in Packet, Receive(c, p)
      PROVE  ConsentInv'
  BY Zenon, <1>1, <1>6, ConsentReceive
<1>7. CASE Tick
  <2>1. UNCHANGED <<reg, identity, task, consent>> /\ out' = {}
    BY Zenon, <1>7 DEF Tick, Quiet
  <2>2. RelayHasConsent'
    BY Zenon, <2>1 DEF RelayHasConsent
  <2> QED
    BY Zenon, <1>1, <2>1, <2>2, ConsentForgets
<1>8. CASE UNCHANGED vars
  <2>1. RelayHasConsent'
    BY Zenon, <1>8 DEF vars, ConsentInv, RelayHasConsent
  <2> QED
    BY Zenon, <1>1, <1>8, <2>1, ConsentForgets DEF vars
<1> QED
  BY Zenon, <1>2, <1>3, <1>4, <1>5, <1>6, <1>7, <1>8 DEF Next

\* Where no key names two addresses, the daemon relays targeted audio only to
\* users who have called or accepted its sender, although
\* handle_client_targeted_audio reads approvals, targets and addresses under
\* different acquisitions of the lock and clients come and go between them.
THEOREM RelayNeedsConsent ==
    ASSUME Unambiguous
    PROVE  Spec => []RelayHasConsent
<1>1. Init => ConsentInv
  <2> SUFFICES ASSUME Init PROVE ConsentInv
    BY Zenon
  <2>1. \A c \in ClientId : task[c].at = "Idle" /\ ~task[c].mutual
    BY Zenon DEF Init, IdleTask
  <2>2. out = {} /\ \A c \in ClientId : /\ reg.addresses[c] = None /\ reg.targets[c] = None
                                        /\ reg.approved_calls[c] = {}
    BY Zenon DEF Init, EmptyRegistry
  <2> QED
    BY Zenon, <2>1, <2>2 DEF ConsentInv, At, TargetLabel, AudioLabel, RelayHasConsent
<1>2. SafetyInv /\ ConsentInv /\ [Next]_vars => ConsentInv'
  BY Zenon, ConsentStep
<1>3. ConsentInv => RelayHasConsent
  BY Zenon DEF ConsentInv
<1> QED
  BY <1>1, <1>2, <1>3, SafetyInvariant, PTL DEF Spec

=============================================================================
