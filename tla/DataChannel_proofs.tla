-------------------------- MODULE DataChannel_proofs --------------------------
(***************************************************************************)
(* The safety properties of DataChannel, proved for any number of clients, *)
(* addresses, rooms and packets.  Every property follows from what a       *)
(* single step of an event loop may do to the registry (HandleEffect).     *)
(***************************************************************************)
EXTENDS DataChannelTypes_proofs

-----------------------------------------------------------------------------
\* What one step of the event loop of d may do to the registry, whichever
\* handler it is in: it enters targets and approvals for its own client only,
\* and for the key of the packet it handles.
RegistryEffect(d) ==
    /\ \A t \in ClientId :
          /\ reg'.addresses[t] \in {reg.addresses[t], None}
          /\ \/ reg'.targets[t] \in {reg.targets[t], None}
             \/ /\ t = d /\ task[d].pkt.kind \in {"Audio", "Accept"}
                /\ task[d].at \notin {"Idle", "InRoom"}
                /\ reg'.targets[t] = task[d].pkt.key
          /\ \/ reg'.approved_calls[t] \subseteq reg.approved_calls[t]
             \/ /\ t = d /\ task[d].pkt.kind = "Accept"
                /\ reg'.approved_calls[t] \subseteq reg.approved_calls[t] \cup {task[d].pkt.key}
          /\ reg'.notified_requests[t] \subseteq reg.notified_requests[t] \cup {d}
          /\ t # d /\ Forgotten(reg, t) => Forgotten(reg', t)
    /\ reg'.data_channels \subseteq reg.data_channels
    /\ RoomWithinLimit => RoomWithinLimit'

\* A step that only removes entries is such a step.
LEMMA ForgettingEffect ==
    ASSUME NEW d \in ClientId, reg \in Registry, reg' \in Registry, OnlyForgets(reg, reg')
    PROVE  RegistryEffect(d)
<1>1. \A t \in ClientId : Forgotten(reg, t) => Forgotten(reg', t)
  BY SMTT(60) DEF OnlyForgets, Forgotten
<1>2. RoomWithinLimit => RoomWithinLimit'
  <2> SUFFICES ASSUME RoomWithinLimit, NEW k \in Key
               PROVE  Cardinality(reg'.room_members[k]) <= RoomLimit
    BY Zenon DEF RoomWithinLimit
  <2>1. reg.room_members[k] \subseteq ClientId /\ reg'.room_members[k] \subseteq reg.room_members[k]
    BY Zenon DEF OnlyForgets, Registry
  <2>2. IsFiniteSet(reg.room_members[k])
    BY Zenon, <2>1, LimitsAssumption, FS_Subset
  <2>3. Cardinality(reg'.room_members[k]) <= Cardinality(reg.room_members[k])
        /\ IsFiniteSet(reg'.room_members[k])
    BY Zenon, <2>1, <2>2, FS_Subset, FS_CardinalityType
  <2>4. Cardinality(reg'.room_members[k]) \in Nat /\ Cardinality(reg.room_members[k]) \in Nat
    BY Zenon, <2>2, <2>3, FS_CardinalityType
  <2> QED
    BY <2>3, <2>4, LimitsAssumption DEF RoomWithinLimit
<1> QED
  BY Zenon, <1>1, <1>2 DEF OnlyForgets, RegistryEffect

\* A step that leaves the registry alone is such a step.
LEMMA NoEffect ==
    ASSUME NEW d \in ClientId, UNCHANGED reg
    PROVE  RegistryEffect(d)
  BY Zenon DEF RegistryEffect, RoomWithinLimit

\* Every step of the event loop of c is such a step.
LEMMA HandleEffect ==
    ASSUME TypeInv, NEW c \in ClientId, Handle(c)
    PROVE  /\ RegistryEffect(c)
           /\ ~At(c, "Idle")
           /\ UNCHANGED <<identity, chan, now>>
<1>1. ~At(c, "Idle")
  BY Zenon DEF Handle, At, AudioInRoom, AudioFind, AudioStale, AudioEvict, AudioRejected,
         AudioSameCall, AudioMutual, AudioFull, AudioApproved, AudioNotified,
         AudioMarkNotified, AudioPrompt, AudioSetTarget, AcceptApprove, AcceptAnswer,
         RejectRefuse, HangupClear, TellFind, TellChannel, TellSend, RoomJoin, RoomLeave, RoomSpeak,
         BroadcastMembers, BroadcastSend, PongReceived
<1>2. UNCHANGED <<identity, chan, now>>
  BY Zenon DEF Handle, AudioInRoom, AudioFind, AudioStale, AudioEvict, AudioRejected,
         AudioSameCall, AudioMutual, AudioFull, AudioApproved, AudioNotified,
         AudioMarkNotified, AudioPrompt, AudioSetTarget, AcceptApprove, AcceptAnswer,
         RejectRefuse, HangupClear, TellFind, TellChannel, TellSend, RoomJoin, RoomLeave, RoomSpeak,
         BroadcastMembers, BroadcastSend, PongReceived, ReadThen, Refusal, Return, UnchangedRest
<1> SUFFICES RegistryEffect(c)
  BY Zenon, <1>1, <1>2
<1>3. /\ reg \in Registry /\ reg' \in Registry /\ task[c].pkt.key \in Key
      /\ identity[c] \in Address
      /\ task[c].pkt.payload \in Payload /\ Consistent(task[c])
  BY Zenon, <1>1, Handling, HandleTypes DEF TypeInv, TypeOK
<1>4. CASE \/ AudioInRoom(c) \/ AudioFind(c) \/ AudioStale(c) \/ AudioRejected(c)
           \/ AudioSameCall(c) \/ AudioMutual(c) \/ AudioFull(c) \/ AudioApproved(c)
           \/ AudioNotified(c) \/ AudioPrompt(c) \/ TellFind(c) \/ TellChannel(c) \/ TellSend(c)
           \/ BroadcastMembers(c) \/ BroadcastSend(c)
  <2>1. UNCHANGED reg
    BY Zenon, <1>4 DEF AudioInRoom, AudioFind, AudioStale, AudioRejected, AudioSameCall, AudioMutual,
                AudioFull, AudioApproved, AudioNotified, AudioPrompt, TellFind, TellChannel, TellSend,
                BroadcastMembers, BroadcastSend, ReadThen, Refusal, Return
  <2> QED
    BY Zenon, <2>1, NoEffect
<1>5. CASE AudioEvict(c)
  <2>1. task[c].tgt \in ClientId
    BY Zenon, <1>3, <1>5 DEF AudioEvict, At, Consistent, TargetLabel, AudioLabel
  <2>2. OnlyForgets(reg, reg')
    BY Zenon, <1>3, <1>5, <2>1, UnregisterClientForgets DEF AudioEvict
  <2> QED
    BY Zenon, <1>3, <2>2, ForgettingEffect
<1>6. CASE AudioMarkNotified(c)
  <2> DEFINE lists == [reg.notified_requests EXCEPT ![task[c].tgt] = reg.notified_requests[task[c].tgt] \cup {c}]
  <2>1. task[c].tgt \in ClientId
    BY Zenon, <1>3, <1>6 DEF AudioMarkNotified, At, Consistent, TargetLabel, AudioLabel
  <2>2. \A t \in ClientId : lists[t] \subseteq reg.notified_requests[t] \cup {c}
    BY Zenon, <1>3, <2>1 DEF Registry
  <2>3. reg' = [reg EXCEPT !.notified_requests = lists]
    BY Zenon, <1>6 DEF AudioMarkNotified, MarkNotified
  <2> HIDE DEF lists
  <2> QED
    BY ZenonT(60), <1>3, <2>2, <2>3 DEF RegistryEffect, Registry, Forgotten, RoomWithinLimit
<1>7. CASE AudioSetTarget(c)
  <2>1. task[c].pkt.kind = "Audio" /\ task[c].at = "SetTarget"
    BY Zenon, <1>3, <1>7 DEF AudioSetTarget, At, Consistent, TargetLabel, AudioLabel
  <2>2. reg' = [reg EXCEPT !.targets[c] = task[c].pkt.key]
    BY Zenon, <1>7 DEF AudioSetTarget
  <2> QED
    BY ZenonT(60), <1>3, <2>1, <2>2 DEF RegistryEffect, Registry, Forgotten, RoomWithinLimit
<1>8. CASE AcceptApprove(c)
  <2>1. task[c].pkt.kind = "Accept"
    BY Zenon, <1>3, <1>8 DEF AcceptApprove, At, Consistent, AnswerLabel
  <2>2. reg' = MarkCallApproved(reg, c, task[c].pkt.key)
    BY Zenon, <1>8 DEF AcceptApprove
  <2> QED
    BY ZenonT(60), <1>3, <2>1, <2>2 DEF MarkCallApproved, RegistryEffect, Registry, Forgotten, RoomWithinLimit
<1>9. CASE AcceptAnswer(c)
  <2> DEFINE old == reg.targets[c]
             new == IF old = None THEN task[c].pkt.key ELSE old
             targets == [reg.targets EXCEPT ![c] = new]
  <2>1. task[c].pkt.kind = "Accept" /\ task[c].at = "Answer"
    BY Zenon, <1>3, <1>9 DEF AcceptAnswer, At, Consistent, AnswerLabel
  <2>2. reg' = [reg EXCEPT !.targets = targets]
    BY Zenon, <1>9 DEF AcceptAnswer
  <2>3. /\ \A t \in ClientId \ {c} : targets[t] = reg.targets[t]
        /\ targets[c] \in {reg.targets[c], task[c].pkt.key}
    BY Zenon, <1>3 DEF Registry
  <2> HIDE DEF targets
  <2> QED
    BY SMTT(60), <1>3, <2>1, <2>2, <2>3 DEF RegistryEffect, Registry, Forgotten, RoomWithinLimit
<1>10. CASE RejectRefuse(c)
  <2>1. reg' = MarkCallRejected(reg, c, task[c].pkt.key)
    BY Zenon, <1>10 DEF RejectRefuse
  <2> QED
    BY <1>3, <2>1 DEF MarkCallRejected, RegistryEffect, Registry, Forgotten, RoomWithinLimit
<1>11. CASE HangupClear(c)
  <2>1. OnlyForgets(reg, reg')
    BY Zenon, <1>3, <1>11, ClearCallSessionForgets DEF HangupClear
  <2> QED
    BY Zenon, <1>3, <2>1, ForgettingEffect
<1>12. CASE RoomJoin(c)
  <2> DEFINE k == task[c].pkt.key
  <2>1. reg' = JoinRoom(reg, c, k) /\ k \in Key
    BY Zenon, <1>3, <1>12 DEF RoomJoin
  <2> HIDE DEF k
  <2>2. /\ SameCalls(reg, reg') /\ reg'.room_speakers = reg.room_speakers
        /\ \A q \in Key \ {k} : reg'.room_members[q] = reg.room_members[q]
        /\ reg'.room_members[k] \subseteq reg.room_members[k] \cup {c}
        /\ Cardinality(reg.room_members[k]) <= RoomLimit
                 => Cardinality(reg'.room_members[k]) <= RoomLimit
    BY <1>3, <2>1, JoinRoomWithinLimit
  <2>3. RoomWithinLimit => RoomWithinLimit'
    BY Zenon, <2>1, <2>2 DEF RoomWithinLimit
  <2>4. \A t \in ClientId \ {c} : Forgotten(reg, t) => Forgotten(reg', t)
    BY ZenonT(60), <2>2 DEF Forgotten, SameCalls
  <2> QED
    BY Zenon, <2>2, <2>3, <2>4 DEF RegistryEffect, SameCalls
<1>13. CASE RoomLeave(c)
  <2>1. PICK k \in RoomKeys(reg, task[c].pkt.key) : reg' = LeaveRoom(reg, c, k)
    BY Zenon, <1>13 DEF RoomLeave
  <2>2. OnlyForgets(reg, reg')
    BY Zenon, <1>3, <2>1, RoomKeysType, LeaveRoomForgets
  <2> QED
    BY Zenon, <1>3, <2>2, ForgettingEffect
<1>14. CASE RoomSpeak(c)
  <2> DEFINE energy == EnergyOf[task[c].pkt.payload]
  <2>1. PICK k \in RoomKeys(reg, task[c].pkt.key) :
          \E top \in TopSets(SpeakersAfter(reg, c, k, energy, now)) :
          \E list \in Rankings(reg, SpeakersAfter(reg, c, k, energy, now), top) :
             reg' = UpdateSpeakers(reg, k, SpeakersAfter(reg, c, k, energy, now), list)
    BY Zenon, <1>14 DEF RoomSpeak
  <2> DEFINE after == SpeakersAfter(reg, c, k, energy, now)
  <2>2. PICK list \in TopList : reg' = UpdateSpeakers(reg, k, after, list)
    BY Zenon, <2>1, RankingsType
  <2>3. energy \in Nat /\ now \in Nat /\ k \in Key
    BY Zenon, <1>3, RoomKeysType, PacketAssumption DEF TypeInv, TypeOK
  <2> HIDE DEF energy
  <2>4. /\ \A t \in ClientId \ {c} : after[t] \in {reg.room_speakers[k][t], None}
        /\ SameCalls(reg, reg') /\ reg'.room_members = reg.room_members
        /\ \A z \in Key : reg'.room_speakers[z] = IF z = k THEN after ELSE reg.room_speakers[z]
    BY SMTT(60), <1>3, <2>2, <2>3, UpdateSpeakersType
  <2> HIDE DEF after
  <2>5. \A t \in ClientId \ {c} : Forgotten(reg, t) => Forgotten(reg', t)
    BY SMTT(60), <2>4 DEF Forgotten, SameCalls
  <2> QED
    BY Zenon, <2>4, <2>5 DEF RegistryEffect, SameCalls, RoomWithinLimit
<1>15. CASE PongReceived(c)
  <2>1. reg' = [reg EXCEPT !.last_pong[c] = now]
    BY Zenon, <1>15 DEF PongReceived
  <2> QED
    BY <1>3, <2>1 DEF RegistryEffect, Registry, Forgotten, RoomWithinLimit
<1> QED
  BY Zenon, <1>4, <1>5, <1>6, <1>7, <1>8, <1>9, <1>10, <1>11, <1>12, <1>13, <1>14, <1>15
  DEF Handle

\* What one step of the event loop of c may do to its task and to the tasks of
\* the others: the packet stays the same until the handler ends, the target is
\* chosen by one search and kept, and the labels that matter are reached only
\* through the checks that guard them.
TaskEffect(c) ==
    LET t == task[c]
        u == task'[c]
    IN  /\ \A d \in ClientId \ {c} : task'[d] = task[d]
        /\ u.at # "Idle" => u.pkt = t.pkt
        /\ u.at \in TargetLabel =>
              \/ At(c, "Find") /\ u.at = "Stale" /\ u.tgt \in Found(reg, t.pkt.key)
              \/ t.at \in TargetLabel /\ u.tgt = t.tgt
        /\ u.mutual => t.mutual \/ (/\ t.at = "Mutual" /\ u.tgt = t.tgt
                                    /\ MatchesPrefix(reg.targets[t.tgt], identity[c]))
        /\ u.at = "SetTarget" => t.mutual \/ identity[c] \in reg.approved_calls[t.tgt]
        /\ u.at = "MarkNotified" =>
              /\ c \notin reg.notified_requests[t.tgt] /\ u.tgt = t.tgt
              /\ UNCHANGED reg

\* A step to a given task has such an effect if the task does.
LEMMA GotoEffect ==
    ASSUME TypeInv, NEW c \in ClientId, NEW l, Goto(c, l),
           l \in TargetLabel => task[c].at \in TargetLabel,
           l = "SetTarget" => task[c].mutual \/ identity[c] \in reg.approved_calls[task[c].tgt],
           l = "MarkNotified" => c \notin reg.notified_requests[task[c].tgt] /\ UNCHANGED reg
    PROVE  TaskEffect(c)
<1> DEFINE x == [task[c] EXCEPT !.at = l]
<1>1. task[c] \in Task /\ task \in [ClientId -> Task]
  BY Zenon DEF TypeInv, TypeOK
<1>2. task'[c] = x /\ \A d \in ClientId \ {c} : task'[d] = task[d]
  BY Zenon, <1>1 DEF Goto
<1>3. x.at = l /\ x.pkt = task[c].pkt /\ x.tgt = task[c].tgt /\ x.mutual = task[c].mutual
  BY Zenon, <1>1 DEF Task
<1> HIDE DEF x
<1> QED
  BY Zenon, <1>2, <1>3 DEF TaskEffect

\* So has the end of a handler.
LEMMA FinishEffect ==
    ASSUME TypeInv, NEW c \in ClientId, Finish(c)
    PROVE  TaskEffect(c)
<1>1. task \in [ClientId -> Task]
  BY Zenon DEF TypeInv, TypeOK
<1>2. task'[c] = IdleTask /\ \A d \in ClientId \ {c} : task'[d] = task[d]
  BY Zenon, <1>1 DEF Finish
<1>3. IdleTask.at = "Idle" /\ ~IdleTask.mutual
  BY Zenon DEF IdleTask
<1> QED
  BY Zenon, <1>2, <1>3 DEF TaskEffect, TargetLabel, AudioLabel

\* And a broadcast to a room.
LEMMA AnnounceEffect ==
    ASSUME TypeInv, NEW c \in ClientId, NEW b, NEW n, Announce(c, b, n)
    PROVE  TaskEffect(c)
<1> DEFINE x == [task[c] EXCEPT !.at = "Members", !.body = b, !.notice = n]
<1>1. task[c] \in Task /\ task \in [ClientId -> Task]
  BY Zenon DEF TypeInv, TypeOK
<1>2. task'[c] = x /\ \A d \in ClientId \ {c} : task'[d] = task[d]
  BY Zenon, <1>1 DEF Announce
<1>3. x.at = "Members" /\ x.pkt = task[c].pkt /\ x.mutual = task[c].mutual
  BY Zenon, <1>1 DEF Task
<1> HIDE DEF x
<1> QED
  BY Zenon, <1>2, <1>3 DEF TaskEffect, TargetLabel, AudioLabel

\* Every step of the event loop of c has such an effect.
LEMMA HandleTask ==
    ASSUME TypeInv, NEW c \in ClientId, Handle(c)
    PROVE  TaskEffect(c)
<1>1. task[c] \in Task /\ task \in [ClientId -> Task]
  BY Zenon DEF TypeInv, TypeOK
<1> USE DEF TargetLabel, AudioLabel, At
<1>3. CASE AudioInRoom(c)
  BY Zenon, <1>3, GotoEffect DEF AudioInRoom, ReadThen
<1>4. CASE AudioFind(c)
  <2>1. CASE Refusal(c)
    BY Zenon, <2>1, FinishEffect DEF Refusal
  <2>2. CASE ~Refusal(c)
    <3>1. PICK t \in Found(reg, task[c].pkt.key) :
            task' = [task EXCEPT ![c].at = "Stale", ![c].tgt = t]
      BY Zenon, <1>4, <2>2 DEF AudioFind
    <3> DEFINE x == [task[c] EXCEPT !.at = "Stale", !.tgt = t]
    <3>2. task'[c] = x /\ \A d \in ClientId \ {c} : task'[d] = task[d]
      BY Zenon, <1>1, <3>1
    <3>3. x.at = "Stale" /\ x.tgt = t /\ x.pkt = task[c].pkt /\ x.mutual = task[c].mutual
      BY Zenon, <1>1 DEF Task
    <3> HIDE DEF x
    <3> QED
      BY Zenon, <1>4, <3>2, <3>3 DEF TaskEffect, AudioFind
  <2> QED
    BY Zenon, <2>1, <2>2
<1>5. CASE AudioStale(c)
  BY Zenon, <1>5, GotoEffect, FinishEffect DEF AudioStale, ReadThen, Refusal
<1>6. CASE AudioEvict(c) \/ AudioPrompt(c) \/ AudioSetTarget(c) \/ TellSend(c) \/ PongReceived(c)
  BY Zenon, <1>6, FinishEffect DEF AudioEvict, AudioPrompt, AudioSetTarget, TellSend, PongReceived
<1>7. CASE AudioRejected(c) \/ TellChannel(c)
  BY Zenon, <1>7, GotoEffect, FinishEffect DEF AudioRejected, TellChannel, ReadThen, Refusal, Return
<1>8. CASE AudioSameCall(c)
  <2> DEFINE b == IsClientInSameCall(reg, c, task[c].pkt.key)
             x == [task[c] EXCEPT !.at = "Mutual", !.same = b]
  <2>1. task'[c] = x /\ \A d \in ClientId \ {c} : task'[d] = task[d]
    BY Zenon, <1>1, <1>8 DEF AudioSameCall
  <2> HIDE DEF b
  <2>2. x.at = "Mutual" /\ x.tgt = task[c].tgt /\ x.pkt = task[c].pkt /\ x.mutual = task[c].mutual
    BY Zenon, <1>1 DEF Task
  <2> HIDE DEF x
  <2> QED
    BY Zenon, <1>8, <2>1, <2>2 DEF TaskEffect, AudioSameCall
<1>9. CASE AudioMutual(c)
  <2> DEFINE m == MatchesPrefix(reg.targets[task[c].tgt], identity[c])
             l == IF task[c].same \/ m THEN "Approved" ELSE "Full"
             x == [task[c] EXCEPT !.at = l, !.mutual = m]
  <2>1. m \in BOOLEAN
    BY Zenon DEF MatchesPrefix
  <2>2. task'[c] = x /\ \A d \in ClientId \ {c} : task'[d] = task[d]
    BY Zenon, <1>1, <1>9 DEF AudioMutual
  <2>3. l \in {"Approved", "Full"}
    BY Zenon
  <2> HIDE DEF l
  <2>4. x.mutual => m
    <3> HIDE DEF m
    <3> QED
      BY Zenon, <1>1, <2>1 DEF Task
  <2>5. x.at = l /\ x.tgt = task[c].tgt /\ x.pkt = task[c].pkt
    <3> HIDE DEF m
    <3> QED
      BY Zenon, <1>1 DEF Task
  <2> HIDE DEF x
  <2> QED
    BY Zenon, <1>9, <2>2, <2>3, <2>4, <2>5 DEF TaskEffect, AudioMutual
<1>10. CASE AudioFull(c)
  BY Zenon, <1>10, GotoEffect, FinishEffect DEF AudioFull, ReadThen, Refusal
<1>11. CASE AudioApproved(c)
  BY Zenon, <1>11, GotoEffect DEF AudioApproved, ReadThen
<1>12. CASE AudioNotified(c)
  BY Zenon, <1>12, GotoEffect, FinishEffect DEF AudioNotified, ReadThen, Return
<1>13. CASE AudioMarkNotified(c)
  BY Zenon, <1>13, GotoEffect DEF AudioMarkNotified
<1>14. CASE AcceptApprove(c) \/ AcceptAnswer(c) \/ RejectRefuse(c) \/ HangupClear(c)
  BY Zenon, <1>14, GotoEffect DEF AcceptApprove, AcceptAnswer, RejectRefuse, HangupClear
<1>15. CASE TellFind(c)
  <2>1. CASE Return(c)
    BY Zenon, <2>1, FinishEffect DEF Return
  <2>2. CASE ~Return(c)
    <3>1. PICK t \in Found(reg, task[c].pkt.key) :
            task' = [task EXCEPT ![c].at = "TellChannel", ![c].tgt = t]
      BY Zenon, <1>15, <2>2 DEF TellFind
    <3> DEFINE x == [task[c] EXCEPT !.at = "TellChannel", !.tgt = t]
    <3>2. task'[c] = x /\ \A d \in ClientId \ {c} : task'[d] = task[d]
      BY Zenon, <1>1, <3>1
    <3>3. x.at = "TellChannel" /\ x.pkt = task[c].pkt /\ x.mutual = task[c].mutual
      BY Zenon, <1>1 DEF Task
    <3> HIDE DEF x
    <3> QED
      BY Zenon, <3>2, <3>3 DEF TaskEffect
  <2> QED
    BY Zenon, <2>1, <2>2
<1>16. CASE RoomJoin(c) \/ RoomLeave(c)
  BY Zenon, <1>16, AnnounceEffect DEF RoomJoin, RoomLeave
<1>17. CASE RoomSpeak(c)
  <2>1. Finish(c) \/ \E b, n : Announce(c, b, n)
    BY Zenon, <1>17 DEF RoomSpeak
  <2> QED
    BY Zenon, <2>1, FinishEffect, AnnounceEffect
<1>18. CASE BroadcastMembers(c)
  <2>1. PICK z : task' = [task EXCEPT ![c].at = "Send", ![c].todo = z]
    BY Zenon, <1>18 DEF BroadcastMembers
  <2> DEFINE x == [task[c] EXCEPT !.at = "Send", !.todo = z]
  <2>2. task'[c] = x /\ \A d \in ClientId \ {c} : task'[d] = task[d]
    BY Zenon, <1>1, <2>1
  <2>3. x.at = "Send" /\ x.pkt = task[c].pkt /\ x.mutual = task[c].mutual
    BY Zenon, <1>1 DEF Task
  <2> HIDE DEF x
  <2> QED
    BY Zenon, <2>2, <2>3 DEF TaskEffect
<1>19. CASE BroadcastSend(c)
  <2>1. CASE Finish(c) \/ \E b, n : Announce(c, b, n)
    BY Zenon, <2>1, FinishEffect, AnnounceEffect
  <2>2. CASE \E m \in task[c].todo : task' = [task EXCEPT ![c].todo = @ \ {m}]
    <3>1. PICK z : task' = [task EXCEPT ![c].todo = z]
      BY Zenon, <2>2
    <3> DEFINE x == [task[c] EXCEPT !.todo = z]
    <3>2. task'[c] = x /\ \A d \in ClientId \ {c} : task'[d] = task[d]
      BY Zenon, <1>1, <3>1
    <3>3. x.at = "Send" /\ x.pkt = task[c].pkt /\ x.mutual = task[c].mutual
      BY Zenon, <1>1, <1>19 DEF Task, BroadcastSend
    <3> HIDE DEF x
    <3> QED
      BY Zenon, <3>2, <3>3 DEF TaskEffect
  <2> QED
    BY Zenon, <1>19, <2>1, <2>2 DEF BroadcastSend
<1> QED
  BY Zenon, <1>3, <1>4, <1>5, <1>6, <1>7, <1>8, <1>9, <1>10, <1>11, <1>12, <1>13, <1>14, <1>15, <1>16,
     <1>17, <1>18, <1>19 DEF Handle

-----------------------------------------------------------------------------
\* The inductive invariant behind everything but consent.
SafetyInv ==
    /\ TypeInv
    /\ UniqueAddresses(reg)
    /\ ChannelsAreLive
    /\ \A c \in ClientId : chan[c] = "closed" => Forgotten(reg, c)
    /\ RoomWithinLimit
    /\ NoDuplicatePrompt

\* The daemon starts with it.
LEMMA SafetyInit == Init => SafetyInv
<1> SUFFICES ASSUME Init PROVE SafetyInv
  BY Zenon
<1>1. task \in [ClientId -> Task] /\ \A c \in ClientId : task[c] = IdleTask /\ Consistent(task[c])
  BY Zenon, IdleTaskType DEF Init
<1>2. IdleTask.at = "Idle"
  BY Zenon DEF IdleTask
<1>3. TypeOK
  BY Zenon, <1>1, EmptyRegistryType DEF Init, TypeOK
<1>4. TaskInv
  BY Zenon, <1>1, <1>2 DEF Init, TaskInv, At
<1>5. UniqueAddresses(reg) /\ ChannelsAreLive
  BY Zenon DEF Init, EmptyRegistry, UniqueAddresses, ChannelsAreLive
<1>6. RoomWithinLimit
  BY LimitsAssumption, FS_EmptySet DEF Init, EmptyRegistry, RoomWithinLimit
<1>7. NoDuplicatePrompt
  BY Zenon, <1>1, <1>2 DEF NoDuplicatePrompt, At
<1> QED
  BY Zenon, <1>3, <1>4, <1>5, <1>6, <1>7 DEF Init, TypeInv, SafetyInv

\* Every step preserves it.
LEMMA SafetyStep == SafetyInv /\ [Next]_vars => SafetyInv'
<1> SUFFICES ASSUME SafetyInv, [Next]_vars PROVE SafetyInv'
  BY Zenon
<1>1. TypeInv /\ UniqueAddresses(reg) /\ reg \in Registry /\ now \in Nat
  BY Zenon DEF SafetyInv, TypeInv, TypeOK
<1>2. ASSUME NEW c \in ClientId, Handle(c)
      PROVE  SafetyInv'
  <2>1. TypeInv'
    BY Zenon, <1>1, <1>2, HandleTypes
  <2>2. RegistryEffect(c) /\ ~At(c, "Idle") /\ UNCHANGED <<identity, chan>>
    BY Zenon, <1>1, <1>2, HandleEffect
  <2>3. TaskEffect(c)
    BY Zenon, <1>1, <1>2, HandleTask
  <2>4. UniqueAddresses(reg)'
    BY ZenonT(60), <1>1, <2>2 DEF RegistryEffect, UniqueAddresses
  <2>5. ChannelsAreLive'
    BY Zenon, <2>2 DEF SafetyInv, ChannelsAreLive, RegistryEffect
  <2>6. \A d \in ClientId : chan'[d] = "closed" => Forgotten(reg', d)
    <3>1. chan[c] # "closed"
      BY Zenon, <1>1, <2>2 DEF TypeInv, TaskInv
    <3> QED
      BY Zenon, <2>2, <3>1 DEF SafetyInv, RegistryEffect
  <2>7. RoomWithinLimit'
    BY Zenon, <2>2 DEF SafetyInv, RegistryEffect
  <2>8. NoDuplicatePrompt'
    <3> SUFFICES ASSUME NEW d \in ClientId, task'[d].at = "MarkNotified"
                 PROVE  d \notin reg'.notified_requests[task'[d].tgt]
      BY Zenon DEF NoDuplicatePrompt, At
    <3>1. CASE d = c
      BY Zenon, <2>3, <3>1 DEF TaskEffect
    <3>2. CASE d # c
      <4>1. task'[d] = task[d]
        BY Zenon, <2>3, <3>2 DEF TaskEffect
      <4>2. task[d].tgt \in ClientId
        BY Zenon, <1>1, <4>1 DEF TypeInv, TaskInv, Consistent, TargetLabel, AudioLabel
      <4>3. d \notin reg.notified_requests[task[d].tgt]
        BY Zenon, <4>1 DEF SafetyInv, NoDuplicatePrompt, At
      <4> QED
        BY SMTT(60), <2>2, <3>2, <4>1, <4>2, <4>3 DEF RegistryEffect
    <3> QED
      BY Zenon, <3>1, <3>2
  <2> QED
    BY Zenon, <2>1, <2>4, <2>5, <2>6, <2>7, <2>8 DEF SafetyInv
<1>3. ASSUME NEW c \in ClientId, NEW a \in Address, Connect(c, a)
      PROVE  SafetyInv'
  <2>1. TypeInv'
    BY Zenon, <1>1, <1>3, ConnectionTypes
  <2>2. chan[c] = "none" /\ reg' = RegisterClient(reg, c, a, now) /\ UNCHANGED <<chan, task>>
    BY Zenon, <1>1, <1>3 DEF Connect, TypeInv, TypeOK, TaskInv
  <2>3. /\ UniqueAddresses(reg')
        /\ reg'.data_channels \subseteq reg.data_channels
        /\ reg'.peer_connections \subseteq reg.peer_connections \cup {c}
        /\ \A t \in ClientId \ {c} : /\ reg'.addresses[t] \in {reg.addresses[t], None}
                                     /\ reg'.last_pong[t] \in {reg.last_pong[t], None}
        /\ \A t \in ClientId : /\ reg'.targets[t] \in {reg.targets[t], None}
                               /\ reg'.approved_calls[t] \subseteq reg.approved_calls[t]
                               /\ reg'.rejected_calls[t] \subseteq reg.rejected_calls[t]
                               /\ reg'.notified_requests[t] \subseteq reg.notified_requests[t]
        /\ \A k \in Key :
              /\ reg'.room_members[k] \subseteq reg.room_members[k]
              /\ \A t \in ClientId : reg'.room_speakers[k][t] \in {reg.room_speakers[k][t], None}
    BY ZenonT(60), <1>1, <2>2, RegisterClientEvicts
  <2>4. ChannelsAreLive'
    BY Zenon, <2>2, <2>3 DEF SafetyInv, ChannelsAreLive
  <2>5. \A d \in ClientId : chan'[d] = "closed" => Forgotten(reg', d)
    <3>1. \A d \in ClientId : chan'[d] = "closed" => d # c /\ Forgotten(reg, d)
      BY Zenon, <2>2 DEF SafetyInv
    <3> QED
      BY SMTT(60), <2>3, <3>1 DEF Forgotten
  <2>6. RoomWithinLimit'
    <3> SUFFICES ASSUME NEW k \in Key
                 PROVE  Cardinality(reg'.room_members[k]) <= RoomLimit
      BY Zenon DEF RoomWithinLimit
    <3>1. /\ reg.room_members[k] \subseteq ClientId
          /\ reg'.room_members[k] \subseteq reg.room_members[k]
      BY Zenon, <1>1, <2>3 DEF Registry
    <3>2. IsFiniteSet(reg.room_members[k])
      BY Zenon, <3>1, LimitsAssumption, FS_Subset
    <3>3. /\ Cardinality(reg'.room_members[k]) <= Cardinality(reg.room_members[k])
          /\ IsFiniteSet(reg'.room_members[k])
      BY Zenon, <3>1, <3>2, FS_Subset, FS_CardinalityType
    <3>4. Cardinality(reg'.room_members[k]) \in Nat /\ Cardinality(reg.room_members[k]) \in Nat
      BY Zenon, <3>2, <3>3, FS_CardinalityType
    <3> QED
      BY <3>3, <3>4, LimitsAssumption DEF SafetyInv, RoomWithinLimit
  <2>7. NoDuplicatePrompt'
    <3> SUFFICES ASSUME NEW d \in ClientId, task[d].at = "MarkNotified"
                 PROVE  d \notin reg'.notified_requests[task[d].tgt]
      BY Zenon, <2>2 DEF NoDuplicatePrompt, At
    <3>1. task[d].tgt \in ClientId
      BY Zenon, <1>1 DEF TypeInv, TaskInv, Consistent, TargetLabel, AudioLabel
    <3> QED
      BY Zenon, <2>3, <3>1 DEF SafetyInv, NoDuplicatePrompt, At
  <2> QED
    BY Zenon, <2>1, <2>3, <2>4, <2>5, <2>6, <2>7 DEF SafetyInv
<1>4. ASSUME NEW c \in ClientId, Disconnect(c) \/ CloseChannel(c)
      PROVE  SafetyInv'
  <2>1. TypeInv'
    BY Zenon, <1>1, <1>4, ConnectionTypes
  <2>2. /\ reg' = UnregisterClient(reg, c) /\ UNCHANGED task
        /\ chan' \in {chan, [chan EXCEPT ![c] = "closed"]}
    BY Zenon, <1>4 DEF Disconnect, CloseChannel
  <2>3. /\ reg' \in Registry /\ OnlyForgets(reg, reg') /\ Forgotten(reg', c)
        /\ c \notin reg'.data_channels
    BY Zenon, <1>1, <2>2, UnregisterClientForgets
  <2>4. RegistryEffect(c)
    BY Zenon, <1>1, <2>3, ForgettingEffect
  <2>5. UniqueAddresses(reg)'
    BY ZenonT(60), <1>1, <2>4 DEF RegistryEffect, UniqueAddresses
  <2>6. ChannelsAreLive'
    <3>1. \A d \in reg'.data_channels : d \in ClientId /\ d # c /\ chan[d] = "open"
      BY Zenon, <2>3 DEF SafetyInv, ChannelsAreLive, OnlyForgets, Registry
    <3>2. \A d \in ClientId \ {c} : chan'[d] = chan[d]
      BY Zenon, <1>1, <2>2 DEF TypeInv, TypeOK
    <3> QED
      BY Zenon, <3>1, <3>2 DEF ChannelsAreLive
  <2>7. \A d \in ClientId : chan'[d] = "closed" => Forgotten(reg', d)
    BY Zenon, <1>1, <2>2, <2>3, <2>4 DEF SafetyInv, RegistryEffect, TypeInv, TypeOK
  <2>8. NoDuplicatePrompt'
    <3> SUFFICES ASSUME NEW d \in ClientId, task[d].at = "MarkNotified"
                 PROVE  d \notin reg'.notified_requests[task[d].tgt]
      BY Zenon, <2>2 DEF NoDuplicatePrompt, At
    <3>1. task[d].tgt \in ClientId
      BY Zenon, <1>1 DEF TypeInv, TaskInv, Consistent, TargetLabel, AudioLabel
    <3> QED
      BY Zenon, <2>3, <3>1 DEF SafetyInv, NoDuplicatePrompt, At, OnlyForgets
  <2> QED
    BY Zenon, <2>1, <2>4, <2>5, <2>6, <2>7, <2>8 DEF SafetyInv, RegistryEffect
<1>5. ASSUME NEW c \in ClientId, OpenChannel(c)
      PROVE  SafetyInv'
  <2>1. TypeInv'
    BY Zenon, <1>1, <1>5, ConnectionTypes
  <2>2. /\ chan' = [chan EXCEPT ![c] = "open"] /\ UNCHANGED task
        /\ reg' = [reg EXCEPT !.data_channels = @ \cup {c}]
    BY Zenon, <1>5 DEF OpenChannel
  <2>3. /\ reg'.data_channels = reg.data_channels \cup {c}
        /\ reg'.addresses = reg.addresses /\ reg'.targets = reg.targets
        /\ reg'.peer_connections = reg.peer_connections /\ reg'.last_pong = reg.last_pong
        /\ reg'.approved_calls = reg.approved_calls /\ reg'.rejected_calls = reg.rejected_calls
        /\ reg'.notified_requests = reg.notified_requests
        /\ reg'.room_members = reg.room_members /\ reg'.room_speakers = reg.room_speakers
    BY Zenon, <1>1, <2>2 DEF Registry
  <2>4. UniqueAddresses(reg)' /\ RoomWithinLimit' /\ NoDuplicatePrompt'
    BY SMTT(60), <2>2, <2>3 DEF SafetyInv, UniqueAddresses, RoomWithinLimit, NoDuplicatePrompt, At
  <2>5. ChannelsAreLive'
    BY SMTT(60), <1>1, <2>2, <2>3 DEF SafetyInv, ChannelsAreLive, Registry, TypeInv, TypeOK
  <2>6. \A d \in ClientId : chan'[d] = "closed" => Forgotten(reg', d)
    BY SMTT(60), <1>1, <2>2, <2>3 DEF SafetyInv, Forgotten, TypeInv, TypeOK
  <2> QED
    BY Zenon, <2>1, <2>4, <2>5, <2>6 DEF SafetyInv
<1>6. ASSUME NEW c \in ClientId, NEW p \in Packet, Receive(c, p)
      PROVE  SafetyInv'
  <2>1. TypeInv'
    BY Zenon, <1>1, <1>6, ConnectionTypes
  <2>2. UNCHANGED <<reg, chan>>
    BY Zenon, <1>6, Zenon DEF Receive
  <2> DEFINE x == [IdleTask EXCEPT !.at = Entry[p.kind], !.pkt = p]
  <2>3. task' \in {task, [task EXCEPT ![c] = x]}
    BY Zenon, <1>6 DEF Receive
  <2>4. x.at = Entry[p.kind] /\ Entry[p.kind] # "MarkNotified"
    BY Zenon, EntryLabel DEF IdleTask
  <2> HIDE DEF x
  <2>5. NoDuplicatePrompt'
    BY Zenon, <1>1, <2>2, <2>3, <2>4 DEF SafetyInv, NoDuplicatePrompt, At, TypeInv, TypeOK
  <2> QED
    BY Zenon, <2>1, <2>2, <2>5 DEF SafetyInv, UniqueAddresses, ChannelsAreLive, RoomWithinLimit, Forgotten
<1>7. CASE Tick
  <2>1. TypeInv'
    BY Zenon, <1>1, <1>7, ConnectionTypes
  <2> QED
    BY Zenon, <1>7, <2>1 DEF Tick, SafetyInv, UniqueAddresses, ChannelsAreLive, RoomWithinLimit, Forgotten,
                      NoDuplicatePrompt, At
<1>8. CASE UNCHANGED vars
  BY Zenon, <1>8 DEF vars, SafetyInv, TypeInv, TypeOK, TaskInv, At, UniqueAddresses, ChannelsAreLive,
              RoomWithinLimit, Forgotten, NoDuplicatePrompt
<1> QED
  BY Zenon, <1>2, <1>3, <1>4, <1>5, <1>6, <1>7, <1>8 DEF Next

\* The inductive invariant behind the theorems below: the types, what a label
\* says of the rest of a task, and the invariants of the registry, which no
\* handler, callback or eviction disturbs.
THEOREM SafetyInvariant == Spec => []SafetyInv
  BY SafetyInit, SafetyStep, PTL DEF Spec

\* The registry, the event loops and the packets sent are always of the types
\* the code declares.
THEOREM TypeCorrect == Spec => []TypeOK
<1>1. SafetyInv => TypeOK
  BY Zenon DEF SafetyInv, TypeInv
<1> QED
  BY <1>1, SafetyInvariant, PTL

\* register_client keeps addresses unique: a full address resolves to one client
\* at most, whatever registrations, evictions and disconnections interleave.
THEOREM AddressesStayUnique == Spec => []AddressUnique
<1>1. SafetyInv => AddressUnique
  BY Zenon DEF SafetyInv, UniqueAddresses, AddressUnique, Registered
<1> QED
  BY <1>1, SafetyInvariant, PTL

\* No handler finds a closed channel in data_channels.
THEOREM ChannelsStayLive == Spec => []ChannelsAreLive
<1>1. SafetyInv => ChannelsAreLive
  BY Zenon DEF SafetyInv
<1> QED
  BY <1>1, SafetyInvariant, PTL

\* What OnClose removed of a client is never entered again.
THEOREM ClosedStaysForgotten == Spec => []ClosedIsForgotten
<1>1. SafetyInv => ClosedIsForgotten
  BY Zenon DEF SafetyInv, ClosedIsForgotten, Forgotten, Registered
<1> QED
  BY <1>1, SafetyInvariant, PTL

\* join_room never lets a room grow beyond its limit.
THEOREM RoomsStayWithinLimit == Spec => []RoomWithinLimit
<1>1. SafetyInv => RoomWithinLimit
  BY Zenon DEF SafetyInv
<1> QED
  BY <1>1, SafetyInvariant, PTL

\* The check and the mark of notified_requests are two acquisitions of the lock,
\* and still no caller is marked twice.
THEOREM PromptsAreNotRepeated == Spec => []NoDuplicatePrompt
<1>1. SafetyInv => NoDuplicatePrompt
  BY Zenon DEF SafetyInv
<1> QED
  BY <1>1, SafetyInvariant, PTL

=============================================================================
