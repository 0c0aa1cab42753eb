----------------------- MODULE DataChannelTypes_proofs -----------------------
(***************************************************************************)
(* Type correctness of DataChannel: every step of an event loop and of a   *)
(* connection leaves a well-formed registry, task and set of packets, for  *)
(* any number of clients, addresses, rooms and packets.                    *)
(***************************************************************************)
EXTENDS DataChannel, ClientRegistry_proofs

-----------------------------------------------------------------------------
\* What the label of an event loop says about the rest of its task.

AudioLabel == {"InRoom", "Find", "Stale", "Evict", "Rejected", "SameCall", "Mutual", "Full",
               "Approved", "Notified", "MarkNotified", "Prompt", "SetTarget"}

TargetLabel == AudioLabel \ {"InRoom", "Find"}

AnswerLabel == {"Approve", "Answer", "Refuse", "Clear", "TellFind", "TellChannel", "TellSend"}

\* A task x that an event loop may be in the middle of.
Consistent(x) ==
    /\ x.at = "Idle" => x = IdleTask
    /\ x.at # "Idle" => x.pkt \in Packet
    /\ x.at \in AudioLabel => x.pkt.kind = "Audio"
    /\ x.at \in {"Approve", "Answer"} => x.pkt.kind = "Accept"
    /\ x.at \in AnswerLabel => x.pkt.kind \in {"Accept", "Reject", "Hangup"}
    /\ x.at = "Clear" => x.pkt.kind = "Hangup"
    /\ x.at \in TargetLabel \cup {"TellChannel", "TellSend"} => x.tgt \in ClientId
    /\ x.at \in {"Members", "Send"} => x.body \in Body
    /\ x.mutual => x.at \in {"Approved", "SetTarget", "Notified", "MarkNotified", "Prompt"}

TaskInv ==
    \A c \in ClientId :
        /\ Consistent(task[c])
        /\ ~At(c, "Idle") => chan[c] = "open"
        /\ chan[c] # "none" => identity[c] # None

TypeInv == TypeOK /\ TaskInv

\* A packet's first label is one of its handler's.
LEMMA EntryLabel ==
    ASSUME NEW p \in Packet
    PROVE  /\ Entry[p.kind] \in Label
           /\ Consistent([IdleTask EXCEPT !.at = Entry[p.kind], !.pkt = p])
           /\ [IdleTask EXCEPT !.at = Entry[p.kind], !.pkt = p] \in Task
           /\ Entry[p.kind] \notin {"Idle", "MarkNotified", "SetTarget"} \cup TargetLabel
<1>1. p.kind \in PacketKind
  BY Zenon, PacketAssumption
<1>2. /\ Entry[p.kind] \in Label
      /\ Entry[p.kind] \notin {"Idle", "MarkNotified", "SetTarget", "Members", "Send",
                               "TellChannel", "TellSend", "TellFind", "Answer"} \cup TargetLabel
      /\ Entry[p.kind] \in AudioLabel => p.kind = "Audio"
      /\ Entry[p.kind] = "Approve" => p.kind = "Accept"
      /\ Entry[p.kind] = "Clear" => p.kind = "Hangup"
      /\ Entry[p.kind] \in AnswerLabel => p.kind \in {"Accept", "Reject", "Hangup"}
  <2>1. /\ Entry["Audio"] = "InRoom" /\ Entry["Accept"] = "Approve"
        /\ Entry["Reject"] = "Refuse" /\ Entry["Hangup"] = "Clear"
        /\ Entry["RoomJoin"] = "Join" /\ Entry["RoomLeave"] = "Leave"
        /\ Entry["RoomAudio"] = "Speak" /\ Entry["Pong"] = "Pong"
    BY Zenon DEF Entry
  <2>2. Entry[p.kind] \in Label
    BY Zenon, <1>1 DEF Label
  <2> QED
    BY Zenon, <1>1, <2>1, <2>2 DEF PacketKind, AudioLabel, TargetLabel, AnswerLabel
<1> DEFINE x == [IdleTask EXCEPT !.at = Entry[p.kind], !.pkt = p]
<1>3. /\ x.at = Entry[p.kind] /\ x.pkt = p
      /\ ~x.mutual
  BY Zenon DEF IdleTask
<1>4. x \in Task
  BY Zenon, <1>2 DEF Task, IdleTask
<1> HIDE DEF x
<1>5. Consistent(x)
  BY Zenon, <1>2, <1>3 DEF Consistent
<1> QED
  BY Zenon, <1>2, <1>4, <1>5 DEF x

\* The idle task is a task.
LEMMA IdleTaskType == IdleTask \in Task /\ Consistent(IdleTask)
  BY Zenon DEF IdleTask, Task, Label, Consistent, AudioLabel, TargetLabel, AnswerLabel

\* A step of the event loop of c that leaves a well-formed task, registry and
\* set of packets preserves the type invariant.
LEMMA LoopStepType ==
    ASSUME TypeInv, NEW c \in ClientId, NEW x \in Task, Consistent(x),
           chan[c] = "open",
           task' = [task EXCEPT ![c] = x],
           reg' \in Registry, out' \subseteq Message,
           consent' \in [Address -> [Key -> {"never", "given", "ended"}]],
           events' \in Nat,
           UNCHANGED <<now, identity, chan>>
    PROVE  TypeInv'
  BY Zenon DEF TypeInv, TypeOK, TaskInv, At

ConsentType == [Address -> [Key -> {"never", "given", "ended"}]]

\* What is known of the task of a loop that is handling a packet.
LEMMA Handling ==
    ASSUME TypeInv, NEW c \in ClientId, ~At(c, "Idle")
    PROVE  /\ chan[c] = "open" /\ identity[c] \in Address
           /\ task[c] \in Task /\ Consistent(task[c])
           /\ task[c].pkt \in Packet /\ task[c].pkt.key \in Key
           /\ task[c].pkt.kind \in PacketKind /\ task[c].pkt.payload \in Payload
           /\ reg \in Registry /\ consent \in ConsentType /\ events \in Nat
<1>1. chan[c] = "open" /\ identity[c] \in Address /\ task[c] \in Task /\ Consistent(task[c])
  BY Zenon DEF TypeInv, TypeOK, TaskInv
<1>2. task[c].pkt \in Packet
  BY Zenon, <1>1 DEF Consistent, At
<1>3. \A p \in Packet : p.key \in Key /\ p.kind \in PacketKind /\ p.payload \in Payload
  BY Zenon, PacketAssumption
<1> QED
  BY Zenon, <1>1, <1>2, <1>3 DEF TypeInv, TypeOK, ConsentType

\* A step that ends the handler of c preserves the type invariant.
LEMMA FinishType ==
    ASSUME TypeInv, NEW c \in ClientId, ~At(c, "Idle"), Finish(c),
           reg' \in Registry, out' \subseteq Message, UnchangedRest
    PROVE  TypeInv'
  BY Zenon, Handling, IdleTaskType, LoopStepType DEF Finish, UnchangedRest, ConsentType

\* A step that takes the handler of c to label l preserves the type invariant.
LEMMA GotoType ==
    ASSUME TypeInv, NEW c \in ClientId, ~At(c, "Idle"),
           NEW l \in Label \ {"Idle"}, Goto(c, l),
           l \in AudioLabel => task[c].pkt.kind = "Audio",
           l \in {"Approve", "Answer"} => task[c].pkt.kind = "Accept",
           l \in AnswerLabel => task[c].pkt.kind \in {"Accept", "Reject", "Hangup"},
           l = "Clear" => task[c].pkt.kind = "Hangup",
           l \in TargetLabel \cup {"TellChannel", "TellSend"} => task[c].tgt \in ClientId,
           l \in {"Members", "Send"} => task[c].body \in Body,
           task[c].mutual => l \in {"Approved", "SetTarget", "Notified", "MarkNotified", "Prompt"},
           reg' \in Registry, out' \subseteq Message, consent' \in ConsentType,
           UNCHANGED <<now, identity, chan, events>>
    PROVE  TypeInv'
<1> DEFINE x == [task[c] EXCEPT !.at = l]
<1>1. task[c] \in Task /\ task[c].pkt \in Packet /\ chan[c] = "open" /\ events \in Nat
  BY Zenon, Handling
<1>2. x \in Task
  BY Zenon, <1>1 DEF Task
<1>3. /\ x.at = l /\ x.pkt = task[c].pkt /\ x.tgt = task[c].tgt /\ x.body = task[c].body
      /\ x.mutual = task[c].mutual
  BY Zenon, <1>1 DEF Task
<1>4. task' = [task EXCEPT ![c] = x]
  BY Zenon DEF Goto
<1> HIDE DEF x
<1>5. Consistent(x)
  BY ZenonT(60), <1>1, <1>3 DEF Consistent
<1> QED
  BY Zenon, <1>1, <1>2, <1>4, <1>5, LoopStepType DEF ConsentType

\* The same for a step that only reads.
LEMMA ReadThenType ==
    ASSUME TypeInv, NEW c \in ClientId, ~At(c, "Idle"),
           NEW l \in Label \ {"Idle"}, ReadThen(c, l),
           l \in AudioLabel => task[c].pkt.kind = "Audio",
           l \notin AnswerLabel,
           l \in TargetLabel => task[c].tgt \in ClientId,
           l \notin {"Members", "Send"},
           task[c].mutual => l \in {"Approved", "SetTarget", "Notified", "MarkNotified", "Prompt"}
    PROVE  TypeInv'
  BY Zenon, Handling, GotoType DEF ReadThen, Quiet, UnchangedRest, AnswerLabel

\* A refusal preserves the type invariant.
LEMMA RefusalType ==
    ASSUME TypeInv, NEW c \in ClientId, ~At(c, "Idle"), Refusal(c)
    PROVE  TypeInv'
<1>1. out' \subseteq Message
  BY Handling DEF Refusal, Message
<1> QED
  BY Zenon, <1>1, Handling, FinishType DEF Refusal

\* So does an early return.
LEMMA ReturnType ==
    ASSUME TypeInv, NEW c \in ClientId, ~At(c, "Idle"), Return(c)
    PROVE  TypeInv'
  BY Zenon, Handling, FinishType DEF Return, Quiet

-----------------------------------------------------------------------------
\* The steps of handle_client_targeted_audio preserve the type invariant.
LEMMA AudioTypes ==
    ASSUME TypeInv, NEW c \in ClientId,
           \/ AudioInRoom(c) \/ AudioFind(c) \/ AudioStale(c) \/ AudioEvict(c)
           \/ AudioRejected(c) \/ AudioSameCall(c) \/ AudioMutual(c) \/ AudioFull(c)
           \/ AudioApproved(c) \/ AudioNotified(c) \/ AudioMarkNotified(c)
           \/ AudioPrompt(c) \/ AudioSetTarget(c)
    PROVE  TypeInv'
<1> USE DEF Label, AudioLabel, TargetLabel, AnswerLabel
<1>1. /\ ~At(c, "Idle")
      /\ AudioLabel = {"InRoom", "Find", "Stale", "Evict", "Rejected", "SameCall", "Mutual", "Full",
                       "Approved", "Notified", "MarkNotified", "Prompt", "SetTarget"}
      /\ task[c].at \in AudioLabel
  BY Zenon DEF At, AudioInRoom, AudioFind, AudioStale, AudioEvict, AudioRejected, AudioSameCall,
         AudioMutual, AudioFull, AudioApproved, AudioNotified, AudioMarkNotified, AudioPrompt,
         AudioSetTarget
<1>2. /\ chan[c] = "open" /\ identity[c] \in Address
      /\ task[c] \in Task /\ Consistent(task[c])
      /\ task[c].pkt \in Packet /\ task[c].pkt.key \in Key /\ task[c].pkt.payload \in Payload
      /\ reg \in Registry /\ consent \in ConsentType /\ events \in Nat
  BY Zenon, <1>1, Handling
<1>3. task[c].pkt.kind = "Audio"
  BY Zenon, <1>1, <1>2 DEF Consistent
<1>4. task[c].at \in TargetLabel => task[c].tgt \in ClientId
  BY Zenon, <1>2 DEF Consistent
<1>5. task[c].mutual => task[c].at \in {"Approved", "SetTarget", "Notified", "MarkNotified", "Prompt"}
  BY Zenon, <1>2 DEF Consistent
<1>6. "Speak" \in Label /\ "Find" \in Label /\ "Speak" # "Idle"
  <2>1. "RoomAudio" \in PacketKind /\ Entry["RoomAudio"] = "Speak"
    BY Zenon DEF PacketKind, Entry
  <2> QED
    BY Zenon, <2>1
<1>7. CASE AudioInRoom(c)
  BY Zenon, <1>1, <1>3, <1>5, <1>6, <1>7, ReadThenType DEF AudioInRoom, At
<1>8. CASE AudioFind(c)
  <2>1. CASE Refusal(c)
    BY Zenon, <1>1, <2>1, RefusalType
  <2>2. CASE ~Refusal(c)
    <3>1. PICK t \in Found(reg, task[c].pkt.key) :
            /\ task' = [task EXCEPT ![c].at = "Stale", ![c].tgt = t]
            /\ Quiet /\ UNCHANGED reg /\ UnchangedRest
      BY Zenon, <1>8, <2>2 DEF AudioFind
    <3> DEFINE x == [task[c] EXCEPT !.at = "Stale", !.tgt = t]
    <3>2. t \in ClientId
      BY Zenon DEF Found
    <3>3. x \in Task /\ x.at = "Stale" /\ x.tgt = t /\ x.pkt = task[c].pkt /\ x.mutual = task[c].mutual
      BY Zenon, <1>2, <3>2 DEF Task
    <3>4. task' = [task EXCEPT ![c] = x]
      BY Zenon, <3>1
    <3> HIDE DEF x
    <3>5. Consistent(x)
      BY Zenon, <1>2, <1>3, <1>5, <1>8, <3>2, <3>3 DEF Consistent, AudioFind, At
    <3> QED
      BY Zenon, <1>2, <3>1, <3>3, <3>4, <3>5, LoopStepType DEF Quiet, UnchangedRest, ConsentType
  <2> QED
    BY Zenon, <2>1, <2>2
<1>9. CASE AudioStale(c)
  BY Zenon, <1>1, <1>3, <1>4, <1>5, <1>9, ReadThenType, RefusalType DEF AudioStale, At
<1>10. CASE AudioEvict(c)
  <2>1. task[c].tgt \in ClientId
    BY Zenon, <1>4, <1>10 DEF AudioEvict, At
  <2>2. reg' \in Registry
    BY Zenon, <1>2, <1>10, <2>1, UnregisterClientForgets DEF AudioEvict
  <2>3. out' \subseteq Message
    BY SMTT(60), <1>2, <1>10 DEF AudioEvict, Message
  <2> QED
    BY Zenon, <1>1, <1>10, <2>2, <2>3, FinishType DEF AudioEvict
<1>11. CASE AudioRejected(c)
  BY Zenon, <1>1, <1>3, <1>4, <1>5, <1>11, ReadThenType, RefusalType DEF AudioRejected, At
<1>12. CASE AudioSameCall(c)
  <2> DEFINE s == IsClientInSameCall(reg, c, task[c].pkt.key)
             x == [task[c] EXCEPT !.at = "Mutual", !.same = s]
  <2>1. s \in BOOLEAN
    BY Zenon DEF IsClientInSameCall, IsClientInRoom, MatchesPrefix
  <2>2. task' = [task EXCEPT ![c] = x]
    BY Zenon, <1>12 DEF AudioSameCall
  <2> HIDE DEF s
  <2>3. x \in Task /\ x.at = "Mutual" /\ x.tgt = task[c].tgt /\ x.pkt = task[c].pkt
        /\ x.mutual = task[c].mutual
    BY ZenonT(60), <1>2, <2>1 DEF Task
  <2> HIDE DEF x
  <2>4. Consistent(x)
    BY Zenon, <1>2, <1>3, <1>4, <1>5, <1>12, <2>3 DEF Consistent, AudioSameCall, At
  <2> QED
    BY Zenon, <1>2, <1>12, <2>2, <2>3, <2>4, LoopStepType
    DEF AudioSameCall, Quiet, UnchangedRest, ConsentType
<1>13. CASE AudioMutual(c)
  <2> DEFINE m == MatchesPrefix(reg.targets[task[c].tgt], identity[c])
             l == IF task[c].same \/ m THEN "Approved" ELSE "Full"
             x == [task[c] EXCEPT !.at = l, !.mutual = m]
  <2>1. m \in BOOLEAN
    BY Zenon DEF MatchesPrefix
  <2>2. task' = [task EXCEPT ![c] = x]
    BY Zenon, <1>13 DEF AudioMutual
  <2>3. l \in {"Approved", "Full"} /\ (m => l = "Approved")
    BY Zenon
  <2> HIDE DEF m, l
  <2>4. /\ x \in Task /\ x.at = l /\ x.tgt = task[c].tgt /\ x.pkt = task[c].pkt
        /\ x.mutual => m
    <3>1. x \in Task /\ x.at = l /\ x.tgt = task[c].tgt /\ x.pkt = task[c].pkt
      BY ZenonT(60), <1>2, <2>1, <2>3 DEF Task
    <3>2. x.mutual => m
      BY Zenon, <1>2, <2>1 DEF Task
    <3> QED
      BY Zenon, <3>1, <3>2
  <2> HIDE DEF x
  <2>5. Consistent(x)
    BY Zenon, <1>2, <1>3, <1>4, <1>13, <2>3, <2>4 DEF Consistent, AudioMutual, At
  <2> QED
    BY Zenon, <1>2, <1>13, <2>2, <2>4, <2>5, LoopStepType
    DEF AudioMutual, Quiet, UnchangedRest, ConsentType
<1>14. CASE AudioFull(c)
  BY Zenon, <1>1, <1>3, <1>4, <1>5, <1>14, ReadThenType, RefusalType DEF AudioFull, At
<1>15. CASE AudioApproved(c)
  BY Zenon, <1>1, <1>3, <1>4, <1>5, <1>15, ReadThenType DEF AudioApproved, At
<1>16. CASE AudioNotified(c)
  BY Zenon, <1>1, <1>3, <1>4, <1>5, <1>16, ReadThenType, ReturnType DEF AudioNotified, At
<1>17. CASE AudioMarkNotified(c)
  <2>1. reg' \in Registry
    BY ZenonT(60), <1>2, <1>4, <1>17 DEF AudioMarkNotified, At, MarkNotified, Registry
  <2> QED
    BY Zenon, <1>1, <1>2, <1>3, <1>4, <1>17, <2>1, GotoType
    DEF AudioMarkNotified, At, Quiet, UnchangedRest
<1>18. CASE AudioPrompt(c)
  <2>1. out' \subseteq Message
    BY <1>2, <1>4, <1>18 DEF AudioPrompt, At, Message
  <2> QED
    BY Zenon, <1>1, <1>2, <1>18, <2>1, FinishType DEF AudioPrompt
<1>19. CASE AudioSetTarget(c)
  <2>1. reg' \in Registry
    BY Zenon, <1>2, <1>19 DEF AudioSetTarget, Registry
  <2>2. out' \subseteq Message
    BY <1>2, <1>19 DEF AudioSetTarget, Message, Receivers
  <2> QED
    BY Zenon, <1>1, <1>19, <2>1, <2>2, FinishType DEF AudioSetTarget
<1> QED
  BY Zenon, <1>7, <1>8, <1>9, <1>10, <1>11, <1>12, <1>13, <1>14, <1>15, <1>16, <1>17, <1>18, <1>19

\* The steps of the handlers of Accept, Reject and Hangup preserve the type
\* invariant.
LEMMA AnswerTypes ==
    ASSUME TypeInv, NEW c \in ClientId,
           \/ AcceptApprove(c) \/ AcceptAnswer(c) \/ RejectRefuse(c) \/ HangupClear(c)
           \/ TellFind(c) \/ TellChannel(c) \/ TellSend(c)
    PROVE  TypeInv'
<1> USE DEF Label, AudioLabel, TargetLabel, AnswerLabel
<1>1. ~At(c, "Idle") /\ task[c].at \in AnswerLabel
  BY Zenon DEF At, AcceptApprove, AcceptAnswer, RejectRefuse, HangupClear, TellFind, TellChannel,
         TellSend
<1>2. /\ chan[c] = "open" /\ identity[c] \in Address
      /\ task[c] \in Task /\ Consistent(task[c])
      /\ task[c].pkt \in Packet /\ task[c].pkt.key \in Key
      /\ reg \in Registry /\ consent \in ConsentType /\ events \in Nat
  BY Zenon, <1>1, Handling
<1>3. /\ task[c].pkt.kind \in {"Accept", "Reject", "Hangup"}
      /\ task[c].at \in {"Approve", "Answer"} => task[c].pkt.kind = "Accept"
      /\ task[c].at \in {"TellChannel", "TellSend"} => task[c].tgt \in ClientId
      /\ ~task[c].mutual
  BY Zenon, <1>1, <1>2 DEF Consistent
<1>4. CASE AcceptApprove(c)
  <2>1. reg' \in Registry
    BY ZenonT(60), <1>2, <1>4 DEF AcceptApprove, MarkCallApproved, Registry
  <2> QED
    BY Zenon, <1>1, <1>2, <1>3, <1>4, <2>1, GotoType DEF AcceptApprove, At, Quiet, UnchangedRest
<1>5. CASE AcceptAnswer(c)
  <2> DEFINE old == reg.targets[c]
             new == IF old = None THEN task[c].pkt.key ELSE old
             targets == [reg.targets EXCEPT ![c] = new]
  <2>1. targets \in [ClientId -> Key \cup {None}]
    BY Zenon, <1>2 DEF Registry
  <2>2. reg' = [reg EXCEPT !.targets = targets]
    BY Zenon, <1>5 DEF AcceptAnswer
  <2> HIDE DEF targets
  <2>3. reg' \in Registry
    BY Zenon, <1>2, <2>1, <2>2 DEF Registry
  <2> QED
    BY Zenon, <1>1, <1>2, <1>3, <1>5, <2>3, GotoType DEF AcceptAnswer, At, Quiet, UnchangedRest
<1>6. CASE RejectRefuse(c)
  <2>1. reg' \in Registry
    BY ZenonT(60), <1>2, <1>6 DEF RejectRefuse, MarkCallRejected, Registry
  <2> QED
    BY Zenon, <1>1, <1>2, <1>3, <1>6, <2>1, GotoType DEF RejectRefuse, At, Quiet, UnchangedRest
<1>7. CASE HangupClear(c)
  <2>1. reg' \in Registry
    BY Zenon, <1>2, <1>7, ClearCallSessionType DEF HangupClear
  <2>2. consent' \in ConsentType
    BY Zenon, <1>2, <1>7 DEF HangupClear, ConsentType
  <2> QED
    BY Zenon, <1>1, <1>2, <1>3, <1>7, <2>1, <2>2, GotoType DEF HangupClear, At, Quiet
<1>8. CASE TellFind(c)
  <2>1. CASE Return(c)
    BY Zenon, <1>1, <2>1, ReturnType
  <2>2. CASE ~Return(c)
    <3>1. PICK t \in Found(reg, task[c].pkt.key) :
            /\ task' = [task EXCEPT ![c].at = "TellChannel", ![c].tgt = t]
            /\ Quiet /\ UNCHANGED reg /\ UnchangedRest
      BY Zenon, <1>8, <2>2 DEF TellFind
    <3> DEFINE x == [task[c] EXCEPT !.at = "TellChannel", !.tgt = t]
    <3>2. t \in ClientId
      BY Zenon DEF Found
    <3>3. x \in Task /\ x.at = "TellChannel" /\ x.tgt = t /\ x.pkt = task[c].pkt /\ x.mutual = task[c].mutual
      BY Zenon, <1>2, <3>2 DEF Task
    <3>4. task' = [task EXCEPT ![c] = x]
      BY Zenon, <3>1
    <3> HIDE DEF x
    <3>5. Consistent(x)
      BY Zenon, <1>2, <1>3, <3>2, <3>3 DEF Consistent
    <3> QED
      BY Zenon, <1>2, <3>1, <3>3, <3>4, <3>5, LoopStepType DEF Quiet, UnchangedRest, ConsentType
  <2> QED
    BY Zenon, <2>1, <2>2
<1>9. CASE TellSend(c)
  <2>1. Notification[task[c].pkt.kind] \in {"CallAccepted", "CallRejected", "CallEnded"}
    BY SMTT(60), <1>3 DEF Notification
  <2>2. reg.addresses[c] \in Address \cup {None} /\ task[c].tgt \in ClientId
    BY Zenon, <1>2, <1>3, <1>9 DEF Registry, TellSend, At
  <2>3. out' \subseteq Message
    BY SMTT(60), <1>9, <2>1, <2>2 DEF TellSend, Message
  <2> QED
    BY Zenon, <1>1, <1>2, <1>9, <2>3, FinishType DEF TellSend
<1>10. CASE TellChannel(c)
  <2>1. CASE Return(c)
    BY Zenon, <1>1, <2>1, ReturnType
  <2>2. CASE ~Return(c)
    BY Zenon, <1>1, <1>2, <1>3, <1>10, <2>2, GotoType
       DEF TellChannel, ReadThen, At, Quiet, UnchangedRest
  <2> QED
    BY Zenon, <2>1, <2>2
<1> QED
  BY Zenon, <1>4, <1>5, <1>6, <1>7, <1>8, <1>9, <1>10

\* A step that goes on to send b to the members of a room preserves the type
\* invariant.
LEMMA AnnounceType ==
    ASSUME TypeInv, NEW c \in ClientId, ~At(c, "Idle"), task[c].at \notin AudioLabel,
           NEW b \in Body, NEW n \in TopList \cup {None}, Announce(c, b, n),
           reg' \in Registry, out' \subseteq Message, UnchangedRest
    PROVE  TypeInv'
<1> DEFINE x == [task[c] EXCEPT !.at = "Members", !.body = b, !.notice = n]
<1>1. /\ task[c] \in Task /\ Consistent(task[c]) /\ task[c].pkt \in Packet /\ chan[c] = "open"
      /\ consent \in ConsentType /\ events \in Nat
  BY Zenon, Handling
<1>2. x \in Task /\ x.at = "Members" /\ x.body = b /\ x.pkt = task[c].pkt /\ x.mutual = task[c].mutual
  BY Zenon, <1>1 DEF Task, Label
<1>3. task' = [task EXCEPT ![c] = x]
  BY Zenon DEF Announce
<1> HIDE DEF x
<1>4. Consistent(x)
  BY Zenon, <1>1, <1>2 DEF Consistent, AudioLabel, TargetLabel, AnswerLabel
<1> QED
  BY Zenon, <1>1, <1>2, <1>3, <1>4, LoopStepType DEF UnchangedRest, ConsentType

\* The rooms a key resolves to are keys.
LEMMA RoomKeysType ==
    ASSUME NEW r \in Registry, NEW k \in Key
    PROVE  RoomKeys(r, k) \subseteq Key
  BY Zenon DEF RoomKeys, Registry

\* The steps of the room handlers and of Pong preserve the type invariant.
LEMMA RoomTypes ==
    ASSUME TypeInv, NEW c \in ClientId,
           \/ RoomJoin(c) \/ RoomLeave(c) \/ RoomSpeak(c)
           \/ BroadcastMembers(c) \/ BroadcastSend(c) \/ PongReceived(c)
    PROVE  TypeInv'
<1>1. ~At(c, "Idle") /\ task[c].at \notin AudioLabel /\ task[c].at \notin AnswerLabel
  BY Zenon DEF At, RoomJoin, RoomLeave, RoomSpeak, BroadcastMembers, BroadcastSend, PongReceived,
         AudioLabel, AnswerLabel
<1>2. /\ chan[c] = "open" /\ identity[c] \in Address
      /\ task[c] \in Task /\ Consistent(task[c])
      /\ task[c].pkt \in Packet /\ task[c].pkt.key \in Key /\ task[c].pkt.payload \in Payload
      /\ reg \in Registry /\ consent \in ConsentType /\ events \in Nat
  BY Zenon, <1>1, Handling
<1>3. RoomKeys(reg, task[c].pkt.key) \subseteq Key
  BY Zenon, <1>2, RoomKeysType
<1>4. \A r \in Registry, k \in Key : <<"RoomState", Cardinality(r.room_members[k])>> \in Body
  <2> SUFFICES ASSUME NEW r \in Registry, NEW k \in Key
               PROVE  Cardinality(r.room_members[k]) \in Nat
    BY Zenon DEF Body
  <2>1. r.room_members[k] \subseteq ClientId
    BY Zenon DEF Registry
  <2> QED
    BY Zenon, <2>1, LimitsAssumption, FS_Subset, FS_CardinalityType
<1>5. Quiet => out' \subseteq Message
  BY Zenon DEF Quiet
<1>6. CASE RoomJoin(c)
  <2>1. reg' \in Registry
    BY Zenon, <1>2, <1>6, JoinRoomWithinLimit DEF RoomJoin
  <2> QED
    BY Zenon, <1>1, <1>2, <1>4, <1>5, <1>6, <2>1, AnnounceType DEF RoomJoin
<1>7. CASE RoomLeave(c)
  <2>1. PICK k \in RoomKeys(reg, task[c].pkt.key) :
           /\ reg' = LeaveRoom(reg, c, k)
           /\ Announce(c, <<"RoomState", Cardinality(reg'.room_members[k])>>, None)
    BY Zenon, <1>7 DEF RoomLeave
  <2>2. reg' \in Registry /\ k \in Key
    BY Zenon, <1>2, <1>3, <2>1, LeaveRoomForgets
  <2> QED
    BY Zenon, <1>1, <1>2, <1>4, <1>5, <1>7, <2>1, <2>2, AnnounceType DEF RoomLeave
<1>8. CASE RoomSpeak(c)
  <2> DEFINE energy == EnergyOf[task[c].pkt.payload]
  <2>1. PICK k \in RoomKeys(reg, task[c].pkt.key) :
          \E top \in TopSets(SpeakersAfter(reg, c, k, energy, now)) :
          \E list \in Rankings(reg, SpeakersAfter(reg, c, k, energy, now), top) :
               /\ reg' = UpdateSpeakers(reg, k, SpeakersAfter(reg, c, k, energy, now), list)
               /\ IF c \notin top THEN Finish(c)
                  ELSE Announce(c, <<"RoomAudio", c>>,
                                IF SpeakerListChanged(reg, k, list) /\ list # << >>
                                  THEN list ELSE None)
    BY Zenon, <1>8 DEF RoomSpeak
  <2> DEFINE speakers == SpeakersAfter(reg, c, k, energy, now)
  <2>top. PICK top \in TopSets(speakers) : \E list \in Rankings(reg, speakers, top) :
               /\ reg' = UpdateSpeakers(reg, k, speakers, list)
               /\ IF c \notin top THEN Finish(c)
                  ELSE Announce(c, <<"RoomAudio", c>>,
                                IF SpeakerListChanged(reg, k, list) /\ list # << >>
                                  THEN list ELSE None)
    BY Zenon, <2>1
  <2>2. PICK list \in Rankings(reg, speakers, top) :
               /\ reg' = UpdateSpeakers(reg, k, speakers, list)
               /\ IF c \notin top THEN Finish(c)
                  ELSE Announce(c, <<"RoomAudio", c>>,
                                IF SpeakerListChanged(reg, k, list) /\ list # << >>
                                  THEN list ELSE None)
    BY Zenon, <2>top
  <2>3. list \in TopList
    BY Zenon, <2>2, RankingsType
  <2>4. energy \in Nat /\ now \in Nat /\ k \in Key
    BY Zenon, <1>2, <1>3, PacketAssumption DEF TypeInv, TypeOK
  <2> HIDE DEF energy
  <2>5. reg' \in Registry
    BY Zenon, <1>2, <2>2, <2>3, <2>4, UpdateSpeakersType
  <2> HIDE DEF speakers
  <2>6. <<"RoomAudio", c>> \in Body
    BY Zenon DEF Body
  <2>7. CASE c \notin top
    BY Zenon, <1>1, <1>5, <1>8, <2>2, <2>5, <2>7, FinishType DEF RoomSpeak
  <2>8. CASE c \in top
    <3> DEFINE n == IF SpeakerListChanged(reg, k, list) /\ list # << >> THEN list ELSE None
    <3>1. n \in TopList \cup {None}
      BY Zenon, <2>3
    <3>2. Announce(c, <<"RoomAudio", c>>, n)
      BY Zenon, <2>2, <2>8
    <3> HIDE DEF n
    <3> QED
      BY Zenon, <1>1, <1>5, <1>8, <2>5, <2>6, <3>1, <3>2, AnnounceType DEF RoomSpeak
  <2> QED
    BY Zenon, <2>7, <2>8
<1>9. CASE BroadcastMembers(c)
  <2>1. PICK k \in RoomKeys(reg, task[c].pkt.key) :
          task' = [task EXCEPT ![c].at = "Send",
                               ![c].todo = reg.room_members[k]
                                   \ (IF task[c].body[1] = "RoomAudio" THEN {c} ELSE {})]
    BY Zenon, <1>9 DEF BroadcastMembers
  <2> DEFINE todo == reg.room_members[k] \ (IF task[c].body[1] = "RoomAudio" THEN {c} ELSE {})
             x == [task[c] EXCEPT !.at = "Send", !.todo = todo]
  <2>2. todo \in SUBSET ClientId
    BY Zenon, <1>2, <1>3 DEF Registry
  <2>3. task' = [task EXCEPT ![c] = x]
    BY Zenon, <2>1
  <2> HIDE DEF todo
  <2>4. /\ x \in Task /\ x.at = "Send" /\ x.body = task[c].body /\ x.pkt = task[c].pkt
        /\ x.mutual = task[c].mutual
    BY Zenon, <1>2, <2>2 DEF Task, Label
  <2> HIDE DEF x
  <2>5. Consistent(x)
    BY Zenon, <1>1, <1>2, <1>9, <2>4
    DEF BroadcastMembers, At, Consistent, AudioLabel, TargetLabel, AnswerLabel
  <2> QED
    BY Zenon, <1>2, <1>5, <1>9, <2>3, <2>4, <2>5, LoopStepType DEF BroadcastMembers, UnchangedRest, ConsentType
<1>10. CASE BroadcastSend(c)
  <2>1. task[c].body \in Body /\ task[c].todo \subseteq ClientId
        /\ task[c].notice \in TopList \cup {None}
    BY Zenon, <1>2, <1>10 DEF BroadcastSend, At, Consistent, Task
  <2>2. CASE \E m \in task[c].todo :
               /\ task' = [task EXCEPT ![c].todo = @ \ {m}]
               /\ out' = IF m \in reg.data_channels
                           THEN {<<task[c].body[1], m, task[c].body[2]>>} ELSE {}
    <3>1. PICK m \in task[c].todo :
               /\ task' = [task EXCEPT ![c].todo = @ \ {m}]
               /\ out' = IF m \in reg.data_channels
                           THEN {<<task[c].body[1], m, task[c].body[2]>>} ELSE {}
      BY Zenon, <2>2
    <3> DEFINE x == [task[c] EXCEPT !.todo = @ \ {m}]
    <3>2. x \in Task /\ x.at = "Send" /\ x.body = task[c].body /\ x.pkt = task[c].pkt
          /\ x.mutual = task[c].mutual
      BY Zenon, <1>2, <1>10 DEF Task, BroadcastSend, At
    <3>3. task' = [task EXCEPT ![c] = x]
      BY Zenon, <3>1
    <3> HIDE DEF x
    <3>4. Consistent(x)
      BY Zenon, <1>1, <1>2, <2>1, <3>2 DEF Consistent, AudioLabel, TargetLabel, AnswerLabel
    <3>5. <<task[c].body[1], m, task[c].body[2]>> \in Message
      BY Zenon, <2>1 DEF Body, Message
    <3> QED
      BY ZenonT(60), <1>2, <1>10, <3>1, <3>2, <3>3, <3>4, <3>5, LoopStepType
      DEF BroadcastSend, UnchangedRest, ConsentType
  <2>3. CASE /\ task[c].todo = {} /\ task[c].notice # None
             /\ Announce(c, <<"ActiveSpeakers", task[c].notice>>, None) /\ Quiet
    <3>1. <<"ActiveSpeakers", task[c].notice>> \in Body
      BY Zenon, <2>1, <2>3 DEF Body
    <3> QED
      BY Zenon, <1>1, <1>2, <1>5, <1>10, <2>3, <3>1, AnnounceType DEF BroadcastSend
  <2>4. CASE Finish(c) /\ Quiet
    BY Zenon, <1>1, <1>2, <1>5, <1>10, <2>4, FinishType DEF BroadcastSend
  <2> QED
    BY Zenon, <1>10, <2>2, <2>3, <2>4 DEF BroadcastSend
<1>11. CASE PongReceived(c)
  <2>1. reg' \in Registry
    BY Zenon, <1>2, <1>11 DEF PongReceived, Registry, TypeInv, TypeOK
  <2> QED
    BY Zenon, <1>1, <1>5, <1>11, <2>1, FinishType DEF PongReceived
<1> QED
  BY Zenon, <1>6, <1>7, <1>8, <1>9, <1>10, <1>11

\* The steps of an event loop preserve the type invariant.
LEMMA HandleTypes ==
    ASSUME TypeInv, NEW c \in ClientId, Handle(c)
    PROVE  TypeInv'
  BY Zenon, AudioTypes, AnswerTypes, RoomTypes DEF Handle

\* So do the steps of connections, provided that no address is held twice.
LEMMA ConnectionTypes ==
    ASSUME TypeInv, UniqueAddresses(reg),
           \/ \E c \in ClientId : \E a \in Address : Connect(c, a)
           \/ \E c \in ClientId : OpenChannel(c) \/ Disconnect(c) \/ CloseChannel(c)
           \/ \E c \in ClientId : \E p \in Packet : Receive(c, p)
           \/ Tick
    PROVE  TypeInv'
<1> USE DEF TypeInv
<1>1. ASSUME NEW c \in ClientId, NEW a \in Address, Connect(c, a)
      PROVE  TypeInv'
  <2>1. reg' \in Registry
    BY Zenon, <1>1, RegisterClientEvicts DEF Connect, TypeOK
  <2> QED
    BY Zenon, <1>1, <2>1, KeysAssumption DEF Connect, TypeOK, TaskInv, Quiet, At, Key
<1>2. ASSUME NEW c \in ClientId, OpenChannel(c)
      PROVE  TypeInv'
  <2>1. reg' \in Registry
    BY Zenon, <1>2 DEF OpenChannel, TypeOK, Registry
  <2>2. identity[c] \in Address
    BY Zenon, <1>2 DEF OpenChannel, TypeOK
  <2>3. out' \subseteq Message
    BY <1>2, <2>2 DEF OpenChannel, Message
  <2> QED
    BY Zenon, <1>2, <2>1, <2>3 DEF OpenChannel, TypeOK, TaskInv, At
<1>3. ASSUME NEW c \in ClientId, Disconnect(c)
      PROVE  TypeInv'
  <2>1. reg' \in Registry
    BY Zenon, <1>3, UnregisterClientForgets DEF Disconnect, TypeOK
  <2> QED
    BY <1>3, <2>1 DEF Disconnect, TypeOK, TaskInv, At, Event, Quiet
<1>4. ASSUME NEW c \in ClientId, CloseChannel(c)
      PROVE  TypeInv'
  <2>1. reg' \in Registry
    BY Zenon, <1>4, UnregisterClientForgets DEF CloseChannel, TypeOK
  <2> QED
    BY SMTT(60), <1>4, <2>1 DEF CloseChannel, TypeOK, TaskInv, At, Event, Quiet
<1>5. ASSUME NEW c \in ClientId, NEW p \in Packet, Receive(c, p)
      PROVE  TypeInv'
  <2> DEFINE x == [IdleTask EXCEPT !.at = Entry[p.kind], !.pkt = p]
  <2>1. identity[c] \in Address /\ p.key \in Key
    BY Zenon, <1>5, PacketAssumption DEF Receive, TypeOK, TaskInv
  <2>2. events' \in Nat /\ out' \subseteq Message /\ reg' \in Registry
        /\ UNCHANGED <<now, identity, chan>> /\ chan[c] = "open"
    <3>1. chan[c] = "open" /\ Event /\ Quiet /\ UNCHANGED <<reg, now, identity, chan>>
      BY Zenon, <1>5 DEF Receive
    <3> QED
      BY <3>1 DEF TypeOK, Event, Quiet
  <2>3. x \in Task /\ Consistent(x)
    BY Zenon, EntryLabel
  <2> HIDE DEF x
  <2>4. CASE UNCHANGED <<task, consent>>
    BY Zenon, <2>2, <2>4 DEF TypeOK, TaskInv, At
  <2>5. CASE /\ task' = [task EXCEPT ![c] = x]
             /\ consent' = IF p.kind \in {"Audio", "Accept"}
                             THEN [consent EXCEPT ![identity[c]][p.key] = "given"] ELSE consent
    <3>1. consent' \in ConsentType
      BY Zenon, <2>1, <2>5 DEF TypeOK, ConsentType
    <3> QED
      BY Zenon, <2>2, <2>3, <2>5, <3>1, LoopStepType DEF ConsentType
  <2> QED
    BY Zenon, <1>5, <2>4, <2>5 DEF Receive, x
<1>6. CASE Tick
  BY <1>6 DEF Tick, TypeOK, TaskInv, At, Quiet
<1> QED
  BY Zenon, <1>1, <1>2, <1>3, <1>4, <1>5, <1>6

=============================================================================
