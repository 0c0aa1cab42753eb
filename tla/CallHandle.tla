----------------------------- MODULE CallHandle -----------------------------
(***************************************************************************)
(* A call or room handle of the C interface (wpapi/src/ffi/session.rs):    *)
(* the worker thread with its runtime, the tasks that call back into the   *)
(* host program, the loop that dispatches packets, and the host's calls.   *)
(*                                                                         *)
(* The host calls free from a thread of its own, never inside its callback *)
(* (free waits for the callback to return).  Null pointers, strings, mute  *)
(* and level accessors and the configuration setters are left out.         *)
(***************************************************************************)
EXTENDS Naturals, Sequences

CONSTANTS
  QueueSize,   \* call requests the incoming channel holds (16)
  Backlog,     \* notifications the broadcast channel keeps (128)
  MaxRequests, \* bound: call requests
  MaxNotices,  \* bound: notifications
  MaxCalls     \* bound: host calls

ASSUME BacklogAssumption ==
  {QueueSize, Backlog} \subseteq Nat \ {0} /\ {MaxRequests, MaxNotices, MaxCalls} \subseteq Nat

VARIABLES
  kind,     \* "call" or "room": the function that made the handle
  callback, \* has the configuration an event callback?
  host,     \* "idle", "joining" inside free, "done" when the handle is gone
  stop,     \* has stop_tx been taken and used?
  worker,   \* stage of the worker thread
  held,     \* the request the dispatch loop is sending on, 0 for none
  incoming, \* the channel to the incoming task
  pending,  \* pending_call_response: the request it answers, 0 for none
  answer,   \* request -> its answer
  prompter, \* the incoming task: "absent", "recv", "call", "callback"
  notices,  \* unread notifications of the broadcast channel
  lagged,   \* has an unread notification been overwritten?
  notifier, \* the event task: "absent", "recv", "callback", "ended"
  emitted,  \* notifications emitted since the task subscribed
  told,     \* notifications the host was called with
  requests, hostCalls

hvars == <<kind, callback, host, stop, worker, held, incoming, pending, answer,
          prompter, notices, lagged, notifier, emitted, told, requests, hostCalls>>
fixed == <<kind, callback>>
prompts == <<held, incoming, pending, answer, prompter, requests>>
notes == <<notices, lagged, notifier, emitted, told>>

\* wpapi_call_start, wpapi_room_call_start: the thread is spawned, the handle
\* returned.
HandleInit ==
  /\ kind \in {"call", "room"} /\ callback \in BOOLEAN
  /\ host = "idle" /\ stop = FALSE /\ worker = "spawned"
  /\ held = 0 /\ incoming = <<>> /\ pending = 0
  /\ prompter = "absent" /\ notifier = "absent"
  /\ answer = [r \in 1 .. MaxRequests |-> "none"]
  /\ notices = <<>> /\ lagged = FALSE /\ emitted = 0 /\ told = <<>>
  /\ requests = 0 /\ hostCalls = 0

------------------------------------------------------------------------------
(* The worker thread *)

\* The runtime cannot be built.
NoRuntime ==
  /\ worker = "spawned"
  /\ worker' = "exited"
  /\ UNCHANGED <<fixed, host, stop, prompts, notes, hostCalls>>

\* wpapi_call_start's thread: both tasks, if there is a callback, and the call.
BeginCall ==
  /\ worker = "spawned" /\ kind = "call"
  /\ worker' = "connecting"
  /\ prompter' = IF callback THEN "recv" ELSE "absent"
  /\ notifier' = IF callback THEN "recv" ELSE "absent"
  /\ UNCHANGED <<fixed, host, stop, held, incoming, pending, answer, requests,
                 notices, lagged, emitted, told, hostCalls>>

\* wpapi_room_call_start's thread: no incoming calls.
BeginRoom ==
  /\ worker = "spawned" /\ kind = "room"
  /\ worker' = "connecting"
  /\ notifier' = IF callback THEN "recv" ELSE "absent"
  /\ UNCHANGED <<fixed, host, stop, prompts, notices, lagged, emitted, told, hostCalls>>

\* The handshake is done, or fails and ends the call.
Connect ==
  /\ worker = "connecting"
  /\ worker' \in {"running", "returned"}
  /\ UNCHANGED <<fixed, host, stop, prompts, notes, hostCalls>>

\* The audio engine does not start, or the process gets an interrupt signal.
EndsItself ==
  /\ worker = "running"
  /\ worker' = "returned"
  /\ UNCHANGED <<fixed, host, stop, prompts, notes, hostCalls>>

\* Mutant: a stop that came before the call was running is not seen.
StopSeenLate ==
  /\ worker = "running" /\ stop /\ emitted > 0
  /\ worker' = "returned"
  /\ UNCHANGED <<fixed, host, stop, prompts, notes, hostCalls>>

\* The stop signal, which waits in its channel until the call looks at it.
StopSeen ==
  /\ worker = "running" /\ stop
  /\ worker' = "returned"
  /\ UNCHANGED <<fixed, host, stop, prompts, notes, hostCalls>>

\* The runtime goes down: tasks that wait start nothing more.
DropRuntime ==
  /\ worker = "returned"
  /\ worker' = "dropping"
  /\ UNCHANGED <<fixed, host, stop, prompts, notes, hostCalls>>

\* It has waited for tasks on their way into or inside a callback, and has
\* dropped the others with what they hold; the thread ends.
Shutdown ==
  /\ worker = "dropping"
  /\ prompter \in {"absent", "recv"} /\ notifier # "callback"
  /\ worker' = "exited" /\ held' = 0 /\ incoming' = <<>>
  /\ answer' = [r \in DOMAIN answer |-> IF answer[r] = "waiting" THEN "dropped" ELSE answer[r]]
  /\ UNCHANGED <<fixed, host, stop, pending, prompter, requests, notes, hostCalls>>

------------------------------------------------------------------------------
(* The dispatch loop and the two tasks that call the host *)

\* Tasks take steps between the start of the runtime and its end, and packets
\* come once the channel is open; only call handles dispatch call packets.
Alive == worker \in {"connecting", "running", "returned"}
Dispatching == kind = "call" /\ worker \in {"running", "returned"} /\ held = 0

\* A CallRequest that is not accepted at once.
CallRequest ==
  /\ Dispatching /\ requests < MaxRequests
  /\ requests' = requests + 1 /\ held' = requests + 1
  /\ answer' = [answer EXCEPT ![requests + 1] = "waiting"]
  /\ UNCHANGED <<fixed, host, stop, worker, incoming, pending, prompter, notes, hostCalls>>

\* Its prompt is sent when the channel has room; the loop waits until then.
SendPrompt ==
  /\ Alive /\ held # 0 /\ Len(incoming) < QueueSize
  /\ incoming' = Append(incoming, held) /\ held' = 0
  /\ UNCHANGED <<fixed, host, stop, worker, pending, answer, prompter, requests,
                 notes, hostCalls>>

\* Mutant: the next prompt waits for the host's answer to the last.
SetPendingInTurn ==
  /\ Alive /\ prompter = "recv" /\ incoming # <<>> /\ pending = 0
  /\ incoming' = Tail(incoming)
  /\ pending' = Head(incoming)
  /\ answer' = IF pending = 0 THEN answer ELSE [answer EXCEPT ![pending] = "dropped"]
  /\ prompter' = "call"
  /\ UNCHANGED <<fixed, host, stop, worker, held, requests, notes, hostCalls>>

\* set_pending_call_response: the sender it replaces is dropped.
SetPending ==
  /\ Alive /\ prompter = "recv" /\ incoming # <<>>
  /\ incoming' = Tail(incoming)
  /\ pending' = Head(incoming)
  /\ answer' = IF pending = 0 THEN answer ELSE [answer EXCEPT ![pending] = "dropped"]
  /\ prompter' = "call"
  /\ UNCHANGED <<fixed, host, stop, worker, held, requests, notes, hostCalls>>

\* The host's callback for an incoming call starts, and returns.
AskHost ==
  /\ \/ prompter = "call" /\ prompter' = "callback"
     \/ prompter = "callback" /\ prompter' = "recv"
  /\ UNCHANGED <<fixed, host, stop, worker, held, incoming, pending, answer, requests,
                 notes, hostCalls>>

\* notify_call_event: a full broadcast channel loses its oldest entry.
NotifyCallEvent ==
  /\ Dispatching /\ emitted < MaxNotices
  /\ emitted' = emitted + 1
  /\ IF notifier = "absent" THEN UNCHANGED <<notices, lagged>>
     ELSE IF Len(notices) < Backlog
       THEN notices' = Append(notices, emitted + 1) /\ UNCHANGED lagged
       ELSE notices' = Append(Tail(notices), emitted + 1) /\ lagged' = TRUE
  /\ UNCHANGED <<fixed, host, stop, worker, prompts, notifier, told, hostCalls>>

\* Mutant: the loop goes on after a Lagged error.
TellHostOn ==
  /\ Alive /\ notifier = "recv" /\ notices # <<>>
  /\ notifier' = "callback"
  /\ told' = Append(told, Head(notices)) /\ notices' = Tail(notices)
  /\ lagged' = FALSE
  /\ UNCHANGED <<fixed, host, stop, worker, prompts, emitted, hostCalls>>

\* recv: the next notification starts a callback; a Lagged error ends the loop.
TellHost ==
  /\ Alive /\ notifier = "recv" /\ notices # <<>>
  /\ IF lagged
       THEN notifier' = "ended" /\ UNCHANGED <<told, notices>>
       ELSE /\ notifier' = "callback"
            /\ told' = Append(told, Head(notices)) /\ notices' = Tail(notices)
  /\ UNCHANGED <<fixed, host, stop, worker, prompts, lagged, emitted, hostCalls>>

NotifierReturns ==
  /\ notifier = "callback" /\ notifier' = "recv"
  /\ UNCHANGED <<fixed, host, stop, worker, prompts, notices, lagged, emitted, told, hostCalls>>

------------------------------------------------------------------------------
(* The host *)

HostCall == host = "idle" /\ hostCalls < MaxCalls /\ hostCalls' = hostCalls + 1

\* wpapi_call_request_stop
RequestStop ==
  /\ HostCall /\ stop' = TRUE
  /\ UNCHANGED <<fixed, host, worker, prompts, notes>>

\* Mutant: the responder stays in place after its use.
RespondKeeping ==
  /\ HostCall
  /\ IF pending = 0 THEN UNCHANGED <<pending, answer>>
     ELSE /\ \E a \in {"yes", "no"} :
               answer' = [answer EXCEPT ![pending] = IF @ = "waiting" THEN a ELSE @]
          /\ UNCHANGED pending
  /\ UNCHANGED <<fixed, host, stop, worker, held, incoming, prompter, requests, notes>>

\* wpapi_call_accept, wpapi_call_reject: respond_pending_call takes the
\* responder, if there is one.
Respond ==
  /\ HostCall
  /\ IF pending = 0 THEN UNCHANGED <<pending, answer>>
     ELSE /\ \E a \in {"yes", "no"} :
               answer' = [answer EXCEPT ![pending] = IF @ = "waiting" THEN a ELSE @]
          /\ pending' = 0
  /\ UNCHANGED <<fixed, host, stop, worker, held, incoming, prompter, requests, notes>>

\* Mutant: free does not wait for the thread.
FreeDetached ==
  /\ host = "idle" /\ stop' = TRUE /\ host' = "done"
  /\ UNCHANGED <<fixed, worker, prompts, notes, hostCalls>>

\* wpapi_call_free, wpapi_call_stop: signal and join.
Free ==
  /\ host = "idle" /\ stop' = TRUE /\ host' = "joining"
  /\ UNCHANGED <<fixed, worker, prompts, notes, hostCalls>>

\* The join returns.
Joined ==
  /\ host = "joining" /\ worker = "exited" /\ host' = "done"
  /\ UNCHANGED <<fixed, stop, worker, prompts, notes, hostCalls>>

Worker == NoRuntime \/ BeginCall \/ BeginRoom \/ Connect \/ StopSeen \/ DropRuntime \/ Shutdown
Prompter == SendPrompt \/ SetPending \/ AskHost

HandleNext ==
  \/ Worker \/ EndsItself
  \/ Prompter \/ TellHost \/ NotifierReturns
  \/ CallRequest \/ NotifyCallEvent
  \/ RequestStop \/ Respond \/ Free \/ Joined

\* The thread and the runtime run; the handshake succeeds or fails in the end;
\* callbacks return.
HandleSpec ==
  /\ HandleInit /\ [][HandleNext]_hvars
  /\ WF_hvars(Worker) /\ WF_hvars(Joined)
  /\ WF_hvars(SendPrompt) /\ WF_hvars(SetPending) /\ WF_hvars(AskHost)
  /\ WF_hvars(NotifierReturns)

------------------------------------------------------------------------------
(* Properties *)

\* Threads are at one of their steps and the counters within their bounds.
HandleTypeOK ==
  /\ kind \in {"call", "room"} /\ {callback, stop, lagged} \subseteq BOOLEAN
  /\ host \in {"idle", "joining", "done"}
  /\ worker \in {"spawned", "connecting", "running", "returned", "dropping", "exited"}
  /\ prompter \in {"absent", "recv", "call", "callback"}
  /\ notifier \in {"absent", "recv", "callback", "ended"}
  /\ {held, pending} \subseteq 0 .. requests
  /\ Len(incoming) <= QueueSize /\ Len(notices) <= Backlog
  /\ answer \in [1 .. MaxRequests -> {"none", "waiting", "yes", "no", "dropped"}]

\* When wpapi_call_free has returned no callback runs or will start, so that the
\* host may release its user_data.
NoCallbackAfterFree ==
  host = "done" =>
    worker = "exited" /\ prompter \in {"absent", "recv"} /\ notifier # "callback"

\* wpapi_call_free returns, whenever it is called: a stop that comes before the
\* call runs is not lost, and a dispatch loop that waits does not hold it up.
FreeReturns == host = "joining" ~> host = "done"

\* While the runtime lives every call request without an answer is on its way to
\* the host or is the one the host can answer, and what the host can answer has
\* no answer yet: none is forgotten, none answered twice.  Threads and queues
\* are well formed throughout.
WaitingCanBeAnswered ==
  /\ HandleTypeOK
  /\ worker # "exited" =>
    /\ pending # 0 => answer[pending] = "waiting"
    /\ \A r \in 1 .. requests : answer[r] = "waiting" =>
         r \in {held, pending} \/ \E i \in 1 .. Len(incoming) : incoming[i] = r

\* With a callback that returns, the dispatch loop does not stay with a prompt
\* it cannot hand over (a loop that does answers no more pings).
DispatchGoesOn == (callback /\ held # 0) ~> (held = 0)

\* What the host is told is what was emitted, in order and without a gap: a
\* task that missed a notification says nothing more.
ToldInOrder == \A i \in 1 .. Len(told) : told[i] = i
=============================================================================
