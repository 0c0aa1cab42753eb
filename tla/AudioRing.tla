------------------------------ MODULE AudioRing ------------------------------
(***************************************************************************)
(* The lock-free playback buffer (wpapi/src/audio/buffer.rs) between the   *)
(* task that receives audio and the callbacks that feed the speaker        *)
(* (webrtc_session.rs, audio.rs).  One action per atomic load, store or    *)
(* compare-and-swap: between any two of them the other side may run.       *)
(*                                                                         *)
(* Samples are numbered in the order they are offered to push, so that a   *)
(* repeated, reordered or never written sample shows.  The positions head  *)
(* and tail only grow, and their difference wraps at Modulus (2^64): a     *)
(* tail beyond head reads as an enormous length.  A spurious failure of    *)
(* compare_exchange_weak reloads the same tail and is a stuttering step.   *)
(***************************************************************************)
EXTENDS Naturals, Sequences, FiniteSets

CONSTANTS
  Writer, Reader,            \* threads that push, threads that pop
  Capacity, Modulus,         \* slots of the buffer, values of a usize
  MaxSamples, TargetSamples, \* push_slice's cap_latency(4800, 1920)
  Frames, MaxFrames,         \* bound: sizes of a packet, packets
  Needs, MaxCallbacks        \* bound: samples wanted by a callback, callbacks

ASSUME LatencyAssumption ==
  /\ {Capacity, Modulus, MaxSamples, TargetSamples} \subseteq Nat \ {0}
  /\ TargetSamples <= MaxSamples /\ MaxSamples < Capacity /\ Capacity < Modulus
  /\ Frames \subseteq Nat \ {0} /\ MaxFrames \in Nat
  /\ Needs \subseteq Nat \ {0} /\ MaxCallbacks \in Nat
  /\ \A n \in Frames : n * MaxFrames + Capacity < Modulus

VARIABLES
  cell,    \* slot -> the sample it holds, 0 before the first store
  head, tail,
  wr,      \* writer -> where it is in push_slice, with its local variables
  rd,      \* reader -> where it is in the output callback
  offered, \* samples offered to push so far
  frames,  \* packets received so far
  calls,   \* reader -> callbacks run so far
  played,  \* the samples handed to the speaker, in order
  late     \* did readers take more than the target while a writer was capping?

rvars == <<cell, head, tail, wr, rd, offered, frames, calls, played, late>>

Slots == 0 .. Capacity - 1

\* len: head - tail in wrapping arithmetic.
Distance(h, t) == (h + Modulus - (t % Modulus)) % Modulus

\* A thread between two calls: its local variables are gone.
NoPush == [pc |-> "idle", left |-> 0, head |-> 0, tail |-> 0, drop |-> 0, taken |-> 0]
NoPop == [pc |-> "idle", left |-> 0, head |-> 0, tail |-> 0, bits |-> 0]

RingInit ==
  /\ cell = [s \in Slots |-> 0]
  /\ head = 0 /\ tail = 0
  /\ wr = [w \in Writer |-> NoPush]
  /\ rd = [r \in Reader |-> NoPop]
  /\ offered = 0 /\ frames = 0
  /\ calls = [r \in Reader |-> 0]
  /\ played = <<>> /\ late = FALSE

------------------------------------------------------------------------------
(* The receiving task: push_slice *)

\* A packet of n samples arrives and push_slice starts on it.
PushSlice(w) ==
  /\ wr[w].pc = "idle" /\ frames < MaxFrames
  /\ \E n \in Frames : wr' = [wr EXCEPT ![w] = [@ EXCEPT !.pc = "push", !.left = n]]
  /\ frames' = frames + 1
  /\ UNCHANGED <<cell, head, tail, rd, offered, calls, played, late>>

\* push: load head, or, the slice being done, cap_latency's load of head.
LoadHead(w) ==
  /\ wr[w].pc = "push"
  /\ wr' = [wr EXCEPT ![w] =
              [@ EXCEPT !.head = head, !.pc = IF wr[w].left > 0 THEN "room" ELSE "len"]]
  /\ UNCHANGED <<cell, head, tail, rd, offered, frames, calls, played, late>>

\* Mutant: one sample more than the buffer has slots.
CheckRoomOffByOne(w) ==
  /\ wr[w].pc = "room"
  /\ offered' = offered + 1
  /\ wr' = IF Distance(wr[w].head, tail) > Capacity
             THEN [wr EXCEPT ![w] = [@ EXCEPT !.pc = "push", !.left = wr[w].left - 1]]
             ELSE [wr EXCEPT ![w].pc = "store"]
  /\ UNCHANGED <<cell, head, tail, rd, frames, calls, played, late>>

\* push: load tail; a full buffer refuses the sample, and push_slice goes on.
CheckRoom(w) ==
  /\ wr[w].pc = "room"
  /\ offered' = offered + 1
  /\ wr' = IF Distance(wr[w].head, tail) >= Capacity
             THEN [wr EXCEPT ![w] = [@ EXCEPT !.pc = "push", !.left = wr[w].left - 1]]
             ELSE [wr EXCEPT ![w].pc = "store"]
  /\ UNCHANGED <<cell, head, tail, rd, frames, calls, played, late>>

\* Mutant: the sample goes to the slot after the one the readers will read.
StoreNextSlot(w) ==
  /\ wr[w].pc = "store"
  /\ cell' = [cell EXCEPT ![(wr[w].head + 1) % Capacity] = offered]
  /\ wr' = [wr EXCEPT ![w].pc = "publish"]
  /\ UNCHANGED <<head, tail, rd, offered, frames, calls, played, late>>

\* push: store the sample in the slot of the head it loaded.
StoreSample(w) ==
  /\ wr[w].pc = "store"
  /\ cell' = [cell EXCEPT ![wr[w].head % Capacity] = offered]
  /\ wr' = [wr EXCEPT ![w].pc = "publish"]
  /\ UNCHANGED <<head, tail, rd, offered, frames, calls, played, late>>

\* push: store head + 1, which makes the sample visible to the readers.
Publish(w) ==
  /\ wr[w].pc = "publish"
  /\ head' = wr[w].head + 1
  /\ wr' = [wr EXCEPT ![w] = [@ EXCEPT !.pc = "push", !.left = wr[w].left - 1]]
  /\ UNCHANGED <<cell, tail, rd, offered, frames, calls, played, late>>

\* Mutant: a backlog one longer than the limit is left alone.
MeasureOffByOne(w) ==
  /\ wr[w].pc = "len"
  /\ LET len == Distance(wr[w].head, tail)
     IN  wr' = IF len > MaxSamples + 1
                 THEN [wr EXCEPT ![w] = [@ EXCEPT !.pc = "cap", !.taken = 0,
                                                   !.drop = len - TargetSamples]]
                 ELSE [wr EXCEPT ![w] = NoPush]
  /\ UNCHANGED <<cell, head, tail, rd, offered, frames, calls, played, late>>

\* cap_latency: the load of tail that completes len, and the comparison.
Measure(w) ==
  /\ wr[w].pc = "len"
  /\ LET len == Distance(wr[w].head, tail)
     IN  wr' = IF len > MaxSamples
                 THEN [wr EXCEPT ![w] = [@ EXCEPT !.pc = "cap", !.taken = 0,
                                                   !.drop = len - TargetSamples]]
                 ELSE [wr EXCEPT ![w] = NoPush]
  /\ UNCHANGED <<cell, head, tail, rd, offered, frames, calls, played, late>>

\* cap_latency: load the tail to be moved.
LoadTail(w) ==
  /\ wr[w].pc = "cap"
  /\ wr' = [wr EXCEPT ![w] = [@ EXCEPT !.tail = tail, !.pc = "swap"]]
  /\ UNCHANGED <<cell, head, tail, rd, offered, frames, calls, played, late>>

\* cap_latency: move tail by the count measured before, or retry on its new
\* value.  The count is not measured again.
DropBacklog(w) ==
  /\ wr[w].pc = "swap"
  /\ IF tail = wr[w].tail
       THEN /\ tail' = tail + wr[w].drop
            /\ wr' = [wr EXCEPT ![w] = NoPush]
       ELSE /\ wr' = [wr EXCEPT ![w].tail = tail]
            /\ UNCHANGED tail
  /\ UNCHANGED <<cell, head, rd, offered, frames, calls, played, late>>

------------------------------------------------------------------------------
(* The output callback *)

\* The callback wants some samples; len loads head.
Callback(r) ==
  /\ rd[r].pc = "idle" /\ calls[r] < MaxCallbacks
  /\ \E n \in Needs :
       rd' = [rd EXCEPT ![r] = [@ EXCEPT !.pc = "len", !.left = n, !.head = head]]
  /\ calls' = [calls EXCEPT ![r] = @ + 1]
  /\ UNCHANGED <<cell, head, tail, wr, offered, frames, played, late>>

Smaller(m, n) == IF m < n THEN m ELSE n

\* len loads tail; drain_count is what is wanted, or what there is.
DrainCount(r) ==
  /\ rd[r].pc = "len"
  /\ rd' = [rd EXCEPT ![r] =
              [@ EXCEPT !.pc = "pop", !.left = Smaller(rd[r].left, Distance(rd[r].head, tail))]]
  /\ UNCHANGED <<cell, head, tail, wr, offered, frames, calls, played, late>>

\* pop: load tail.  A callback whose pops are done fills the device's buffer.
Pop(r) ==
  /\ rd[r].pc = "pop"
  /\ rd' = IF rd[r].left = 0 THEN [rd EXCEPT ![r] = NoPop]
           ELSE [rd EXCEPT ![r] = [@ EXCEPT !.pc = "head", !.tail = tail]]
  /\ UNCHANGED <<cell, head, tail, wr, offered, frames, calls, played, late>>

\* Mutant: an empty buffer is waited for.
CheckEmptyWaits(r) ==
  /\ rd[r].pc = "head"
  /\ tail # head
  /\ rd' = IF rd[r].tail = head
             THEN [rd EXCEPT ![r] = [@ EXCEPT !.pc = "pop", !.left = rd[r].left - 1]]
             ELSE [rd EXCEPT ![r].pc = "read"]
  /\ UNCHANGED <<cell, head, tail, wr, offered, frames, calls, played, late>>

\* pop: load head; an empty buffer gives no sample.
CheckEmpty(r) ==
  /\ rd[r].pc = "head"
  /\ rd' = IF rd[r].tail = head
             THEN [rd EXCEPT ![r] = [@ EXCEPT !.pc = "pop", !.left = rd[r].left - 1]]
             ELSE [rd EXCEPT ![r].pc = "read"]
  /\ UNCHANGED <<cell, head, tail, wr, offered, frames, calls, played, late>>

\* pop: load the slot of the tail it loaded.
ReadSample(r) ==
  /\ rd[r].pc = "read"
  /\ rd' = [rd EXCEPT ![r] = [@ EXCEPT !.pc = "take", !.bits = cell[rd[r].tail % Capacity]]]
  /\ UNCHANGED <<cell, head, tail, wr, offered, frames, calls, played, late>>

\* A sample is taken while some writer is about to drop a backlog it measured.
Taken ==
  /\ wr' = [w \in Writer |-> IF wr[w].pc \in {"cap", "swap"}
                               THEN [wr[w] EXCEPT !.taken = @ + 1] ELSE wr[w]]
  /\ late' = (late \/ \E w \in Writer : wr'[w].taken > TargetSamples)

\* pop: the sample is taken if tail is still the one loaded; otherwise retry
\* from the new tail.
Take(r) ==
  /\ rd[r].pc = "take"
  /\ IF tail = rd[r].tail
       THEN /\ tail' = tail + 1
            /\ played' = Append(played, rd[r].bits)
            /\ rd' = [rd EXCEPT ![r] = [@ EXCEPT !.pc = "pop", !.left = rd[r].left - 1]]
            /\ Taken
       ELSE /\ rd' = [rd EXCEPT ![r] = [@ EXCEPT !.pc = "head", !.tail = tail]]
            /\ UNCHANGED <<tail, wr, played, late>>
  /\ UNCHANGED <<cell, head, offered, frames, calls>>

------------------------------------------------------------------------------
\* The steps of one writer, and of one reader, inside a call.
WriterStep(w) ==
  \/ LoadHead(w) \/ CheckRoom(w) \/ StoreSample(w) \/ Publish(w)
  \/ Measure(w) \/ LoadTail(w) \/ DropBacklog(w)

ReaderStep(r) ==
  \/ DrainCount(r) \/ Pop(r) \/ CheckEmpty(r) \/ ReadSample(r) \/ Take(r)

RingNext ==
  \/ \E w \in Writer : PushSlice(w) \/ WriterStep(w)
  \/ \E r \in Reader : Callback(r) \/ ReaderStep(r)

\* A running callback is scheduled; a writer may stop anywhere.
RingSpec == RingInit /\ [][RingNext]_rvars /\ \A r \in Reader : WF_rvars(ReaderStep(r))

------------------------------------------------------------------------------
(* Properties *)

\* Every cell holds a sample that was offered, and the threads are at one of
\* the steps of push_slice, cap_latency and pop.
RingTypeOK ==
  /\ cell \in [Slots -> 0 .. offered]
  /\ head \in 0 .. offered /\ tail \in Nat
  /\ \A w \in Writer :
       /\ wr[w].pc \in {"idle", "push", "room", "store", "publish", "len", "cap", "swap"}
       /\ wr[w].left \in Nat /\ wr[w].drop \in 0 .. Modulus
  /\ \A r \in Reader :
       /\ rd[r].pc \in {"idle", "len", "pop", "head", "read", "take"}
       /\ rd[r].left \in Nat /\ rd[r].bits \in 0 .. offered

\* The tail never passes the head and the buffer never holds more than it has
\* slots (len, push's refusal), as long as cap_latency is not held up while
\* readers take more than target_samples: it moves the tail by a count it
\* measured earlier.  The threads stay at their steps and the counters in range.
TailStaysBehindHead ==
  /\ RingTypeOK
  /\ late \/ (tail <= head /\ head - tail <= Capacity)

\* What the speaker gets was pushed, once, and in the order it was pushed: no
\* slot is read after a writer reuses it, and no two readers take one sample.
PlaysInOrder ==
  late \/ \A i \in 1 .. Len(played) :
            played[i] > (IF i = 1 THEN 0 ELSE played[i - 1])

\* When push_slice returns, at most max_samples are waiting: playback never
\* lags behind by more than the cap, whatever the readers did meanwhile.
BacklogIsCapped ==
  \/ late \/ Cardinality(Writer) > 1
  \/ \A w \in Writer : wr[w].pc = "idle" => Distance(head, tail) <= MaxSamples

\* The output callback never waits for a writer: it returns even when the
\* receiving task stops in the middle of push ("real-time audio threads never
\* block").
CallbackReturns ==
  \A r \in Reader : rd[r].pc # "idle" ~> rd[r].pc = "idle"
=============================================================================
