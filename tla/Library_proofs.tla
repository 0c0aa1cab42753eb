---------------------------- MODULE Library_proofs ----------------------------
(***************************************************************************)
(* The invariants of three parts of the client library that stand alone:   *)
(* the key store, the call handle and the playback buffer.  The three      *)
(* models have no variable in common.                                      *)
(***************************************************************************)
EXTENDS KeyStore, CallHandle, AudioRing, Integers, TLAPS

-----------------------------------------------------------------------------
(***************************************************************************)
(* The invariants of the playback buffer for any number of slots, any      *)
(* latency limits and any number of readers, with one writer.              *)
(*                                                                         *)
(* The inductive invariant says which positions the writer and each reader *)
(* hold, that a reader's position is never ahead of the tail, what is left *)
(* of a backlog once the count measured for it is dropped, and that the    *)
(* slots from the tail to the head hold samples younger than those played. *)
(***************************************************************************)

\* A thread inside push_slice or cap_latency, and one inside a callback.
PushState ==
    [pc : {"idle", "push", "room", "store", "publish", "len", "cap", "swap"},
     left : Nat, head : Nat, tail : Nat, drop : Nat, taken : Nat]
PopState ==
    [pc : {"idle", "len", "pop", "head", "read", "take"},
     left : Nat, head : Nat, tail : Nat, bits : Nat]

RingTypes ==
    /\ cell \in [Slots -> Nat] /\ head \in Nat /\ tail \in Nat /\ offered \in Nat
    /\ wr \in [Writer -> PushState] /\ rd \in [Reader -> PopState]
    /\ played \in Seq(Nat) /\ late \in BOOLEAN

\* The writer's head is the head until it is published, and what is stored or
\* read was offered.
BoundsOK ==
    /\ head <= offered
    /\ \A s \in Slots : cell[s] <= offered
    /\ \A w \in Writer :
          /\ wr[w].pc \in {"room", "store", "publish", "len", "cap", "swap"} => wr[w].head = head
          /\ wr[w].pc \in {"store", "publish"} => head < offered
          /\ wr[w].pc \in {"room", "store", "publish"} => wr[w].left > 0
          /\ wr[w].drop <= Modulus
    /\ \A r \in Reader :
          /\ rd[r].bits <= offered
          /\ rd[r].pc \in {"head", "read", "take"} => rd[r].tail <= tail /\ rd[r].left > 0

\* There is room for what is being stored, something to take for a reader that
\* has seen it and not lost it, and the target is left of a backlog that is
\* being dropped, less what readers take meanwhile.
SpaceOK ==
    /\ tail <= head /\ head - tail <= Capacity
    /\ \A w \in Writer :
          /\ wr[w].taken <= TargetSamples
          /\ wr[w].pc \in {"store", "publish"} => head - tail < Capacity
          /\ wr[w].pc \in {"cap", "swap"} => tail + wr[w].drop + TargetSamples = head + wr[w].taken
          /\ wr[w].pc = "idle" => head - tail <= MaxSamples
    /\ \A r \in Reader :
          rd[r].pc \in {"read", "take"} /\ rd[r].tail = tail => tail < head

\* The sample at a position of the slots c, and the last one played.
Sample(c, p) == c[p % Capacity]
Last == IF played = <<>> THEN 0 ELSE played[Len(played)]

\* The samples played and those waiting are in the order they were offered; the
\* one being stored is the youngest.
OrderOK ==
    /\ \A i \in 1 .. Len(played) : played[i] > (IF i = 1 THEN 0 ELSE played[i - 1])
    /\ Last <= offered
    /\ \A p \in tail .. head : p < head => Last < Sample(cell, p) /\ Sample(cell, p) <= offered
    /\ \A p, q \in tail .. head : p < q /\ q < head => Sample(cell, p) < Sample(cell, q)
    /\ \A w \in Writer :
          /\ wr[w].pc \in {"store", "publish"} =>
                /\ Last < offered
                /\ \A p \in tail .. head : p < head => Sample(cell, p) < offered
          /\ wr[w].pc = "publish" => Sample(cell, head) = offered
    /\ \A r \in Reader :
          rd[r].pc = "take" /\ rd[r].tail = tail => rd[r].bits = Sample(cell, tail)

RingInv == RingTypes /\ BoundsOK /\ (late \/ (SpaceOK /\ OrderOK))

-----------------------------------------------------------------------------
\* Division with a remainder.
LEMMA Division ==
    ASSUME NEW a \in Nat, NEW m \in Nat \ {0}
    PROVE  /\ a \div m \in Nat /\ a % m \in Nat /\ a % m < m
           /\ a = m * (a \div m) + (a % m)
<1>1. a \div m \in Nat
  BY SMT
<1>2. a % m \in Nat /\ a % m < m
  BY SMT
<1>3. a = m * (a \div m) + (a % m)
  BY SMT
<1> QED
  BY Zenon, <1>1, <1>2, <1>3

\* Quotient and remainder are unique.
LEMMA UniqueRemainder ==
    ASSUME NEW m \in Nat \ {0}, NEW q \in Nat, NEW k \in Nat, NEW d \in Nat, NEW r \in Nat,
           d < m, r < m, m * q + d = m * k + r
    PROVE  d = r /\ q = k
<1>1. m * q \in Nat /\ m * k \in Nat
  OBVIOUS
<1>2. ASSUME q < k PROVE FALSE
  <2>1. m * k = m * q + m * (k - q)
    OBVIOUS
  <2>2. m * (k - q) >= m
    BY <1>2
  <2> QED
    BY <1>1, <2>1, <2>2
<1>3. ASSUME k < q PROVE FALSE
  <2>1. m * q = m * k + m * (q - k)
    OBVIOUS
  <2>2. m * (q - k) >= m
    BY <1>3
  <2> QED
    BY <1>1, <2>1, <2>2
<1>4. q = k
  BY <1>2, <1>3
<1> QED
  BY <1>1, <1>4

\* The difference of two positions in wrapping arithmetic is their distance.
LEMMA WrappedDistance ==
    ASSUME NEW h \in Nat, NEW t \in Nat, NEW m \in Nat \ {0}, t <= h, h - t < m
    PROVE  (h + m - (t % m)) % m = h - t
<1> DEFINE q == t \div m  x == h + m - (t % m)
<1>1. q \in Nat /\ t % m \in Nat /\ t % m < m /\ t = m * q + (t % m)
  BY Zenon, Division
<1>2. m * q \in Nat /\ m * (q + 1) = m * q + m
  BY <1>1
<1>3. x \in Nat /\ x = m * (q + 1) + (h - t)
  BY <1>1, <1>2
<1>4. x \div m \in Nat /\ x % m \in Nat /\ x % m < m /\ x = m * (x \div m) + (x % m)
  BY Zenon, <1>3, Division
<1> HIDE DEF x, q
<1>5. h - t \in Nat /\ q + 1 \in Nat
  BY <1>1
<1> DEFINE d == h - t  p == q + 1  k == x \div m  r == x % m
<1>6. p \in Nat /\ k \in Nat /\ d \in Nat /\ r \in Nat /\ d < m /\ r < m /\ m * p + d = m * k + r
  BY Zenon, <1>3, <1>4, <1>5
<1> HIDE DEF d, p, k, r
<1>7. d = r
  BY Zenon, <1>6, UniqueRemainder
<1> QED
  BY Zenon, <1>7 DEF d, r, x

\* Positions less than a buffer apart have different slots.
LEMMA DifferentSlots ==
    ASSUME NEW i \in Nat, NEW j \in Nat, NEW m \in Nat \ {0}, i < j, j < i + m
    PROVE  i % m # j % m
<1> SUFFICES ASSUME i % m = j % m PROVE FALSE
  BY Zenon
<1> DEFINE q == i \div m  k == j \div m  r == i % m
<1>1. q \in Nat /\ r \in Nat /\ r < m /\ i = m * q + r
  BY Zenon, Division
<1>2. k \in Nat /\ j = m * k + r
  BY Zenon, Division
<1> HIDE DEF q, k, r
<1>3. m * k = m * q + m * (k - q) /\ m * q \in Nat /\ m * k \in Nat
  BY <1>1, <1>2
<1>4. CASE q < k
  <2>1. m * (k - q) >= m
    BY <1>1, <1>2, <1>4
  <2> QED
    BY <1>1, <1>2, <1>3, <2>1
<1>5. CASE k <= q
  <2>1. m * k <= m * q
    BY <1>1, <1>2, <1>5
  <2> QED
    BY <1>1, <1>2, <1>3, <2>1
<1> QED
  BY <1>1, <1>2, <1>4, <1>5

\* The length that is computed is a usize, and the real one when the tail is not
\* too far behind the head.
LEMMA DistanceIs ==
    ASSUME NEW h \in Nat, NEW t \in Nat
    PROVE  /\ Distance(h, t) \in Nat /\ Distance(h, t) < Modulus
           /\ t <= h /\ h - t < Modulus => Distance(h, t) = h - t
<1> DEFINE x == h + Modulus - (t % Modulus)
<1>1. Modulus \in Nat \ {0}
  BY Zenon, LatencyAssumption
<1>2. t % Modulus \in Nat /\ t % Modulus < Modulus
  BY Zenon, <1>1, Division
<1>3. x \in Nat
  BY <1>1, <1>2
<1>4. Distance(h, t) = x % Modulus
  BY Zenon DEF Distance
<1>5. ASSUME t <= h, h - t < Modulus PROVE x % Modulus = h - t
  <2>1. h - t \in Nat
    BY <1>5
  <2> QED
    BY Zenon, <1>1, <1>5, WrappedDistance, Zenon
<1> HIDE DEF x
<1>6. x % Modulus \in Nat /\ x % Modulus < Modulus
  BY Zenon, <1>1, <1>3, Division
<1> QED
  BY Zenon, <1>4, <1>5, <1>6

\* Every position has a slot.
LEMMA SlotOf == ASSUME NEW p \in Nat PROVE p % Capacity \in Slots
<1>1. Capacity \in Nat \ {0}
  BY Zenon, LatencyAssumption
<1>2. p % Capacity \in Nat /\ p % Capacity < Capacity
  BY Zenon, <1>1, Division
<1> QED
  BY <1>1, <1>2 DEF Slots

\* There is one receiving task: echo-back, which adds a writer, is off.
OneWriter == \A v, w \in Writer : v = w

\* The numbers the conditions compare.
LEMMA RingNumbers ==
    ASSUME RingTypes
    PROVE  /\ head \in Nat /\ tail \in Nat /\ offered \in Nat
           /\ Capacity \in Nat \ {0} /\ MaxSamples \in Nat /\ TargetSamples \in Nat /\ Modulus \in Nat
           /\ TargetSamples <= MaxSamples /\ MaxSamples < Capacity /\ Capacity < Modulus
           /\ TargetSamples > 0
           /\ \A w \in Writer : /\ wr[w].left \in Nat /\ wr[w].head \in Nat /\ wr[w].tail \in Nat
                                /\ wr[w].drop \in Nat /\ wr[w].taken \in Nat
           /\ \A r \in Reader : /\ rd[r].left \in Nat /\ rd[r].tail \in Nat /\ rd[r].bits \in Nat
           /\ \A s \in Slots : cell[s] \in Nat
<1>1. /\ Capacity \in Nat \ {0} /\ MaxSamples \in Nat /\ TargetSamples \in Nat /\ Modulus \in Nat
      /\ TargetSamples <= MaxSamples /\ MaxSamples < Capacity /\ Capacity < Modulus
      /\ TargetSamples > 0
  BY LatencyAssumption
<1>2. \A w \in Writer : wr[w] \in PushState
  BY Zenon DEF RingTypes
<1>3. \A r \in Reader : rd[r] \in PopState
  BY Zenon DEF RingTypes
<1>4. \A w \in Writer : /\ wr[w].left \in Nat /\ wr[w].head \in Nat /\ wr[w].tail \in Nat
                        /\ wr[w].drop \in Nat /\ wr[w].taken \in Nat
  BY Zenon, <1>2 DEF PushState
<1>5. \A r \in Reader : rd[r].left \in Nat /\ rd[r].tail \in Nat /\ rd[r].bits \in Nat
  BY Zenon, <1>3 DEF PopState
<1> QED
  BY Zenon, <1>1, <1>4, <1>5 DEF RingTypes

\* So are the samples that wait or have been played.
LEMMA SamplesAreNumbers ==
    ASSUME RingTypes
    PROVE  Last \in Nat /\ \A p \in tail .. head : p \in Nat /\ Sample(cell, p) \in Nat
<1>1. Last \in Nat
  BY DEF RingTypes, Last
<1>2. \A p \in tail .. head : p \in Nat
  BY DEF RingTypes
<1>3. \A p \in Nat : Sample(cell, p) \in Nat
  BY Zenon, SlotOf DEF RingTypes, Sample
<1> QED
  BY Zenon, <1>1, <1>2, <1>3

-----------------------------------------------------------------------------
\* A packet arrives.
LEMMA PushSliceKeeps ==
    ASSUME RingInv, OneWriter, NEW w \in Writer, PushSlice(w)
    PROVE  RingInv'
<1>1. PICK n \in Frames : wr' = [wr EXCEPT ![w] = [wr[w] EXCEPT !.pc = "push", !.left = n]]
  BY Zenon DEF PushSlice
<1> DEFINE x == [wr[w] EXCEPT !.pc = "push", !.left = n]
<1>2. n \in Nat /\ wr[w] \in PushState /\ RingTypes
  BY Zenon, LatencyAssumption DEF RingInv, RingTypes
<1>m. x \in PushState
  BY Zenon, <1>2, ZenonT(60) DEF PushState
<1>x. x.pc = "push" /\ x.drop = wr[w].drop /\ x.taken = wr[w].taken
  BY Zenon, <1>2 DEF PushState
<1>0. wr' = [wr EXCEPT ![w] = x]
  BY Zenon, <1>1
<1> HIDE DEF x
<1>w. wr' \in [Writer -> PushState] /\ \A v \in Writer : wr'[v] = x /\ v = w
  BY Zenon, <1>0, <1>2, <1>m DEF RingTypes, OneWriter
<1>u. UNCHANGED <<cell, head, tail, rd, offered, played, late>>
  BY Zenon DEF PushSlice
<1>3. RingTypes'
  BY Zenon, <1>2, <1>u, <1>w DEF RingTypes
<1>4. BoundsOK'
  BY Zenon, <1>u, <1>w, <1>x DEF RingInv, BoundsOK
<1>5. SpaceOK => SpaceOK'
  BY Zenon, <1>u, <1>w, <1>x DEF SpaceOK
<1>6. OrderOK => OrderOK'
  BY Zenon, <1>u, <1>w, <1>x DEF OrderOK, Last
<1> QED
  BY Zenon, <1>u, <1>3, <1>4, <1>5, <1>6 DEF RingInv

\* push or cap_latency loads the head.
LEMMA LoadHeadKeeps ==
    ASSUME RingInv, OneWriter, NEW w \in Writer, LoadHead(w)
    PROVE  RingInv'
<1> DEFINE at == IF wr[w].left > 0 THEN "room" ELSE "len"
           x == [wr[w] EXCEPT !.head = head, !.pc = at]
<1>1. wr' = [wr EXCEPT ![w] = x]
  BY Zenon DEF LoadHead
<1>2. /\ wr[w] \in PushState /\ RingTypes /\ head \in Nat /\ at \in {"room", "len"}
      /\ at = "room" => wr[w].left > 0
  BY Zenon DEF RingInv, RingTypes
<1> HIDE DEF at
<1>m. x \in PushState
  BY Zenon, <1>2, ZenonT(60) DEF PushState
<1>x. /\ x.pc = at /\ x.head = head /\ x.left = wr[w].left
      /\ x.drop = wr[w].drop /\ x.taken = wr[w].taken
  BY Zenon, <1>2 DEF PushState
<1> HIDE DEF x
<1>w. wr' \in [Writer -> PushState] /\ \A v \in Writer : wr'[v] = x /\ v = w
  BY Zenon, <1>1, <1>2, <1>m DEF RingTypes, OneWriter
<1>u. UNCHANGED <<cell, head, tail, rd, offered, played, late>>
  BY Zenon DEF LoadHead
<1>3. RingTypes'
  BY Zenon, <1>2, <1>u, <1>w DEF RingTypes
<1>4. BoundsOK'
  BY Zenon, <1>2, <1>u, <1>w, <1>x DEF RingInv, BoundsOK
<1>5. SpaceOK => SpaceOK'
  BY Zenon, <1>2, <1>u, <1>w, <1>x DEF SpaceOK
<1>6. OrderOK => OrderOK'
  BY ZenonT(60), <1>2, <1>u, <1>w, <1>x DEF OrderOK, Last
<1> QED
  BY Zenon, <1>u, <1>3, <1>4, <1>5, <1>6 DEF RingInv

\* push goes on to store only when there is room.
LEMMA CheckRoomKeeps ==
    ASSUME RingInv, OneWriter, NEW w \in Writer, CheckRoom(w)
    PROVE  RingInv'
<1> DEFINE full == Distance(wr[w].head, tail) >= Capacity
           x == IF full THEN [wr[w] EXCEPT !.pc = "push", !.left = wr[w].left - 1]
                        ELSE [wr[w] EXCEPT !.pc = "store"]
<1>n. /\ RingTypes /\ wr[w].pc = "room" /\ offered' = offered + 1 /\ wr[w].head = head
      /\ wr[w].left > 0 /\ wr[w].left \in Nat /\ wr[w] \in PushState
  BY Zenon, RingNumbers DEF CheckRoom, RingInv, BoundsOK, RingTypes
<1>1. wr' = [wr EXCEPT ![w] = x]
  <2>1. CASE full
    BY Zenon, <2>1 DEF CheckRoom
  <2>2. CASE ~full
    <3>1. wr' = [wr EXCEPT ![w].pc = "store"]
      BY Zenon, <2>2 DEF CheckRoom
    <3> QED
      BY Zenon, <2>2, <3>1
  <2> QED
    BY Zenon, <2>1, <2>2
<1>d. tail <= head /\ head - tail <= Capacity /\ ~full => head - tail < Capacity
  <2>1. head \in Nat /\ tail \in Nat /\ Capacity \in Nat /\ Modulus \in Nat /\ Capacity < Modulus
    BY Zenon, <1>n, RingNumbers
  <2>2. tail <= head /\ head - tail < Modulus => Distance(head, tail) = head - tail
    BY Zenon, <2>1, DistanceIs
  <2> QED
    BY <1>n, <2>1, <2>2
<1> HIDE DEF full
<1>m. x \in PushState
  <2> DEFINE n == wr[w].left - 1
  <2>1. n \in Nat
    BY <1>n
  <2> HIDE DEF n
  <2>2. [wr[w] EXCEPT !.pc = "push", !.left = n] \in PushState
    BY Zenon, <1>n, <2>1, ZenonT(60) DEF PushState
  <2>3. [wr[w] EXCEPT !.pc = "store"] \in PushState
    BY Zenon, <1>n, ZenonT(60) DEF PushState
  <2> QED
    BY Zenon, <2>2, <2>3 DEF n
<1>x. /\ x.pc \in {"push", "store"} /\ x.head = head /\ x.drop = wr[w].drop /\ x.taken = wr[w].taken
      /\ x.pc = "store" => ~full /\ x.left > 0
  <2>1. CASE full
    BY Zenon, <1>n, <2>1 DEF PushState
  <2>2. CASE ~full
    BY Zenon, <1>n, <2>2 DEF PushState
  <2> QED
    BY Zenon, <2>1, <2>2
<1> HIDE DEF x
<1>w. wr' \in [Writer -> PushState] /\ \A v \in Writer : wr'[v] = x /\ v = w
  BY Zenon, <1>n, <1>1, <1>m DEF RingTypes, OneWriter
<1>u. UNCHANGED <<cell, head, tail, rd, played, late>>
  BY Zenon DEF CheckRoom
<1>3. RingTypes'
  BY <1>n, <1>u, <1>w DEF RingTypes
<1>4. BoundsOK'
  <2>1. /\ head < offered' /\ head <= offered' /\ \A s \in Slots : cell[s] <= offered'
        /\ \A r \in Reader : rd[r].bits <= offered'
    BY <1>n, RingNumbers DEF RingInv, BoundsOK
  <2>2. wr[w].drop <= Modulus
    BY Zenon DEF RingInv, BoundsOK
  <2>3. \A v \in Writer : /\ wr'[v].pc \in {"push", "store"} /\ wr'[v].head = head /\ wr'[v].drop <= Modulus
                          /\ wr'[v].pc = "store" => wr'[v].left > 0
    BY Zenon, <1>w, <1>x, <2>2
  <2> QED
    BY Zenon, <1>u, <2>1, <2>3 DEF RingInv, BoundsOK
<1>5. SpaceOK => SpaceOK'
  <2> SUFFICES ASSUME SpaceOK PROVE SpaceOK'
    BY Zenon
  <2>1. \A v \in Writer : /\ wr'[v].pc \in {"push", "store"} /\ wr'[v].taken <= TargetSamples
                          /\ wr'[v].pc = "store" => head - tail < Capacity
    BY Zenon, <1>d, <1>w, <1>x DEF SpaceOK
  <2> QED
    BY Zenon, <1>u, <2>1 DEF SpaceOK
<1>6. OrderOK => OrderOK'
  <2> SUFFICES ASSUME OrderOK PROVE OrderOK'
    BY Zenon
  <2>1. Last < offered' /\ \A p \in tail .. head : p < head => Sample(cell, p) < offered'
    BY SMTT(30), <1>n, RingNumbers, SamplesAreNumbers DEF OrderOK
  <2>2. Last <= offered' /\ \A p \in tail .. head : p < head => Sample(cell, p) <= offered'
    BY <1>n, <1>3, <2>1, SamplesAreNumbers DEF RingTypes
  <2>3. Last' = Last /\ \A v \in Writer : wr'[v].pc # "publish"
    BY Zenon, <1>u, <1>w, <1>x DEF Last
  <2> QED
    BY Zenon, <1>u, <2>1, <2>2, <2>3 DEF OrderOK
<1> QED
  BY Zenon, <1>u, <1>3, <1>4, <1>5, <1>6 DEF RingInv

\* push stores the sample in a slot no reader is taking from.
LEMMA StoreSampleKeeps ==
    ASSUME RingInv, OneWriter, NEW w \in Writer, StoreSample(w)
    PROVE  RingInv'
<1> DEFINE x == [wr[w] EXCEPT !.pc = "publish"]
<1>n. /\ RingTypes /\ wr[w] \in PushState /\ wr[w].pc = "store" /\ wr[w].head = head
      /\ head < offered /\ wr[w].left > 0 /\ wr[w].drop <= Modulus
  BY Zenon DEF StoreSample, RingInv, BoundsOK, RingTypes
<1>1. wr' = [wr EXCEPT ![w] = x] /\ cell' = [cell EXCEPT ![head % Capacity] = offered]
  BY Zenon, <1>n DEF StoreSample
<1>m. x \in PushState
  BY Zenon, <1>n, ZenonT(60) DEF PushState
<1>x. /\ x.pc = "publish" /\ x.head = head /\ x.left > 0 /\ x.drop <= Modulus
      /\ x.taken = wr[w].taken
  BY Zenon, <1>n DEF PushState
<1> HIDE DEF x
<1>w. wr' \in [Writer -> PushState] /\ \A v \in Writer : wr'[v] = x /\ v = w
  BY Zenon, <1>n, <1>1, <1>m DEF RingTypes, OneWriter
<1>u. UNCHANGED <<head, tail, rd, offered, played, late>>
  BY Zenon DEF StoreSample
<1>s. head \in Nat /\ head % Capacity \in Slots
  BY Zenon, <1>n, SlotOf DEF RingTypes
<1>c. /\ cell' \in [Slots -> Nat] /\ cell'[head % Capacity] = offered
      /\ \A s \in Slots : s # head % Capacity => cell'[s] = cell[s]
  BY Zenon, <1>n, <1>1, <1>s DEF RingTypes
<1>3. RingTypes'
  BY Zenon, <1>n, <1>u, <1>w, <1>c DEF RingTypes
<1>4. BoundsOK'
  <2>1. \A s \in Slots : cell'[s] <= offered
    BY <1>c, <1>n, RingNumbers DEF RingInv, BoundsOK
  <2> QED
    BY Zenon, <1>n, <1>u, <1>w, <1>x, <2>1 DEF RingInv, BoundsOK
<1>5. SpaceOK => SpaceOK'
  BY Zenon, <1>n, <1>u, <1>w, <1>x DEF SpaceOK
<1>6. ASSUME SpaceOK, OrderOK PROVE OrderOK'
  <2>1. head - tail < Capacity /\ head \in Nat /\ tail \in Nat /\ Capacity \in Nat \ {0}
    BY Zenon, <1>6, <1>n, RingNumbers DEF SpaceOK
  <2>2. \A p \in tail .. head : p < head => p \in Nat /\ head < p + Capacity
    BY <2>1
  <2>3. \A p \in tail .. head : p < head => p % Capacity # head % Capacity
    <3> SUFFICES ASSUME NEW p \in tail .. head, p < head PROVE p % Capacity # head % Capacity
      BY Zenon
    <3> QED
      BY Zenon, <2>1, <2>2, DifferentSlots, Zenon
  <2>4. \A p \in tail .. head : p < head => Sample(cell', p) = Sample(cell, p)
    BY Zenon, <1>c, <2>2, <2>3, SlotOf DEF Sample
  <2>5. Sample(cell', head) = offered
    BY Zenon, <1>c DEF Sample
  <2>6. ASSUME NEW r \in Reader, rd[r].pc = "take", rd[r].tail = tail
        PROVE  rd[r].bits = Sample(cell', tail)
    <3>1. tail < head /\ rd[r].bits = Sample(cell, tail)
      BY Zenon, <1>6, <2>6 DEF SpaceOK, OrderOK
    <3>2. tail \in tail .. head
      BY <2>1, <3>1
    <3> QED
      BY Zenon, <2>4, <3>1, <3>2
  <2>7. Last' = Last
    BY Zenon, <1>u DEF Last
  <2>8. Last < offered /\ \A p \in tail .. head : p < head => Sample(cell, p) < offered
    BY Zenon, <1>6, <1>n DEF OrderOK
  <2>9. \A p, q \in tail .. head : p < q /\ q < head => Sample(cell', p) < Sample(cell', q)
    <3> SUFFICES ASSUME NEW p \in tail .. head, NEW q \in tail .. head, p < q, q < head
                 PROVE  Sample(cell', p) < Sample(cell', q)
      BY Zenon
    <3>1. p < head
      BY <2>1
    <3>2. Sample(cell', p) = Sample(cell, p) /\ Sample(cell', q) = Sample(cell, q)
      BY Zenon, <2>4, <3>1
    <3> QED
      BY Zenon, <1>6, <3>2 DEF OrderOK
  <2>10. \A p \in tail .. head : p < head => /\ Last < Sample(cell', p) /\ Sample(cell', p) <= offered
                                             /\ Sample(cell', p) < offered
    BY Zenon, <1>6, <2>4, <2>8 DEF OrderOK
  <2> QED
    BY Zenon, <1>6, <1>u, <2>5, <2>6, <2>7, <2>8, <2>9, <2>10 DEF OrderOK
<1> QED
  BY Zenon, <1>u, <1>3, <1>4, <1>5, <1>6 DEF RingInv

\* push makes the sample visible: the youngest, at the last position.
LEMMA PublishKeeps ==
    ASSUME RingInv, OneWriter, NEW w \in Writer, Publish(w)
    PROVE  RingInv'
<1> DEFINE n == wr[w].left - 1
           x == [wr[w] EXCEPT !.pc = "push", !.left = n]
<1>n. /\ RingTypes /\ wr[w] \in PushState /\ wr[w].pc = "publish" /\ wr[w].head = head
      /\ head < offered /\ wr[w].left > 0 /\ wr[w].drop <= Modulus
      /\ head \in Nat /\ tail \in Nat /\ offered \in Nat /\ Capacity \in Nat
  BY Zenon, RingNumbers DEF Publish, RingInv, BoundsOK, RingTypes
<1>1. wr' = [wr EXCEPT ![w] = x] /\ head' = head + 1
  BY Zenon, <1>n DEF Publish
<1>2. n \in Nat
  BY <1>n, RingNumbers
<1> HIDE DEF n
<1>m. x \in PushState
  BY Zenon, <1>n, <1>2, ZenonT(60) DEF PushState
<1>x. /\ x.pc = "push" /\ x.drop <= Modulus /\ x.taken = wr[w].taken
  BY Zenon, <1>n DEF PushState
<1> HIDE DEF x
<1>w. wr' \in [Writer -> PushState] /\ \A v \in Writer : wr'[v] = x /\ v = w
  BY Zenon, <1>n, <1>1, <1>m DEF RingTypes, OneWriter
<1>u. UNCHANGED <<cell, tail, rd, offered, played, late>>
  BY Zenon DEF Publish
<1>3. RingTypes'
  BY <1>n, <1>1, <1>u, <1>w DEF RingTypes
<1>4. BoundsOK'
  BY <1>n, <1>1, <1>u, <1>w, <1>x DEF RingInv, BoundsOK
<1>5. SpaceOK => SpaceOK'
  BY <1>n, <1>1, <1>u, <1>w, <1>x DEF SpaceOK
<1>6. ASSUME SpaceOK, OrderOK PROVE OrderOK'
  <2>1. /\ Last < offered /\ Sample(cell, head) = offered
        /\ \A p \in tail .. head : p < head => Sample(cell, p) < offered
    BY Zenon, <1>6, <1>n DEF OrderOK
  <2>2. \A p \in tail .. head' : p < head' => p \in tail .. head /\ (p = head \/ p < head)
    BY <1>n, <1>1
  <2>3. \A p \in tail .. head' : p < head' => Last < Sample(cell, p) /\ Sample(cell, p) <= offered
    BY <1>6, <1>n, <2>1, <2>2 DEF OrderOK
  <2>4. \A p, q \in tail .. head' : p < q /\ q < head' => Sample(cell, p) < Sample(cell, q)
    <3> SUFFICES ASSUME NEW p \in tail .. head', NEW q \in tail .. head', p < q, q < head'
                 PROVE  Sample(cell, p) < Sample(cell, q)
      BY Zenon
    <3>1. p \in tail .. head /\ p < head /\ q \in tail .. head /\ (q = head \/ q < head)
      BY <1>n, <1>1
    <3>2. CASE q < head
      BY Zenon, <1>6, <3>1, <3>2 DEF OrderOK
    <3>3. CASE q = head
      BY Zenon, <2>1, <3>1, <3>3
    <3> QED
      BY Zenon, <3>1, <3>2, <3>3
  <2>5. Last' = Last /\ \A v \in Writer : wr'[v].pc = "push"
    BY Zenon, <1>u, <1>w, <1>x DEF Last
  <2> QED
    BY Zenon, <1>6, <1>u, <2>3, <2>4, <2>5 DEF OrderOK
<1> QED
  BY Zenon, <1>u, <1>3, <1>4, <1>5, <1>6 DEF RingInv

\* cap_latency measures the backlog: what it drops leaves the target.
LEMMA MeasureKeeps ==
    ASSUME RingInv, OneWriter, NEW w \in Writer, Measure(w)
    PROVE  RingInv'
<1> DEFINE len == Distance(wr[w].head, tail)
           n == len - TargetSamples
           x == IF len > MaxSamples
                  THEN [wr[w] EXCEPT !.pc = "cap", !.taken = 0, !.drop = n] ELSE NoPush
<1>n. /\ RingTypes /\ wr[w] \in PushState /\ wr[w].pc = "len" /\ wr[w].head = head
      /\ head \in Nat /\ tail \in Nat
      /\ MaxSamples \in Nat /\ TargetSamples \in Nat /\ TargetSamples <= MaxSamples
      /\ Capacity \in Nat /\ Modulus \in Nat /\ Capacity < Modulus
  BY Zenon, RingNumbers DEF Measure, RingInv, BoundsOK, RingTypes
<1>1. wr' = [wr EXCEPT ![w] = x]
  <2>1. wr' = IF len > MaxSamples
                THEN [wr EXCEPT ![w] = [wr[w] EXCEPT !.pc = "cap", !.taken = 0, !.drop = n]]
                ELSE [wr EXCEPT ![w] = NoPush]
    BY Zenon DEF Measure
  <2> HIDE DEF len, n
  <2> QED
    BY Zenon, <2>1, Zenon
<1>2. /\ len \in Nat /\ len < Modulus
      /\ tail <= head /\ head - tail <= Capacity => len = head - tail
  <2>1. /\ len \in Nat /\ len < Modulus
        /\ tail <= head /\ head - tail < Modulus => len = head - tail
    <3>1. len = Distance(head, tail)
      BY Zenon, <1>n
    <3> HIDE DEF len
    <3> QED
      BY Zenon, <1>n, <3>1, DistanceIs
  <2> HIDE DEF len
  <2> QED
    BY <1>n, <2>1
<1> HIDE DEF len
<1>3. len > MaxSamples => n \in Nat /\ n <= Modulus /\ n + TargetSamples = len
  BY <1>n, <1>2
<1> HIDE DEF n
<1>m. x \in PushState
  <2>1. CASE len > MaxSamples
    <3>1. n \in Nat
      BY Zenon, <1>3, <2>1
    <3>2. [wr[w] EXCEPT !.pc = "cap", !.taken = 0, !.drop = n] \in PushState
      BY Zenon, <1>n, <3>1, ZenonT(60) DEF PushState
    <3> QED
      BY Zenon, <2>1, <3>2
  <2>2. CASE ~(len > MaxSamples)
    BY Zenon, <2>2 DEF PushState, NoPush
  <2> QED
    BY Zenon, <2>1, <2>2
<1>x. /\ x.pc \in {"cap", "idle"} /\ x.taken = 0 /\ x.drop \in Nat /\ x.drop <= Modulus
      /\ x.pc = "cap" => x.head = head /\ x.drop + TargetSamples = len
      /\ x.pc = "idle" => len <= MaxSamples
  <2>1. CASE len > MaxSamples
    BY Zenon, <1>n, <1>3, <2>1 DEF PushState
  <2>2. CASE ~(len > MaxSamples)
    BY <1>n, <1>2, <2>2 DEF NoPush
  <2> QED
    BY Zenon, <2>1, <2>2
<1> HIDE DEF x
<1>w. wr' \in [Writer -> PushState] /\ \A v \in Writer : wr'[v] = x /\ v = w
  BY Zenon, <1>n, <1>1, <1>m DEF RingTypes, OneWriter
<1>u. UNCHANGED <<cell, head, tail, rd, offered, played, late>>
  BY Zenon DEF Measure
<1>4. RingTypes'
  BY Zenon, <1>n, <1>u, <1>w DEF RingTypes
<1>5. BoundsOK'
  BY Zenon, <1>u, <1>w, <1>x DEF RingInv, BoundsOK
<1>6. SpaceOK => SpaceOK'
  <2> SUFFICES ASSUME SpaceOK PROVE SpaceOK'
    BY Zenon
  <2>1. len = head - tail
    BY Zenon, <1>2 DEF SpaceOK
  <2>2. \A v \in Writer : /\ wr'[v].pc \in {"cap", "idle"} /\ wr'[v].taken = 0
                          /\ wr'[v].pc = "cap" => tail + wr'[v].drop + TargetSamples = head
                          /\ wr'[v].pc = "idle" => head - tail <= MaxSamples
    BY <1>n, <1>w, <1>x, <2>1
  <2> QED
    BY <1>n, <1>u, <2>2 DEF SpaceOK
<1>7. OrderOK => OrderOK'
  BY Zenon, <1>u, <1>w, <1>x DEF OrderOK, Last
<1> QED
  BY Zenon, <1>u, <1>4, <1>5, <1>6, <1>7 DEF RingInv

\* cap_latency loads the tail.
LEMMA LoadTailKeeps ==
    ASSUME RingInv, OneWriter, NEW w \in Writer, LoadTail(w)
    PROVE  RingInv'
<1> DEFINE x == [wr[w] EXCEPT !.tail = tail, !.pc = "swap"]
<1>n. /\ RingTypes /\ wr[w] \in PushState /\ wr[w].pc = "cap" /\ wr[w].head = head
      /\ wr[w].drop <= Modulus /\ tail \in Nat
  BY Zenon DEF LoadTail, RingInv, BoundsOK, RingTypes
<1>1. wr' = [wr EXCEPT ![w] = x]
  BY Zenon DEF LoadTail
<1>m. x \in PushState
  BY Zenon, <1>n, ZenonT(60) DEF PushState
<1>x. /\ x.pc = "swap" /\ x.head = head /\ x.drop = wr[w].drop /\ x.taken = wr[w].taken
  BY Zenon, <1>n DEF PushState
<1> HIDE DEF x
<1>w. wr' \in [Writer -> PushState] /\ \A v \in Writer : wr'[v] = x /\ v = w
  BY Zenon, <1>n, <1>1, <1>m DEF RingTypes, OneWriter
<1>u. UNCHANGED <<cell, head, tail, rd, offered, played, late>>
  BY Zenon DEF LoadTail
<1>3. RingTypes'
  BY Zenon, <1>n, <1>u, <1>w DEF RingTypes
<1>4. BoundsOK'
  BY Zenon, <1>n, <1>u, <1>w, <1>x DEF RingInv, BoundsOK
<1>5. SpaceOK => SpaceOK'
  BY Zenon, <1>n, <1>u, <1>w, <1>x DEF SpaceOK
<1>6. OrderOK => OrderOK'
  BY Zenon, <1>u, <1>w, <1>x DEF OrderOK, Last
<1> QED
  BY Zenon, <1>u, <1>3, <1>4, <1>5, <1>6 DEF RingInv

\* cap_latency moves the tail by the count it measured, or tries again.
LEMMA DropBacklogKeeps ==
    ASSUME RingInv, OneWriter, NEW w \in Writer, DropBacklog(w)
    PROVE  RingInv'
<1> DEFINE y == [wr[w] EXCEPT !.tail = tail]
<1>n. /\ RingTypes /\ wr[w] \in PushState /\ wr[w].pc = "swap" /\ wr[w].head = head
      /\ wr[w].drop <= Modulus /\ wr[w].drop \in Nat /\ wr[w].taken \in Nat
      /\ head \in Nat /\ tail \in Nat /\ Modulus \in Nat /\ Capacity \in Nat
      /\ MaxSamples \in Nat /\ TargetSamples \in Nat
      /\ TargetSamples <= MaxSamples /\ MaxSamples < Capacity
  BY Zenon, RingNumbers DEF DropBacklog, RingInv, BoundsOK, RingTypes
<1>u. UNCHANGED <<cell, head, rd, offered, played, late>>
  BY Zenon DEF DropBacklog
<1>a. Last' = Last
  BY Zenon, <1>u DEF Last
<1>1. CASE tail = wr[w].tail
  <2>1. wr' = [wr EXCEPT ![w] = NoPush] /\ tail' = tail + wr[w].drop
    BY Zenon, <1>1 DEF DropBacklog
  <2>2. NoPush \in PushState /\ NoPush.pc = "idle" /\ NoPush.drop = 0 /\ NoPush.taken = 0
    BY Zenon DEF NoPush, PushState
  <2>w. wr' \in [Writer -> PushState] /\ \A v \in Writer : wr'[v] = NoPush /\ v = w
    BY Zenon, <1>n, <2>1, <2>2 DEF RingTypes, OneWriter
  <2>3. RingTypes'
    BY SMTT(30), <1>n, <1>u, <2>1, <2>w DEF RingTypes
  <2>t. tail' \in Nat /\ tail <= tail'
    BY <1>n, <2>1
  <2>r. \A r \in Reader : rd[r].pc \in {"head", "read", "take"} => rd[r].tail \in Nat /\ rd[r].tail <= tail
    BY Zenon, <1>n, RingNumbers DEF RingInv, BoundsOK
  <2>4. BoundsOK'
    <3>1. \A r \in Reader : rd[r].pc \in {"head", "read", "take"} => rd[r].tail <= tail'
      BY <1>n, <2>r, <2>t
    <3>2. \A v \in Writer : wr'[v].pc = "idle" /\ wr'[v].drop <= Modulus
      BY <1>n, <2>2, <2>w
    <3> QED
      BY Zenon, <1>u, <3>1, <3>2 DEF RingInv, BoundsOK
  <2>b. \A r \in Reader : rd[r].pc \in {"head", "read", "take"} /\ rd[r].tail = tail' => tail' = tail
    BY <1>n, <2>r, <2>t
  <2>5. ASSUME SpaceOK PROVE SpaceOK' /\ tail' <= head
    <3>1. tail + wr[w].drop + TargetSamples = head + wr[w].taken /\ wr[w].taken <= TargetSamples
      BY Zenon, <1>n, <2>5 DEF SpaceOK
    <3>2. tail' <= head /\ head - tail' <= MaxSamples /\ head - tail' <= Capacity
      BY <1>n, <2>1, <3>1
    <3>3. \A v \in Writer : wr'[v].pc = "idle" /\ wr'[v].taken <= TargetSamples
      BY <1>n, <2>2, <2>w
    <3>4. \A r \in Reader : rd[r].pc \in {"read", "take"} /\ rd[r].tail = tail' => tail' < head
      BY Zenon, <2>5, <2>b DEF SpaceOK
    <3> QED
      BY Zenon, <1>u, <3>2, <3>3, <3>4 DEF SpaceOK
  <2>6. ASSUME SpaceOK, OrderOK PROVE OrderOK'
    <3>1. \A p \in tail' .. head : p \in tail .. head
      BY <1>n, <2>t
    <3>2. \A v \in Writer : wr'[v].pc = "idle"
      BY Zenon, <2>2, <2>w
    <3>3. \A r \in Reader : rd[r].pc = "take" /\ rd[r].tail = tail' => rd[r].bits = Sample(cell, tail')
      BY Zenon, <2>6, <2>b DEF OrderOK
    <3> QED
      BY Zenon, <1>a, <1>u, <2>6, <3>1, <3>2, <3>3 DEF OrderOK
  <2> QED
    BY Zenon, <1>u, <2>3, <2>4, <2>5, <2>6 DEF RingInv
<1>2. CASE tail # wr[w].tail
  <2>1. wr' = [wr EXCEPT ![w] = y] /\ tail' = tail
    BY Zenon, <1>2 DEF DropBacklog
  <2>m. y \in PushState
    BY Zenon, <1>n, ZenonT(60) DEF PushState
  <2>x. /\ y.pc = "swap" /\ y.head = head /\ y.drop = wr[w].drop /\ y.taken = wr[w].taken
    BY Zenon, <1>n DEF PushState
  <2> HIDE DEF y
  <2>w. wr' \in [Writer -> PushState] /\ \A v \in Writer : wr'[v] = y /\ v = w
    BY Zenon, <1>n, <2>1, <2>m DEF RingTypes, OneWriter
  <2>3. RingTypes'
    BY Zenon, <1>n, <1>u, <2>1, <2>w DEF RingTypes
  <2>4. BoundsOK'
    BY Zenon, <1>n, <1>u, <2>1, <2>w, <2>x DEF RingInv, BoundsOK
  <2>5. SpaceOK => SpaceOK'
    BY Zenon, <1>n, <1>u, <2>1, <2>w, <2>x DEF SpaceOK
  <2>6. OrderOK => OrderOK'
    BY Zenon, <1>a, <1>u, <2>1, <2>w, <2>x DEF OrderOK
  <2> QED
    BY Zenon, <1>u, <2>3, <2>4, <2>5, <2>6 DEF RingInv
<1> QED
  BY Zenon, <1>1, <1>2

-----------------------------------------------------------------------------
\* A step of a reader that takes nothing: what it has loaded is a tail that has
\* passed, or the tail with its sample.
LEMMA ReaderKeeps ==
    ASSUME RingInv, NEW r \in Reader, NEW x \in PopState,
           rd' \in [Reader -> PopState], rd'[r] = x, \A q \in Reader : q # r => rd'[q] = rd[q],
           UNCHANGED <<cell, head, tail, wr, offered, played, late>>,
           x.bits <= offered,
           x.pc \in {"head", "read", "take"} => x.tail <= tail /\ x.left > 0,
           SpaceOK /\ OrderOK =>
              /\ x.pc \in {"read", "take"} /\ x.tail = tail => tail < head
              /\ x.pc = "take" /\ x.tail = tail => x.bits = Sample(cell, tail)
    PROVE  RingInv'
<1>1. RingTypes'
  BY Zenon DEF RingInv, RingTypes
<1>2. BoundsOK'
  <2>1. \A q \in Reader : /\ rd'[q].bits <= offered
                          /\ rd'[q].pc \in {"head", "read", "take"} => rd'[q].tail <= tail /\ rd'[q].left > 0
    BY Zenon DEF RingInv, BoundsOK
  <2> QED
    BY Zenon, <2>1 DEF RingInv, BoundsOK
<1>3. ASSUME SpaceOK, OrderOK PROVE SpaceOK' /\ OrderOK'
  <2>1. \A q \in Reader : /\ rd'[q].pc \in {"read", "take"} /\ rd'[q].tail = tail => tail < head
                          /\ rd'[q].pc = "take" /\ rd'[q].tail = tail => rd'[q].bits = Sample(cell, tail)
    BY Zenon, <1>3 DEF SpaceOK, OrderOK
  <2>2. SpaceOK'
    BY Zenon, <1>3, <2>1 DEF SpaceOK
  <2>3. Last' = Last
    BY Zenon DEF Last
  <2>4. OrderOK'
    BY Zenon, <1>3, <2>1, <2>3 DEF OrderOK
  <2> QED
    BY Zenon, <2>2, <2>4
<1> QED
  BY Zenon, <1>1, <1>2, <1>3 DEF RingInv

\* A callback starts; its len loads the head.
LEMMA CallbackKeeps ==
    ASSUME RingInv, NEW r \in Reader, Callback(r)
    PROVE  RingInv'
<1>1. PICK n \in Needs : rd' = [rd EXCEPT ![r] = [rd[r] EXCEPT !.pc = "len", !.left = n, !.head = head]]
  BY Zenon DEF Callback
<1> DEFINE x == [rd[r] EXCEPT !.pc = "len", !.left = n, !.head = head]
<1>n. RingTypes /\ rd[r] \in PopState /\ n \in Nat /\ head \in Nat /\ rd[r].bits <= offered
  BY Zenon, LatencyAssumption DEF RingInv, BoundsOK, RingTypes
<1>m. x \in PopState
  BY Zenon, <1>n, ZenonT(60) DEF PopState
<1>x. x.pc = "len" /\ x.bits <= offered
  BY Zenon, <1>n DEF PopState
<1>0. rd' = [rd EXCEPT ![r] = x]
  BY Zenon, <1>1
<1> HIDE DEF x
<1>r. rd' \in [Reader -> PopState] /\ rd'[r] = x /\ \A q \in Reader : q # r => rd'[q] = rd[q]
  BY Zenon, <1>n, <1>0, <1>m DEF RingTypes
<1>u. UNCHANGED <<cell, head, tail, wr, offered, played, late>>
  BY Zenon DEF Callback
<1> QED
  BY Zenon, <1>m, <1>x, <1>r, <1>u, ReaderKeeps, SMTT(30)

\* The callback knows how many samples to pop.
LEMMA DrainCountKeeps ==
    ASSUME RingInv, NEW r \in Reader, DrainCount(r)
    PROVE  RingInv'
<1> DEFINE n == Smaller(rd[r].left, Distance(rd[r].head, tail))
           x == [rd[r] EXCEPT !.pc = "pop", !.left = n]
<1>1. rd' = [rd EXCEPT ![r] = x]
  BY Zenon DEF DrainCount
<1>n. RingTypes /\ rd[r] \in PopState /\ rd[r].bits <= offered
  BY Zenon DEF RingInv, BoundsOK, RingTypes
<1>2. n \in Nat
  <2>1. rd[r].left \in Nat /\ rd[r].head \in Nat /\ tail \in Nat
    BY Zenon, <1>n DEF PopState, RingTypes
  <2>2. Distance(rd[r].head, tail) \in Nat
    BY Zenon, <2>1, DistanceIs, Zenon
  <2> QED
    BY Zenon, <2>1, <2>2 DEF Smaller
<1> HIDE DEF n
<1>m. x \in PopState
  BY Zenon, <1>n, <1>2, ZenonT(60) DEF PopState
<1>x. x.pc = "pop" /\ x.bits <= offered
  BY Zenon, <1>n DEF PopState
<1> HIDE DEF x
<1>r. rd' \in [Reader -> PopState] /\ rd'[r] = x /\ \A q \in Reader : q # r => rd'[q] = rd[q]
  BY Zenon, <1>n, <1>1, <1>m DEF RingTypes
<1>u. UNCHANGED <<cell, head, tail, wr, offered, played, late>>
  BY Zenon DEF DrainCount
<1> QED
  BY Zenon, <1>m, <1>x, <1>r, <1>u, ReaderKeeps

\* pop loads the tail, or the callback is done.
LEMMA PopKeeps ==
    ASSUME RingInv, NEW r \in Reader, Pop(r)
    PROVE  RingInv'
<1> DEFINE y == [rd[r] EXCEPT !.pc = "head", !.tail = tail]
           x == IF rd[r].left = 0 THEN NoPop ELSE y
<1>n. /\ RingTypes /\ rd[r] \in PopState /\ rd[r].bits <= offered /\ tail \in Nat
      /\ rd[r].left \in Nat /\ offered \in Nat
  BY Zenon, RingNumbers DEF RingInv, BoundsOK, RingTypes
<1>1. rd' = [rd EXCEPT ![r] = x]
  <2>1. CASE rd[r].left = 0
    BY Zenon, <2>1 DEF Pop
  <2>2. CASE rd[r].left # 0
    BY Zenon, <2>2 DEF Pop
  <2> QED
    BY Zenon, <2>1, <2>2
<1>2. y \in PopState
  BY Zenon, <1>n, ZenonT(60) DEF PopState
<1>3. y.bits <= offered /\ y.tail = tail /\ y.left = rd[r].left
  BY Zenon, <1>n DEF PopState
<1>4. y.pc = "head"
  BY Zenon, <1>n DEF PopState
<1> HIDE DEF y
<1>5. NoPop \in PopState /\ NoPop.bits <= offered /\ NoPop.pc = "idle"
  BY <1>n DEF NoPop, PopState
<1>m. x \in PopState
  BY Zenon, <1>2, <1>5
<1>x. /\ x.bits <= offered /\ x.pc \in {"idle", "head"}
      /\ x.pc = "head" => x.tail <= tail /\ x.left > 0
  BY <1>n, <1>3, <1>4, <1>5
<1> HIDE DEF x
<1>r. rd' \in [Reader -> PopState] /\ rd'[r] = x /\ \A q \in Reader : q # r => rd'[q] = rd[q]
  BY Zenon, <1>n, <1>1, <1>m DEF RingTypes
<1>u. UNCHANGED <<cell, head, tail, wr, offered, played, late>>
  BY Zenon DEF Pop
<1> QED
  BY Zenon, <1>m, <1>x, <1>r, <1>u, ReaderKeeps

\* pop gives up on an empty buffer; else there is a sample at its tail, if that
\* is still the tail.
LEMMA CheckEmptyKeeps ==
    ASSUME RingInv, NEW r \in Reader, CheckEmpty(r)
    PROVE  RingInv'
<1> DEFINE n == rd[r].left - 1
           y == [rd[r] EXCEPT !.pc = "pop", !.left = n]
           z == [rd[r] EXCEPT !.pc = "read"]
           x == IF rd[r].tail = head THEN y ELSE z
<1>n. /\ RingTypes /\ rd[r] \in PopState /\ rd[r].bits <= offered /\ head \in Nat /\ tail \in Nat
      /\ rd[r].left \in Nat /\ rd[r].left > 0 /\ rd[r].tail <= tail /\ rd[r].tail \in Nat
  BY Zenon, RingNumbers DEF CheckEmpty, RingInv, BoundsOK, RingTypes
<1>1. rd' = [rd EXCEPT ![r] = x]
  <2>1. CASE rd[r].tail = head
    BY Zenon, <2>1 DEF CheckEmpty
  <2>2. CASE rd[r].tail # head
    BY Zenon, <2>2 DEF CheckEmpty
  <2> QED
    BY Zenon, <2>1, <2>2
<1>2. n \in Nat
  BY <1>n
<1> HIDE DEF n
<1>3. y \in PopState
  BY Zenon, <1>n, <1>2, ZenonT(60) DEF PopState
<1>4. z \in PopState
  BY Zenon, <1>n, ZenonT(60) DEF PopState
<1>5. y.pc = "pop" /\ y.bits <= offered
  BY Zenon, <1>n DEF PopState
<1>6. z.pc = "read" /\ z.bits <= offered /\ z.tail = rd[r].tail /\ z.left = rd[r].left
  BY Zenon, <1>n DEF PopState
<1> HIDE DEF y, z
<1>m. x \in PopState
  BY Zenon, <1>3, <1>4
<1>x. /\ x.bits <= offered /\ x.pc \in {"pop", "read"}
      /\ x.pc = "read" => x.tail <= tail /\ x.left > 0
      /\ tail <= head => (x.pc = "read" /\ x.tail = tail => tail < head)
  BY <1>n, <1>5, <1>6
<1> HIDE DEF x
<1>r. rd' \in [Reader -> PopState] /\ rd'[r] = x /\ \A q \in Reader : q # r => rd'[q] = rd[q]
  BY Zenon, <1>n, <1>1, <1>m DEF RingTypes
<1>u. UNCHANGED <<cell, head, tail, wr, offered, played, late>>
  BY Zenon DEF CheckEmpty
<1>s. SpaceOK => tail <= head
  BY Zenon DEF SpaceOK
<1> QED
  BY Zenon, <1>m, <1>x, <1>r, <1>s, <1>u, ReaderKeeps

\* pop loads the slot of its tail.
LEMMA ReadSampleKeeps ==
    ASSUME RingInv, NEW r \in Reader, ReadSample(r)
    PROVE  RingInv'
<1> DEFINE b == cell[rd[r].tail % Capacity]
           x == [rd[r] EXCEPT !.pc = "take", !.bits = b]
<1>n. /\ RingTypes /\ rd[r] \in PopState /\ rd[r].pc = "read"
      /\ rd[r].left > 0 /\ rd[r].tail <= tail /\ rd[r].tail \in Nat
  BY Zenon, RingNumbers DEF ReadSample, RingInv, BoundsOK, RingTypes
<1>1. rd' = [rd EXCEPT ![r] = x]
  BY Zenon DEF ReadSample
<1>2. b \in Nat /\ b <= offered
  <2>1. rd[r].tail % Capacity \in Slots
    BY Zenon, <1>n, SlotOf
  <2> QED
    BY Zenon, <2>1 DEF RingInv, RingTypes, BoundsOK
<1>3. rd[r].tail = tail => b = Sample(cell, tail)
  BY Zenon DEF Sample
<1> HIDE DEF b
<1>m. x \in PopState
  BY Zenon, <1>n, <1>2, ZenonT(60) DEF PopState
<1>x. x.pc = "take" /\ x.bits = b /\ x.tail = rd[r].tail /\ x.left = rd[r].left
  BY Zenon, <1>n DEF PopState
<1> HIDE DEF x
<1>r. rd' \in [Reader -> PopState] /\ rd'[r] = x /\ \A q \in Reader : q # r => rd'[q] = rd[q]
  BY Zenon, <1>n, <1>1, <1>m DEF RingTypes
<1>u. UNCHANGED <<cell, head, tail, wr, offered, played, late>>
  BY Zenon DEF ReadSample
<1>s. SpaceOK /\ rd[r].tail = tail => tail < head
  BY Zenon, <1>n DEF SpaceOK
<1> QED
  BY Zenon, <1>2, <1>3, <1>m, <1>n, <1>x, <1>r, <1>s, <1>u, ReaderKeeps

\* pop takes the sample it has read, or tries again from the new tail.
LEMMA TakeKeeps ==
    ASSUME RingInv, NEW r \in Reader, Take(r)
    PROVE  RingInv'
<1> DEFINE n == rd[r].left - 1
           x == [rd[r] EXCEPT !.pc = "pop", !.left = n]
           y == [rd[r] EXCEPT !.pc = "head", !.tail = tail]
<1>n. /\ RingTypes /\ rd[r] \in PopState /\ rd[r].pc = "take" /\ rd[r].bits <= offered
      /\ rd[r].left > 0 /\ rd[r].left \in Nat /\ rd[r].bits \in Nat
      /\ head \in Nat /\ tail \in Nat /\ offered \in Nat /\ Capacity \in Nat
      /\ TargetSamples \in Nat /\ MaxSamples \in Nat
  BY Zenon, RingNumbers DEF Take, RingInv, BoundsOK, RingTypes
<1>u. UNCHANGED <<cell, head, offered>>
  BY Zenon DEF Take
<1>1. CASE tail = rd[r].tail
  <2>1. /\ rd' = [rd EXCEPT ![r] = x] /\ tail' = tail + 1
        /\ played' = Append(played, rd[r].bits) /\ Taken
    BY Zenon, <1>1 DEF Take
  <2>2. n \in Nat
    BY <1>n
  <2> HIDE DEF n
  <2>m. x \in PopState
    BY Zenon, <1>n, <2>2, ZenonT(60) DEF PopState
  <2>x. x.pc = "pop" /\ x.bits = rd[r].bits
    BY Zenon, <1>n DEF PopState
  <2> HIDE DEF x
  <2>r. /\ rd' \in [Reader -> PopState] /\ rd'[r] = x
        /\ \A q \in Reader : q # r => rd'[q] = rd[q]
    BY Zenon, <1>n, <2>1, <2>m DEF RingTypes
  <2>w. /\ wr' \in [Writer -> PushState]
        /\ \A w \in Writer : /\ wr'[w].pc = wr[w].pc /\ wr'[w].left = wr[w].left
                             /\ wr'[w].head = wr[w].head /\ wr'[w].drop = wr[w].drop
        /\ \A w \in Writer : wr[w].pc \in {"cap", "swap"} => wr'[w].taken = wr[w].taken + 1
        /\ \A w \in Writer : wr[w].pc \notin {"cap", "swap"} => wr'[w].taken = wr[w].taken
    <3> SUFFICES ASSUME NEW w \in Writer
                 PROVE  /\ wr'[w] \in PushState
                        /\ wr'[w].pc = wr[w].pc /\ wr'[w].left = wr[w].left
                        /\ wr'[w].head = wr[w].head /\ wr'[w].drop = wr[w].drop
                        /\ wr[w].pc \in {"cap", "swap"} => wr'[w].taken = wr[w].taken + 1
                        /\ wr[w].pc \notin {"cap", "swap"} => wr'[w].taken = wr[w].taken
      BY Zenon, <2>1 DEF Taken
    <3>1. wr[w] \in PushState
      BY Zenon, <1>n DEF RingTypes
    <3> DEFINE k == wr[w].taken + 1
               z == [wr[w] EXCEPT !.taken = k]
    <3>2. wr'[w] = IF wr[w].pc \in {"cap", "swap"} THEN z ELSE wr[w]
      BY Zenon, <2>1 DEF Taken
    <3>3. k \in Nat
      BY <3>1 DEF PushState
    <3> HIDE DEF k
    <3>4. z \in PushState
      BY Zenon, <3>1, <3>3, ZenonT(60) DEF PushState
    <3>5. /\ z.taken = k /\ z.pc = wr[w].pc /\ z.left = wr[w].left
          /\ z.head = wr[w].head /\ z.drop = wr[w].drop
      BY Zenon, <3>1 DEF PushState
    <3> HIDE DEF z
    <3> QED
      BY Zenon, <3>1, <3>2, <3>4, <3>5 DEF k
  <2>l. /\ late' \in BOOLEAN /\ (late => late')
        /\ ~late' => \A w \in Writer : ~(wr'[w].taken > TargetSamples)
    <3>1. late' = (late \/ \E w \in Writer : wr'[w].taken > TargetSamples)
      BY Zenon, <2>1 DEF Taken
    <3>2. late \in BOOLEAN
      BY Zenon, <1>n DEF RingTypes
    <3> QED
      BY Zenon, <3>1, <3>2, Zenon
  <2>p. played \in Seq(Nat) /\ played' \in Seq(Nat)
    BY <1>n, <2>1 DEF RingTypes
  <2>3. RingTypes'
    BY SMTT(30), <1>n, <1>u, <2>1, <2>r, <2>w, <2>l, <2>p DEF RingTypes
  <2>b. \A q \in Reader : rd[q].pc \in {"head", "read", "take"} => rd[q].tail \in Nat /\ rd[q].tail <= tail
    BY Zenon, <1>n, RingNumbers DEF RingInv, BoundsOK
  <2>c. \A q \in Reader : rd'[q].pc \in {"head", "read", "take"} => q # r /\ rd'[q].tail < tail'
    BY SMTT(30), <1>n, <2>1, <2>b, <2>r, <2>x
  <2>4. BoundsOK'
    <3>1. \A q \in Reader :
            /\ rd'[q].bits <= offered
            /\ rd'[q].pc \in {"head", "read", "take"} => rd'[q].tail <= tail' /\ rd'[q].left > 0
      <4> SUFFICES ASSUME NEW q \in Reader
                   PROVE  /\ rd'[q].bits <= offered
                          /\ rd'[q].pc \in {"head", "read", "take"} =>
                                rd'[q].tail <= tail' /\ rd'[q].left > 0
        BY Zenon
      <4>1. CASE q = r
        BY Zenon, <1>n, <2>r, <2>x, <4>1
      <4>2. CASE q # r
        <5>1. rd'[q] = rd[q] /\ rd[q].bits <= offered
          BY Zenon, <2>r, <4>2 DEF RingInv, BoundsOK
        <5>2. ASSUME rd[q].pc \in {"head", "read", "take"}
              PROVE  rd[q].tail <= tail' /\ rd[q].left > 0
          BY <1>n, <2>1, <2>b, <5>2 DEF RingInv, BoundsOK
        <5> QED
          BY Zenon, <5>1, <5>2
      <4> QED
        BY Zenon, <4>1, <4>2
    <3> QED
      BY Zenon, <1>u, <2>w, <3>1 DEF RingInv, BoundsOK
  <2>5. ASSUME ~late', SpaceOK PROVE SpaceOK'
    <3>1. tail < head /\ head - tail <= Capacity
      BY Zenon, <1>1, <1>n, <2>5 DEF SpaceOK
    <3>2. tail' <= head /\ head - tail' < Capacity /\ head - tail' <= Capacity
      BY <1>n, <2>1, <3>1
    <3>3. \A w \in Writer :
            /\ wr'[w].taken <= TargetSamples
            /\ wr'[w].pc \in {"cap", "swap"} => tail' + wr'[w].drop + TargetSamples = head + wr'[w].taken
            /\ wr'[w].pc = "idle" => head - tail' <= MaxSamples
      <4> SUFFICES ASSUME NEW w \in Writer
                   PROVE  /\ wr'[w].taken <= TargetSamples
                          /\ wr'[w].pc \in {"cap", "swap"} =>
                                tail' + wr'[w].drop + TargetSamples = head + wr'[w].taken
                          /\ wr'[w].pc = "idle" => head - tail' <= MaxSamples
        BY Zenon
      <4>0. wr[w].taken \in Nat /\ wr[w].drop \in Nat /\ wr'[w].taken \in Nat
        BY Zenon, <1>n, <2>w, RingNumbers DEF PushState
      <4>1. wr'[w].taken <= TargetSamples
        BY <1>n, <2>5, <2>l, <4>0
      <4>2. ASSUME wr'[w].pc \in {"cap", "swap"}
            PROVE  tail' + wr'[w].drop + TargetSamples = head + wr'[w].taken
        <5>1. tail + wr[w].drop + TargetSamples = head + wr[w].taken
          BY Zenon, <2>5, <2>w, <4>2 DEF SpaceOK
        <5>2. wr'[w].drop = wr[w].drop /\ wr'[w].taken = wr[w].taken + 1
          BY Zenon, <2>w, <4>2
        <5>3. tail' = tail + 1
          BY Zenon, <2>1
        <5> QED
          BY <1>n, <4>0, <5>1, <5>2, <5>3
      <4>3. ASSUME wr'[w].pc = "idle" PROVE head - tail' <= MaxSamples
        <5>1. head - tail <= MaxSamples
          BY Zenon, <2>5, <2>w, <4>3 DEF SpaceOK
        <5> QED
          BY <1>n, <2>1, <5>1
      <4> QED
        BY Zenon, <4>1, <4>2, <4>3
    <3>4. \A q \in Reader : ~(rd'[q].pc \in {"read", "take"} /\ rd'[q].tail = tail')
      BY <1>n, <2>1, <2>c
    <3> QED
      BY Zenon, <1>u, <3>2, <3>3, <3>4 DEF SpaceOK
  <2>6. ASSUME SpaceOK, OrderOK PROVE OrderOK'
    <3>1. tail < head /\ rd[r].bits = Sample(cell, tail)
      BY Zenon, <1>1, <1>n, <2>6 DEF SpaceOK, OrderOK
    <3>2. tail \in tail .. head /\ \A p \in tail' .. head : p \in tail .. head /\ tail < p
      BY SMTT(30), <1>n, <2>1, <3>1
    <3>3. Last < rd[r].bits /\ rd[r].bits <= offered
      BY Zenon, <1>n, <2>6, <3>1, <3>2 DEF OrderOK
    <3>4. Last' = rd[r].bits
      BY <2>1, <2>p, <1>n DEF Last
    <3>5. \A i \in 1 .. Len(played') : played'[i] > (IF i = 1 THEN 0 ELSE played'[i - 1])
      <4> DEFINE m == Len(played)
      <4>1. /\ m \in Nat /\ Len(played') = m + 1 /\ played'[m + 1] = rd[r].bits
            /\ \A i \in 1 .. m : played'[i] = played[i]
        BY <1>n, <2>1, <2>p
      <4>2. Last = IF m = 0 THEN 0 ELSE played[m]
        BY <2>p DEF Last
      <4>3. \A i \in 1 .. m : played[i] > (IF i = 1 THEN 0 ELSE played[i - 1])
        BY Zenon, <2>6 DEF OrderOK
      <4> HIDE DEF m
      <4> SUFFICES ASSUME NEW i \in 1 .. m + 1
                   PROVE  played'[i] > (IF i = 1 THEN 0 ELSE played'[i - 1])
        BY Zenon, <4>1
      <4>4. CASE i = m + 1
        <5>1. (IF i = 1 THEN 0 ELSE played'[i - 1]) = Last
          BY <4>1, <4>2, <4>4
        <5>2. Last \in Nat
          BY Zenon, <1>n, SamplesAreNumbers
        <5> QED
          BY Zenon, <1>n, <3>3, <4>1, <4>4, <5>1, <5>2
      <4>5. CASE i # m + 1
        <5>1. i \in 1 .. m /\ (i # 1 => i - 1 \in 1 .. m)
          BY <4>1, <4>5
        <5>2. played'[i] = played[i] /\ (i # 1 => played'[i - 1] = played[i - 1])
          BY Zenon, <4>1, <5>1
        <5> QED
          BY Zenon, <4>3, <5>1, <5>2
      <4> QED
        BY Zenon, <4>4, <4>5
    <3>6. \A p \in tail' .. head : p < head => rd[r].bits < Sample(cell, p) /\ Sample(cell, p) <= offered
      BY Zenon, <2>6, <3>1, <3>2 DEF OrderOK
    <3>7. \A p, q \in tail' .. head : p < q /\ q < head => Sample(cell, p) < Sample(cell, q)
      BY Zenon, <2>6, <3>2 DEF OrderOK
    <3>8. \A w \in Writer :
            /\ wr'[w].pc \in {"store", "publish"} =>
                  /\ rd[r].bits < offered
                  /\ \A p \in tail' .. head : p < head => Sample(cell, p) < offered
            /\ wr'[w].pc = "publish" => Sample(cell, head) = offered
      BY Zenon, <2>6, <2>w, <3>1, <3>2 DEF OrderOK
    <3>9. \A q \in Reader : ~(rd'[q].pc = "take" /\ rd'[q].tail = tail')
      BY <1>n, <2>1, <2>c
    <3> QED
      BY Zenon, <1>u, <3>3, <3>4, <3>5, <3>6, <3>7, <3>8, <3>9 DEF OrderOK
  <2> QED
    BY Zenon, <2>3, <2>4, <2>5, <2>6, <2>l DEF RingInv
<1>2. CASE tail # rd[r].tail
  <2>1. rd' = [rd EXCEPT ![r] = y] /\ UNCHANGED <<tail, wr, played, late>>
    BY Zenon, <1>2 DEF Take
  <2>m. y \in PopState
    BY Zenon, <1>n, ZenonT(60) DEF PopState
  <2>x. y.pc = "head" /\ y.bits <= offered /\ y.tail = tail /\ y.left > 0
    BY Zenon, <1>n DEF PopState
  <2> HIDE DEF y
  <2>r. /\ rd' \in [Reader -> PopState] /\ rd'[r] = y
        /\ \A q \in Reader : q # r => rd'[q] = rd[q]
    BY Zenon, <1>n, <2>1, <2>m DEF RingTypes
  <2>t. y.tail <= tail
    BY <1>n, <2>x
  <2> QED
    BY Zenon, <1>u, <2>1, <2>m, <2>r, <2>t, <2>x, ReaderKeeps
<1> QED
  BY Zenon, <1>1, <1>2

-----------------------------------------------------------------------------
\* With one receiving task and any number of output callbacks, RingInv holds in
\* every state.
LEMMA RingInvariant == ASSUME OneWriter PROVE RingSpec => []RingInv
<1>1. RingInit => RingInv
  <2> SUFFICES ASSUME RingInit PROVE RingInv
    BY Zenon
  <2>0. /\ Capacity \in Nat /\ Modulus \in Nat /\ MaxSamples \in Nat /\ TargetSamples \in Nat
    BY Zenon, LatencyAssumption
  <2>1. NoPush \in PushState /\ NoPush.pc = "idle" /\ NoPush.drop = 0 /\ NoPush.taken = 0
    BY Zenon DEF NoPush, PushState
  <2>2. NoPop \in PopState /\ NoPop.pc = "idle" /\ NoPop.bits = 0
    BY Zenon DEF NoPop, PopState
  <2>3. /\ \A w \in Writer : wr[w] = NoPush
        /\ \A r \in Reader : rd[r] = NoPop
        /\ head = 0 /\ tail = 0 /\ offered = 0 /\ played = <<>>
        /\ \A s \in Slots : cell[s] = 0
    BY Zenon DEF RingInit
  <2>4. RingTypes
    <3>1. cell \in [Slots -> Nat] /\ played \in Seq(Nat)
      BY DEF RingInit
    <3>2. wr \in [Writer -> PushState] /\ rd \in [Reader -> PopState]
      BY Zenon, <2>1, <2>2 DEF RingInit
    <3>3. late \in BOOLEAN
      BY Zenon DEF RingInit
    <3> QED
      BY Zenon, <2>3, <3>1, <3>2, <3>3 DEF RingTypes
  <2>5. BoundsOK
    BY <2>0, <2>1, <2>2, <2>3 DEF BoundsOK
  <2>6. SpaceOK
    BY <2>0, <2>1, <2>2, <2>3 DEF SpaceOK
  <2>7. OrderOK
    BY <2>1, <2>2, <2>3 DEF OrderOK, Last
  <2> QED
    BY Zenon, <2>4, <2>5, <2>6, <2>7 DEF RingInv
<1>2. RingInv /\ [RingNext]_rvars => RingInv'
  <2> SUFFICES ASSUME RingInv, [RingNext]_rvars PROVE RingInv'
    BY Zenon
  <2>1. ASSUME NEW w \in Writer, PushSlice(w) \/ WriterStep(w) PROVE RingInv'
    BY Zenon, <2>1, PushSliceKeeps, LoadHeadKeeps, CheckRoomKeeps, StoreSampleKeeps, PublishKeeps,
       MeasureKeeps, LoadTailKeeps, DropBacklogKeeps DEF WriterStep
  <2>2. ASSUME NEW r \in Reader, Callback(r) \/ ReaderStep(r) PROVE RingInv'
    BY Zenon, <2>2, CallbackKeeps, DrainCountKeeps, PopKeeps, CheckEmptyKeeps, ReadSampleKeeps,
       TakeKeeps DEF ReaderStep
  <2>3. CASE UNCHANGED rvars
    <3>1. UNCHANGED <<cell, head, tail, wr, rd, offered, played, late>>
      BY Zenon, <2>3 DEF rvars
    <3> QED
      BY Zenon, <3>1 DEF RingInv, RingTypes, BoundsOK, SpaceOK, OrderOK, Last
  <2> QED
    BY Zenon, <2>1, <2>2, <2>3 DEF RingNext
<1> QED
  BY <1>1, <1>2, PTL DEF RingSpec

\* With one receiving task, the tail never passes the head and the buffer never
\* overflows, unless readers outrun a backlog that is being dropped
\* (buffer.rs: push, cap_latency), whatever the sizes and the number of readers.
THEOREM TailNeverPasses == ASSUME OneWriter PROVE RingSpec => []TailStaysBehindHead
<1>1. RingInv => TailStaysBehindHead
  <2> SUFFICES ASSUME RingInv PROVE TailStaysBehindHead
    BY Zenon
  <2>n. RingTypes /\ offered \in Nat /\ Modulus \in Nat /\ head \in Nat /\ tail \in Nat
    BY Zenon, RingNumbers DEF RingInv
  <2>1. cell \in [Slots -> 0 .. offered]
    BY <2>n DEF RingInv, RingTypes, BoundsOK
  <2>2. head \in 0 .. offered
    BY <2>n DEF RingInv, BoundsOK
  <2>3. ASSUME NEW w \in Writer
        PROVE  /\ wr[w].pc \in {"idle", "push", "room", "store", "publish", "len", "cap", "swap"}
               /\ wr[w].left \in Nat /\ wr[w].drop \in 0 .. Modulus
    <3>1. wr[w] \in PushState /\ wr[w].drop <= Modulus
      BY Zenon, <2>n DEF RingInv, RingTypes, BoundsOK
    <3> QED
      BY <2>n, <3>1 DEF PushState
  <2>4. ASSUME NEW r \in Reader
        PROVE  /\ rd[r].pc \in {"idle", "len", "pop", "head", "read", "take"}
               /\ rd[r].left \in Nat /\ rd[r].bits \in 0 .. offered
    <3>1. rd[r] \in PopState /\ rd[r].bits <= offered
      BY Zenon, <2>n DEF RingInv, RingTypes, BoundsOK
    <3> QED
      BY <2>n, <3>1 DEF PopState
  <2>5. RingTypeOK
    BY Zenon, <2>n, <2>1, <2>2, <2>3, <2>4 DEF RingTypeOK
  <2> QED
    BY Zenon, <2>5 DEF RingInv, SpaceOK, TailStaysBehindHead
<1> QED
  BY <1>1, RingInvariant, PTL

\* With one receiving task, the speaker gets what was pushed, once and in order,
\* under the same proviso (buffer.rs: push, pop).
THEOREM SpeakerPlaysInOrder == ASSUME OneWriter PROVE RingSpec => []PlaysInOrder
<1>1. RingInv => PlaysInOrder
  BY Zenon DEF RingInv, OrderOK, PlaysInOrder
<1> QED
  BY <1>1, RingInvariant, PTL

\* With one receiving task, at most max_samples wait when push_slice returns
\* (buffer.rs: cap_latency), although the length is a wrapped difference.
THEOREM BacklogStaysCapped == ASSUME OneWriter PROVE RingSpec => []BacklogIsCapped
<1>1. RingInv => BacklogIsCapped
  <2> SUFFICES ASSUME RingInv, ~late, NEW w \in Writer, wr[w].pc = "idle"
               PROVE  Distance(head, tail) <= MaxSamples
    BY Zenon DEF BacklogIsCapped
  <2>n. /\ head \in Nat /\ tail \in Nat /\ Capacity \in Nat /\ Modulus \in Nat
        /\ Capacity < Modulus
    BY Zenon, RingNumbers DEF RingInv
  <2>1. tail <= head /\ head - tail <= Capacity /\ head - tail <= MaxSamples
    BY Zenon DEF RingInv, SpaceOK
  <2>2. head - tail < Modulus
    BY <2>n, <2>1
  <2> QED
    BY Zenon, <2>n, <2>1, <2>2, DistanceIs
<1> QED
  BY <1>1, RingInvariant, PTL

-----------------------------------------------------------------------------
(***************************************************************************)
(* The key store, for any number of starts, passphrases and nostr keys.    *)
(* Its invariant says what a save that is under way, and has met no other, *)
(* leaves in the file, and why a run that is owed a key will load it: the  *)
(* file still holds the contents of the save it was started after.         *)
(***************************************************************************)

\* A run of the client.
ClientRun ==
    [at : {"new", "exists", "load", "save", "write", "running", "gone"},
     key : Key \cup {None}, pass : Secret \cup {None},
     found : Contents \cup {Absent, Torn}]

\* The file, the runs and the history have their types, a run has a
\* passphrase, and one that saves a key.
KeyTypeOK ==
    /\ file \in Contents \cup {Absent, Torn}
    /\ client \in [Run -> ClientRun]
    /\ kept \in Contents \cup {None} /\ cut \in BOOLEAN
    /\ owed \in [Run -> Key \cup {None}]
    /\ \A r \in Run : /\ client[r].at # "new" => client[r].pass \in Secret
                      /\ client[r].at \in {"save", "write"} => client[r].key \in Key

\* An undisturbed save is alone and has truncated the file; without one the
\* file is what was saved last.
SaveOK ==
    /\ file = Torn => cut \/ Writing # {}
    /\ ~cut => /\ \A q, r \in Writing : q = r
               /\ Writing # {} => file = Torn /\ kept = None
               /\ kept # None => file = kept

\* What a run is owed is what was saved last, under the run's passphrase.
OwedOK ==
    \A r \in Run : owed[r] # None =>
        /\ ~cut /\ Writing = {} /\ kept # None
        /\ kept.key = owed[r] /\ kept.pass = client[r].pass
        /\ client[r].at \in {"exists", "load", "running", "gone"}
        /\ client[r].at = "running" => client[r].key = owed[r]

\* A run that found a key store saves only a nostr key, and there is a file.
FoundOK ==
    \A r \in Run : client[r].found \in Contents =>
        /\ file # Absent
        /\ client[r].at \in {"save", "write"} => client[r].key \in {Nostr(n) : n \in NostrKey}

KeyInv == KeyTypeOK /\ SaveOK /\ OwedOK /\ FoundOK

\* At the first start there is no file and no run.
LEMMA InitKeyInv == KeyStoreInit => KeyInv
<1> SUFFICES ASSUME KeyStoreInit PROVE KeyInv
  BY Zenon
<1>1. KeyTypeOK
  BY Zenon DEF KeyStoreInit, KeyTypeOK, ClientRun
<1>2. Writing = {}
  BY Zenon DEF KeyStoreInit, Writing
<1>3. SaveOK /\ OwedOK /\ FoundOK
  BY Zenon, <1>2, KeyStoreAssumption DEF KeyStoreInit, SaveOK, OwedOK, FoundOK
<1> QED BY Zenon, <1>1, <1>3 DEF KeyInv

\* Choosing a key at the start writes nothing; a run without a key of its own
\* may be owed the one in the file.
LEMMA StartKeeps ==
    ASSUME KeyInv, NEW r \in Run, NEW nostr \in NostrKey \cup {Invalid, None},
           NEW anonymous \in BOOLEAN, NEW pass \in Passphrase \cup {None},
           Start(r, nostr, anonymous, pass)
    PROVE  KeyInv'
<1> DEFINE p == IF pass = None THEN Random(r) ELSE pass
           k == CASE nostr \in NostrKey -> Nostr(nostr)
                  [] nostr \notin NostrKey /\ anonymous -> Generated(r)
                  [] OTHER -> None
           a == CASE nostr \in NostrKey -> "save"
                  [] nostr \notin NostrKey /\ anonymous -> "running"
                  [] OTHER -> "exists"
<1>1. p \in Secret /\ k \in Key \cup {None}
  BY Zenon DEF Secret, Key
<1>2. /\ a \in {"save", "running", "exists"}
      /\ a = "save" => k \in {Nostr(n) : n \in NostrKey} /\ k \in Key
      /\ k = None => a = "exists"
  BY Zenon, KeyStoreAssumption DEF Key
<1>3. /\ client[r].at = "new"
      /\ client' = [client EXCEPT ![r] = [at |-> a, key |-> k, pass |-> p, found |-> file]]
      /\ owed' = [owed EXCEPT ![r] = IF k = None /\ ~cut /\ kept # None /\ kept.pass = p
                                       THEN kept.key ELSE None]
      /\ UNCHANGED <<file, kept, cut>>
  BY Zenon DEF Start
<1> HIDE DEF p, k, a
<1>4. kept # None => kept.key \in Key /\ kept.pass \in Secret
  BY Zenon DEF KeyInv, KeyTypeOK, Contents
<1>5. KeyTypeOK'
  BY Zenon, <1>1, <1>2, <1>3, <1>4 DEF KeyInv, KeyTypeOK, ClientRun
<1>6. Writing' = Writing
  BY Zenon, <1>2, <1>3 DEF KeyInv, KeyTypeOK, ClientRun, Writing
<1>7. SaveOK'
  BY Zenon, <1>3, <1>6 DEF KeyInv, SaveOK
<1>8. OwedOK'
  <2> SUFFICES ASSUME NEW q \in Run, owed'[q] # None
               PROVE  /\ ~cut' /\ Writing' = {} /\ kept' # None
                      /\ kept'.key = owed'[q] /\ kept'.pass = client'[q].pass
                      /\ client'[q].at \in {"exists", "load", "running", "gone"}
                      /\ client'[q].at = "running" => client'[q].key = owed'[q]
    BY Zenon DEF OwedOK
  <2>1. CASE q = r
    BY Zenon, <2>1, <1>2, <1>3, <1>6 DEF KeyInv, KeyTypeOK, SaveOK
  <2>2. CASE q # r
    BY Zenon, <2>2, <1>3, <1>6 DEF KeyInv, KeyTypeOK, OwedOK
  <2> QED BY Zenon, <2>1, <2>2
<1>9. FoundOK'
  <2> SUFFICES ASSUME NEW q \in Run, client'[q].found \in Contents
               PROVE  /\ file' # Absent
                      /\ client'[q].at \in {"save", "write"} =>
                           client'[q].key \in {Nostr(n) : n \in NostrKey}
    BY Zenon DEF FoundOK
  <2>1. CASE q = r
    BY Zenon, <2>1, <1>2, <1>3, KeyStoreAssumption DEF KeyInv, KeyTypeOK
  <2>2. CASE q # r
    BY Zenon, <2>2, <1>3 DEF KeyInv, KeyTypeOK, FoundOK
  <2> QED BY Zenon, <2>1, <2>2
<1> QED BY Zenon, <1>5, <1>7, <1>8, <1>9 DEF KeyInv

\* A run that was owed a key finds the file, and loads that key from it.
LEMMA ReadKeeps ==
    ASSUME KeyInv, NEW r \in Run, Exists(r) \/ Load(r) \/ SaveFails(r)
    PROVE  KeyInv'
<1>1. Generated(r) \in Key /\ Generated(r) \in Key \cup {None}
  BY Zenon DEF Key
<1>2. file \in Contents => file.key \in Key \cup {None}
  BY Zenon DEF Contents
<1>3. UNCHANGED <<file, kept, cut, owed>>
  BY Zenon DEF Exists, Load, SaveFails
<1>4. KeyTypeOK'
  <2>1. CASE Exists(r) /\ file = Absent
    <3> DEFINE x == [client[r] EXCEPT !.at = "save", !.key = Generated(r)]
    <3>1. client[r] \in ClientRun /\ client[r].pass \in Secret
      BY Zenon, <2>1 DEF KeyInv, KeyTypeOK, Exists, StepAs
    <3>2. x \in ClientRun /\ x.pass = client[r].pass /\ x.key \in Key
      BY Zenon, <1>1, <3>1 DEF ClientRun
    <3>3. client' = [client EXCEPT ![r] = x]
      BY Zenon, <2>1 DEF Exists, StepAs
    <3> HIDE DEF x
    <3> QED BY Zenon, <1>3, <3>1, <3>2, <3>3 DEF KeyInv, KeyTypeOK
  <2>2. CASE Exists(r) /\ file # Absent
    BY SMTT(60), <1>3, <2>2 DEF KeyInv, KeyTypeOK, ClientRun, Exists, Step
  <2>3. CASE Load(r)
    <3>1. PICK k \in Key \cup {None} : StepAs(r, "load", "running", k)
      BY Zenon, <1>1, <1>2, <2>3 DEF Load
    <3> DEFINE x == [client[r] EXCEPT !.at = "running", !.key = k]
    <3>2. client[r] \in ClientRun /\ client[r].at = "load" /\ client[r].pass \in Secret
      BY Zenon, <3>1 DEF KeyInv, KeyTypeOK, StepAs
    <3>3. x \in ClientRun /\ x.at = "running" /\ x.pass = client[r].pass
      BY Zenon, <3>2 DEF ClientRun
    <3>4. client' = [client EXCEPT ![r] = x]
      BY Zenon, <3>1 DEF StepAs
    <3> HIDE DEF x
    <3> QED BY Zenon, <1>3, <3>2, <3>3, <3>4 DEF KeyInv, KeyTypeOK
  <2>4. CASE SaveFails(r)
    BY <1>3, <2>4 DEF KeyInv, KeyTypeOK, ClientRun, SaveFails, Step
  <2> QED BY Zenon, <2>1, <2>2, <2>3, <2>4
<1>5. Writing' = Writing
  <2>1. CASE Exists(r)
    BY <2>1 DEF KeyInv, KeyTypeOK, ClientRun, Writing, Exists, Step, StepAs
  <2>2. CASE Load(r)
    BY ZenonT(60), <2>2 DEF KeyInv, KeyTypeOK, ClientRun, Writing, Load, StepAs
  <2>3. CASE SaveFails(r)
    BY Zenon, <2>3 DEF KeyInv, KeyTypeOK, ClientRun, Writing, SaveFails, Step
  <2> QED BY Zenon, <2>1, <2>2, <2>3
<1>6. SaveOK'
  BY Zenon, <1>3, <1>5 DEF KeyInv, SaveOK
<1>7. OwedOK'
  <2>1. CASE Exists(r)
    <3>1. \A q \in Run : owed[q] # None => file # Absent
      BY Zenon, KeyStoreAssumption DEF KeyInv, KeyTypeOK, SaveOK, OwedOK
    <3>2. CASE file = Absent
      BY Zenon, <1>3, <3>1, <3>2 DEF OwedOK
    <3>3. CASE file # Absent
      BY <1>3, <1>5, <2>1, <3>3 DEF KeyInv, KeyTypeOK, ClientRun, OwedOK, Exists, Step
    <3> QED BY Zenon, <3>2, <3>3
  <2>2. CASE Load(r)
    BY <1>3, <1>5, <2>2 DEF KeyInv, KeyTypeOK, SaveOK, OwedOK, Load, StepAs
  <2>3. CASE SaveFails(r)
    BY <1>3, <1>5, <2>3 DEF KeyInv, KeyTypeOK, OwedOK, SaveFails, Step
  <2> QED BY Zenon, <2>1, <2>2, <2>3
<1>8. FoundOK'
  <2>1. CASE Exists(r)
    BY <1>3, <2>1 DEF KeyInv, KeyTypeOK, ClientRun, FoundOK, Exists, Step, StepAs
  <2>2. CASE Load(r)
    BY <1>3, <2>2 DEF KeyInv, KeyTypeOK, ClientRun, FoundOK, Load, StepAs
  <2>3. CASE SaveFails(r)
    BY ZenonT(60), <1>3, <2>3 DEF KeyInv, KeyTypeOK, ClientRun, FoundOK, SaveFails, Step
  <2> QED BY Zenon, <2>1, <2>2, <2>3
<1> QED BY Zenon, <1>4, <1>6, <1>7, <1>8 DEF KeyInv

\* A save owes nothing to anybody while it lasts, and is disturbed if it finds
\* another one.
LEMMA TruncateKeeps ==
    ASSUME KeyInv, NEW r \in Run, Truncate(r)
    PROVE  KeyInv'
<1>1. KeyTypeOK'
  BY DEF KeyInv, KeyTypeOK, ClientRun, Truncate, Step
<1>2. Writing' = Writing \cup {r}
  BY DEF KeyInv, KeyTypeOK, Writing, Truncate, Step
<1>3. SaveOK'
  BY Zenon, <1>2 DEF SaveOK, Truncate
<1>4. OwedOK'
  BY Zenon DEF OwedOK, Truncate
<1>5. FoundOK'
  BY KeyStoreAssumption DEF KeyInv, KeyTypeOK, FoundOK, Truncate, Step
<1> QED BY Zenon, <1>1, <1>3, <1>4, <1>5 DEF KeyInv

\* An undisturbed save writes into the file it has truncated.
LEMMA WriteKeeps ==
    ASSUME KeyInv, NEW r \in Run, Write(r) \/ WriteFails(r)
    PROVE  KeyInv'
<1> DEFINE new == [key |-> client[r].key, pass |-> client[r].pass]
<1>1. new \in Contents
  BY Zenon DEF KeyInv, KeyTypeOK, Contents, Write, WriteFails, Step
<1>2. Step(r, "write", "running")
  BY Zenon DEF Write, WriteFails
<1>3. r \in Writing /\ Writing' = Writing \ {r}
  BY Zenon, <1>2 DEF KeyInv, KeyTypeOK, ClientRun, Writing, Step
<1>0. KeyTypeOK'
  <2>1. /\ client' \in [Run -> ClientRun]
        /\ \A q \in Run : /\ client'[q].at # "new" => client'[q].pass \in Secret
                          /\ client'[q].at \in {"save", "write"} => client'[q].key \in Key
    BY ZenonT(60), <1>2 DEF KeyInv, KeyTypeOK, ClientRun, Step
  <2>2. /\ file' \in Contents \cup {Absent, Torn} /\ UNCHANGED owed
        /\ kept' \in Contents \cup {None} /\ cut' \in BOOLEAN
    BY Zenon, <1>1 DEF KeyInv, KeyTypeOK, Write, WriteFails
  <2> QED BY Zenon, <2>1, <2>2 DEF KeyInv, KeyTypeOK
<1>4. SaveOK'
  <2>1. CASE Write(r) /\ cut
    BY Zenon, <1>3, <2>1 DEF SaveOK, Write
  <2>2. CASE Write(r) /\ ~cut
    BY Zenon, <1>1, <1>3, <2>2, KeyStoreAssumption DEF KeyInv, SaveOK, Write
  <2>3. CASE WriteFails(r)
    BY Zenon, <2>3 DEF SaveOK, WriteFails
  <2> QED BY Zenon, <2>1, <2>2, <2>3
<1>5. OwedOK'
  BY Zenon, <1>3 DEF KeyInv, OwedOK, Write, WriteFails
<1>6. FoundOK'
  <2>1. file' # Absent
    BY Zenon, <1>1, KeyStoreAssumption DEF Write, WriteFails
  <2> QED BY ZenonT(60), <1>2, <2>1 DEF KeyInv, KeyTypeOK, ClientRun, FoundOK, Step
<1> QED BY Zenon, <1>0, <1>4, <1>5, <1>6 DEF KeyInv

\* A run that ends in the middle of its save cuts it short; any other changes
\* nothing.
LEMMA EndKeeps ==
    ASSUME KeyInv, NEW r \in Run, End(r)
    PROVE  KeyInv'
<1>1. KeyTypeOK'
  BY DEF KeyInv, KeyTypeOK, ClientRun, End
<1>2. Writing' = Writing \ {r}
  BY DEF KeyInv, KeyTypeOK, Writing, End
<1>3. SaveOK'
  BY Zenon, <1>2 DEF KeyInv, SaveOK, End
<1>4. OwedOK'
  BY <1>2 DEF KeyInv, KeyTypeOK, OwedOK, End
<1>5. FoundOK'
  BY KeyStoreAssumption DEF KeyInv, KeyTypeOK, FoundOK, End
<1> QED BY Zenon, <1>1, <1>3, <1>4, <1>5 DEF KeyInv

\* Every step of every run keeps the invariant.
LEMMA StepKeyInv == KeyInv /\ [KeyStoreNext]_keyVars => KeyInv'
<1> SUFFICES ASSUME KeyInv, [KeyStoreNext]_keyVars PROVE KeyInv'
  BY Zenon
<1>1. CASE UNCHANGED keyVars
  <2>1. UNCHANGED <<file, client, kept, cut, owed>>
    BY Zenon, <1>1 DEF keyVars
  <2>2. Writing' = Writing
    BY Zenon, <2>1 DEF Writing
  <2>3. KeyTypeOK'
    BY Zenon, <2>1 DEF KeyInv, KeyTypeOK
  <2>4. SaveOK'
    BY Zenon, <2>1, <2>2 DEF KeyInv, SaveOK
  <2>5. OwedOK' /\ FoundOK'
    BY Zenon, <2>1, <2>2 DEF KeyInv, OwedOK, FoundOK
  <2> QED BY Zenon, <2>3, <2>4, <2>5 DEF KeyInv
<1>2. CASE KeyStoreNext
  <2>1. PICK r \in Run :
            \/ \E nostr \in NostrKey \cup {Invalid, None}, anonymous \in BOOLEAN,
                  pass \in Passphrase \cup {None} : Start(r, nostr, anonymous, pass)
            \/ Exists(r) \/ Load(r) \/ SaveFails(r)
            \/ Truncate(r) \/ Write(r) \/ WriteFails(r) \/ End(r)
    BY Zenon, <1>2 DEF KeyStoreNext
  <2>2. CASE \E nostr \in NostrKey \cup {Invalid, None}, anonymous \in BOOLEAN,
               pass \in Passphrase \cup {None} : Start(r, nostr, anonymous, pass)
    BY Zenon, <2>2, StartKeeps
  <2>3. CASE Exists(r) \/ Load(r) \/ SaveFails(r)
    BY Zenon, <2>3, ReadKeeps
  <2>4. CASE Truncate(r) \/ Write(r) \/ WriteFails(r) \/ End(r)
    BY Zenon, <2>4, TruncateKeeps, WriteKeeps, EndKeeps
  <2> QED BY Zenon, <2>1, <2>2, <2>3, <2>4
<1> QED BY Zenon, <1>1, <1>2

\* For any number of starts that overlap, fail or crash anywhere, the key of
\* an undisturbed save is in the file, and only an interrupted save leaves a
\* file without a key (save_encrypted_keystore).
THEOREM SavesAreThere == KeyStoreSpec => []SavedIsThere
<1>1. KeyInv => SavedIsThere
  BY Zenon DEF KeyInv, KeyTypeOK, SaveOK, SavedIsThere
<1> QED BY <1>1, InitKeyInv, StepKeyInv, PTL DEF KeyStoreSpec

\* Whoever starts the client with the passphrase of a completed save runs
\* under the key of that save (load_or_create_client_keypair).
THEOREM IdentityComesBack == KeyStoreSpec => []ComesBack
<1>1. KeyInv => ComesBack
  BY Zenon DEF KeyInv, OwedOK, ComesBack
<1> QED BY <1>1, InitKeyInv, StepKeyInv, PTL DEF KeyStoreSpec

\* No run but one with a nostr key changes a key store that was there when it
\* started: not with a wrong passphrase, not when the file is torn meanwhile.
THEOREM KeyStoresAreNotReplaced == KeyStoreSpec => OnlyNostrReplaces
<1> DEFINE Kept == \A r \in Run :
                      client'[r] # client[r] /\ client[r].found \in Contents /\ file' # file
                         => client[r].key \in {Nostr(n) : n \in NostrKey}
<1>1. KeyInv /\ [KeyStoreNext]_keyVars => [Kept]_keyVars
  <2> SUFFICES ASSUME KeyInv, KeyStoreNext,
                      NEW r \in Run, client'[r] # client[r], client[r].found \in Contents, file' # file
               PROVE  client[r].key \in {Nostr(n) : n \in NostrKey}
    BY Zenon
  <2>1. PICK q \in Run : Truncate(q) \/ Write(q) \/ WriteFails(q) \/ End(q)
    BY DEF KeyStoreNext, Start, Exists, Load, SaveFails
  <2>2. client[q].at \in {"save", "write"}
    BY Zenon, <2>1 DEF Truncate, Write, WriteFails, End, Step, Writing
  <2>3. q = r
    BY Zenon, <2>1 DEF KeyInv, KeyTypeOK, Truncate, Write, WriteFails, End, Step
  <2> QED BY Zenon, <2>2, <2>3 DEF KeyInv, FoundOK
<1> QED BY <1>1, InitKeyInv, StepKeyInv, PTL DEF KeyStoreSpec, OnlyNostrReplaces

-----------------------------------------------------------------------------
(***************************************************************************)
(* The call handle, for any number of prompts and notices, any capacity of *)
(* the prompt queue and any backlog of the broadcast channel.              *)
(*                                                                         *)
(* Its invariant follows the threads to their end, finds every prompt that *)
(* waits in exactly one place, and orders what was told before what waits. *)
(***************************************************************************)

\* Threads, tasks and counters are in their ranges, and queues hold requests
\* that have come and notifications that were emitted.
ThreadsOK ==
    /\ kind \in {"call", "room"} /\ callback \in BOOLEAN /\ stop \in BOOLEAN /\ lagged \in BOOLEAN
    /\ host \in {"idle", "joining", "done"}
    /\ worker \in {"spawned", "connecting", "running", "returned", "dropping", "exited"}
    /\ prompter \in {"absent", "recv", "call", "callback"}
    /\ notifier \in {"absent", "recv", "callback", "ended"}
    /\ worker = "spawned" => prompter = "absent" /\ notifier = "absent" /\ emitted = 0
    /\ worker = "exited" => prompter \in {"absent", "recv"} /\ notifier # "callback"
    /\ host = "done" => worker = "exited"

\* Every request that waits is in one place, and nothing else is.
PromptsOK ==
    /\ requests \in 0 .. MaxRequests /\ held \in 0 .. requests /\ pending \in 0 .. requests
    /\ incoming \in Seq(1 .. requests) /\ Len(incoming) <= QueueSize
    /\ answer \in [1 .. MaxRequests -> {"none", "waiting", "yes", "no", "dropped"}]
    /\ worker # "exited" =>
        /\ pending # 0 => answer[pending] = "waiting"
        /\ held # 0 => answer[held] = "waiting" /\ held # pending
        /\ \A i \in 1 .. Len(incoming) :
              answer[incoming[i]] = "waiting" /\ incoming[i] \notin {held, pending}
        /\ \A i, j \in 1 .. Len(incoming) : i # j => incoming[i] # incoming[j]
        /\ \A r \in 1 .. requests : answer[r] = "waiting" =>
              r \in {held, pending} \/ \E i \in 1 .. Len(incoming) : incoming[i] = r

\* The unread notifications follow those the host was told of.
NoticesOK ==
    /\ emitted \in Nat /\ notices \in Seq(Nat) /\ told \in Seq(Nat)
    /\ Len(notices) <= Backlog
    /\ notifier = "absent" => notices = <<>> /\ told = <<>>
    /\ (notifier # "absent" /\ ~lagged) =>
          /\ emitted = Len(told) + Len(notices)
          /\ \A i \in 1 .. Len(notices) : notices[i] = Len(told) + i
    /\ \A i \in 1 .. Len(told) : told[i] = i

HandleInv == ThreadsOK /\ PromptsOK /\ NoticesOK

-----------------------------------------------------------------------------
\* The thread, its tasks and the host's free move together: the runtime goes
\* only when no task is inside a callback, and the join returns after that.
LEMMA ThreadsStep ==
    ASSUME HandleInv, HandleNext
    PROVE  ThreadsOK'
<1> USE DEF HandleInv, ThreadsOK, fixed, prompts, notes
<1>1. CASE Worker \/ EndsItself
  BY ZenonT(60), <1>1 DEF Worker, EndsItself, NoRuntime, BeginCall, BeginRoom, Connect, StopSeen, DropRuntime, Shutdown
<1>2. CASE Prompter
  BY Zenon, <1>2 DEF Prompter, SendPrompt, SetPending, AskHost, Alive
<1>3. CASE TellHost \/ NotifierReturns
  BY Zenon, <1>3 DEF TellHost, NotifierReturns, Alive
<1>4. CASE CallRequest
  BY ZenonT(60), <1>4 DEF CallRequest, Dispatching
<1>5. CASE NotifyCallEvent
  <2>1. lagged' \in BOOLEAN /\ worker \in {"running", "returned"}
    BY Zenon, <1>5 DEF NotifyCallEvent, Dispatching
  <2>2. UNCHANGED <<kind, callback, host, stop, worker, prompter, notifier>>
    BY Zenon, <1>5 DEF NotifyCallEvent
  <2> QED
    BY ZenonT(60), <2>1, <2>2
<1>6. CASE RequestStop \/ Free
  <2>1. stop' \in BOOLEAN
    BY Zenon, <1>6 DEF RequestStop, Free
  <2>2. /\ UNCHANGED <<kind, callback, worker, prompter, notifier, emitted, lagged>>
        /\ host' = host \/ host' = "joining"
    BY Zenon, <1>6 DEF RequestStop, Free
  <2> QED
    BY <2>1, <2>2
<1>7. CASE Respond \/ Joined
  BY Zenon, <1>7 DEF Respond, Joined, HostCall
<1> QED
  BY Zenon, <1>1, <1>2, <1>3, <1>4, <1>5, <1>6, <1>7 DEF HandleNext

\* A request enters the dispatch loop, moves on to the channel, becomes the one
\* the host can answer, and leaves when it has an answer.
LEMMA PromptsStep ==
    ASSUME HandleInv, HandleNext
    PROVE  PromptsOK'
<1>1. CASE CallRequest
  <2>1. /\ held = 0 /\ requests < MaxRequests /\ worker # "exited"
        /\ requests' = requests + 1 /\ held' = requests + 1
        /\ answer' = [answer EXCEPT ![requests + 1] = "waiting"]
        /\ UNCHANGED <<worker, incoming, pending>>
    BY Zenon, <1>1 DEF CallRequest, Dispatching
  <2>2. /\ requests' \in 0 .. MaxRequests /\ held' \in 0 .. requests' /\ pending' \in 0 .. requests'
        /\ Len(incoming') <= QueueSize
        /\ answer' \in [1 .. MaxRequests -> {"none", "waiting", "yes", "no", "dropped"}]
    BY <2>1, BacklogAssumption DEF HandleInv, PromptsOK
  <2>3. incoming' \in Seq(1 .. requests') /\ \A i \in 1 .. Len(incoming) : incoming[i] \in 1 .. requests
    <3>1. incoming \in Seq(1 .. requests) /\ requests \in Nat
      BY BacklogAssumption DEF HandleInv, PromptsOK
    <3> QED
      BY <2>1, <3>1
  <2>4. answer'[requests + 1] = "waiting" /\ \A r \in 1 .. requests : answer'[r] = answer[r]
    BY <2>1, BacklogAssumption DEF HandleInv, PromptsOK
  <2> QED
    BY SMTT(30), <2>1, <2>2, <2>3, <2>4, BacklogAssumption DEF HandleInv, PromptsOK
<1>2. CASE SendPrompt
  <2> DEFINE n == Len(incoming)
  <2>1. /\ held # 0 /\ n < QueueSize /\ incoming' = Append(incoming, held) /\ held' = 0
        /\ worker # "exited" /\ UNCHANGED <<worker, pending, answer, requests>>
    BY Zenon, <1>2 DEF SendPrompt, Alive
  <2>2. /\ n \in Nat /\ Len(incoming') = n + 1 /\ incoming'[n + 1] = held
        /\ incoming' \in Seq(1 .. requests)
        /\ \A i \in 1 .. n : incoming'[i] = incoming[i]
    BY <2>1, BacklogAssumption DEF HandleInv, PromptsOK
  <2>3. /\ requests' \in 0 .. MaxRequests /\ held' \in 0 .. requests' /\ pending' \in 0 .. requests'
        /\ incoming' \in Seq(1 .. requests') /\ Len(incoming') <= QueueSize
        /\ answer' \in [1 .. MaxRequests -> {"none", "waiting", "yes", "no", "dropped"}]
    BY <2>1, <2>2, BacklogAssumption DEF HandleInv, PromptsOK
  <2>4. \A i \in 1 .. Len(incoming') : i \in 1 .. n \/ i = n + 1
    BY <2>2
  <2>5. \A i \in 1 .. n : incoming[i] # 0
    BY SMTT(30), BacklogAssumption DEF HandleInv, PromptsOK
  <2> HIDE DEF n
  <2>6. /\ \A i \in 1 .. Len(incoming') :
              answer'[incoming'[i]] = "waiting" /\ incoming'[i] \notin {held', pending'}
        /\ \A i, j \in 1 .. Len(incoming') : i # j => incoming'[i] # incoming'[j]
    BY SMTT(30), <2>1, <2>2, <2>4, <2>5 DEF HandleInv, PromptsOK, n
  <2>7. \A r \in 1 .. requests' : answer'[r] = "waiting" =>
            r \in {held', pending'} \/ \E i \in 1 .. Len(incoming') : incoming'[i] = r
    BY SMTT(30), <2>1, <2>2, <2>4 DEF HandleInv, PromptsOK, n
  <2>8. pending' # 0 => answer'[pending'] = "waiting"
    BY Zenon, <2>1 DEF HandleInv, PromptsOK
  <2> QED
    BY Zenon, <2>1, <2>3, <2>6, <2>7, <2>8 DEF PromptsOK
<1>3. CASE SetPending
  <2> DEFINE n == Len(incoming)
  <2>1. /\ incoming # <<>> /\ incoming' = Tail(incoming) /\ pending' = Head(incoming)
        /\ answer' = IF pending = 0 THEN answer ELSE [answer EXCEPT ![pending] = "dropped"]
        /\ worker # "exited" /\ UNCHANGED <<worker, held, requests>>
    BY Zenon, <1>3 DEF SetPending, Alive
  <2>2. /\ n \in Nat \ {0} /\ pending' = incoming[1] /\ Len(incoming') = n - 1
        /\ incoming' \in Seq(1 .. requests) /\ incoming[1] \in 1 .. requests
        /\ \A i \in 1 .. n - 1 : incoming'[i] = incoming[i + 1]
    BY SMTT(30), <2>1, BacklogAssumption DEF HandleInv, PromptsOK
  <2>3. /\ answer' \in [1 .. MaxRequests -> {"none", "waiting", "yes", "no", "dropped"}]
        /\ \A r \in 1 .. MaxRequests : r # pending => answer'[r] = answer[r]
        /\ pending # 0 => answer'[pending] # "waiting"
    <3>1. CASE pending = 0
      BY Zenon, <2>1, <3>1 DEF HandleInv, PromptsOK
    <3>2. CASE pending # 0
      <4>1. pending \in 1 .. MaxRequests
        BY SMTT(30), <3>2, BacklogAssumption DEF HandleInv, PromptsOK
      <4> QED
        BY Zenon, <2>1, <3>2, <4>1 DEF HandleInv, PromptsOK
    <3> QED
      BY Zenon, <3>1, <3>2
  <2>4. /\ requests' \in 0 .. MaxRequests /\ held' \in 0 .. requests' /\ pending' \in 0 .. requests'
        /\ incoming' \in Seq(1 .. requests') /\ Len(incoming') <= QueueSize
    BY SMTT(30), <2>1, <2>2, BacklogAssumption DEF HandleInv, PromptsOK
  <2>5. \A i \in 1 .. n : incoming[i] \in 1 .. MaxRequests /\ incoming[i] # pending
    BY SMTT(30), <2>1, BacklogAssumption DEF HandleInv, PromptsOK
  <2>6. \A i \in 1 .. n - 1 : i + 1 \in 1 .. n /\ i + 1 # 1
    BY <2>2
  <2>7. \A i \in 1 .. n : i = 1 \/ (i - 1 \in 1 .. n - 1 /\ (i - 1) + 1 = i)
    BY <2>2
  <2>8. 1 \in 1 .. n
    BY <2>2
  <2>9. /\ held \in 1 .. MaxRequests \/ held = 0
        /\ \A i, j \in 1 .. n - 1 : i # j => i + 1 # j + 1
    BY SMTT(30), BacklogAssumption DEF HandleInv, PromptsOK
  <2> HIDE DEF n
  <2>10. /\ answer'[pending'] = "waiting"
         /\ held' # 0 => answer'[held'] = "waiting" /\ held' # pending'
    BY SMTT(30), <2>1, <2>2, <2>3, <2>5, <2>8, <2>9 DEF HandleInv, PromptsOK, n
  <2>11. /\ \A i \in 1 .. Len(incoming') :
              answer'[incoming'[i]] = "waiting" /\ incoming'[i] \notin {held', pending'}
         /\ \A i, j \in 1 .. Len(incoming') : i # j => incoming'[i] # incoming'[j]
    BY SMTT(30), <2>1, <2>2, <2>3, <2>5, <2>6, <2>8, <2>9 DEF HandleInv, PromptsOK, n
  <2>12. \A r \in 1 .. requests' : answer'[r] = "waiting" =>
            r \in {held', pending'} \/ \E i \in 1 .. Len(incoming') : incoming'[i] = r
    <3> SUFFICES ASSUME NEW r \in 1 .. requests, answer'[r] = "waiting",
                        r # held, r # incoming[1]
                 PROVE  \E i \in 1 .. n - 1 : incoming'[i] = r
      BY Zenon, <2>1, <2>2
    <3>1. r # pending /\ r \in 1 .. MaxRequests
      BY <2>3, BacklogAssumption DEF HandleInv, PromptsOK
    <3>2. PICK i \in 1 .. n : incoming[i] = r
      BY Zenon, <2>1, <2>3, <3>1 DEF HandleInv, PromptsOK, n
    <3>3. i - 1 \in 1 .. n - 1 /\ (i - 1) + 1 = i
      BY Zenon, <2>7, <3>2
    <3>4. incoming'[i - 1] = incoming[(i - 1) + 1]
      BY Zenon, <2>2, <3>3
    <3> QED
      BY Zenon, <3>2, <3>3, <3>4
  <2> QED
    BY Zenon, <2>1, <2>3, <2>4, <2>10, <2>11, <2>12 DEF PromptsOK
<1>4. CASE Respond
  <2>1. /\ UNCHANGED <<worker, held, incoming, requests>>
        /\ \/ UNCHANGED <<pending, answer>>
           \/ /\ pending # 0 /\ pending' = 0
              /\ \E a \in {"yes", "no"} :
                    answer' = [answer EXCEPT ![pending] = IF @ = "waiting" THEN a ELSE @]
    BY Zenon, <1>4 DEF Respond
  <2>2. CASE UNCHANGED <<pending, answer>>
    BY ZenonT(60), <2>1, <2>2 DEF HandleInv, PromptsOK
  <2>3. CASE pending # 0 /\ pending' = 0 /\ ~UNCHANGED <<pending, answer>>
    <3>1. PICK a \in {"yes", "no"} :
              answer' = [answer EXCEPT ![pending] = IF @ = "waiting" THEN a ELSE @]
      BY Zenon, <2>1, <2>3
    <3>2. /\ answer' \in [1 .. MaxRequests -> {"none", "waiting", "yes", "no", "dropped"}]
          /\ \A r \in 1 .. MaxRequests : r # pending => answer'[r] = answer[r]
          /\ answer'[pending] # "waiting"
      BY <2>3, <3>1, BacklogAssumption DEF HandleInv, PromptsOK
    <3>3. /\ \A i \in 1 .. Len(incoming) : incoming[i] \in 1 .. MaxRequests /\ incoming[i] # 0
          /\ held \in 1 .. MaxRequests \/ held = 0
          /\ \A r \in 1 .. requests : r \in 1 .. MaxRequests
      BY SMTT(30), BacklogAssumption DEF HandleInv, PromptsOK
    <3>4. pending' \in 0 .. requests
      BY <2>3 DEF HandleInv, PromptsOK
    <3> QED
      BY SMTT(30), <2>1, <2>3, <3>2, <3>3, <3>4 DEF HandleInv, PromptsOK
  <2> QED
    BY Zenon, <2>1, <2>2, <2>3
<1>5. CASE Shutdown
  <2>1. /\ worker' = "exited" /\ held' = 0 /\ incoming' = <<>> /\ UNCHANGED <<pending, requests>>
        /\ answer' = [r \in DOMAIN answer |-> IF answer[r] = "waiting" THEN "dropped" ELSE answer[r]]
    BY Zenon, <1>5 DEF Shutdown
  <2>2. answer' \in [1 .. MaxRequests -> {"none", "waiting", "yes", "no", "dropped"}]
    BY Zenon, <2>1 DEF HandleInv, PromptsOK
  <2> QED
    BY <2>1, <2>2, BacklogAssumption DEF HandleInv, PromptsOK
<1>6. CASE /\ UNCHANGED <<held, incoming, pending, answer, requests>>
           /\ worker = "exited" => worker' = "exited"
  BY Zenon, <1>6 DEF HandleInv, PromptsOK
<1>7. CASE NoRuntime \/ BeginCall \/ BeginRoom \/ Connect
  BY Zenon, <1>6, <1>7 DEF NoRuntime, BeginCall, BeginRoom, Connect, prompts
<1>8. CASE StopSeen \/ DropRuntime \/ EndsItself
  BY Zenon, <1>6, <1>8 DEF StopSeen, DropRuntime, EndsItself, prompts
<1>9. CASE AskHost \/ TellHost \/ NotifierReturns \/ NotifyCallEvent \/ RequestStop \/ Free \/ Joined
  BY Zenon, <1>6, <1>9
     DEF AskHost, TellHost, NotifierReturns, NotifyCallEvent, RequestStop, Free, Joined, prompts
<1> QED
  BY ZenonT(60), <1>1, <1>2, <1>3, <1>4, <1>5, <1>7, <1>8, <1>9 DEF HandleNext, Worker, Prompter

\* A notification is appended to the unread ones, read from their front, or
\* overwritten, which ends the order and the task.
LEMMA NoticesStep ==
    ASSUME HandleInv, HandleNext
    PROVE  NoticesOK'
<1>1. CASE NotifyCallEvent
  <2>1. /\ worker \in {"running", "returned"} /\ emitted' = emitted + 1
        /\ UNCHANGED <<notifier, told>>
    BY Zenon, <1>1 DEF NotifyCallEvent, Dispatching
  <2>2. CASE notifier = "absent"
    <3>1. UNCHANGED <<notices, lagged>>
      BY Zenon, <1>1, <2>2 DEF NotifyCallEvent
    <3> QED
      BY <2>1, <2>2, <3>1 DEF HandleInv, NoticesOK
  <2>3. CASE notifier # "absent" /\ Len(notices) < Backlog
    <3> DEFINE n == Len(notices)
    <3>1. notices' = Append(notices, emitted + 1) /\ UNCHANGED lagged
      BY Zenon, <1>1, <2>3 DEF NotifyCallEvent
    <3>2. /\ notices' \in Seq(Nat) /\ Len(notices') = n + 1 /\ n \in Nat
          /\ notices'[n + 1] = emitted + 1 /\ \A i \in 1 .. n : notices'[i] = notices[i]
      BY <3>1 DEF HandleInv, NoticesOK
    <3>3. \A i \in 1 .. n + 1 : i \in 1 .. n \/ i = n + 1
      BY <3>2
    <3>4. Len(notices') <= Backlog /\ emitted' \in Nat
      BY <2>1, <2>3, <3>2, BacklogAssumption DEF HandleInv, NoticesOK
    <3>5. ~lagged =>
             /\ emitted + 1 = Len(told) + (n + 1)
             /\ \A i \in 1 .. n + 1 : notices'[i] = Len(told) + i
      <4> SUFFICES ASSUME ~lagged PROVE /\ emitted + 1 = Len(told) + (n + 1)
                                        /\ \A i \in 1 .. n + 1 : notices'[i] = Len(told) + i
        BY Zenon
      <4>1. emitted = Len(told) + n /\ \A i \in 1 .. n : notices[i] = Len(told) + i
        BY Zenon, <2>3 DEF HandleInv, NoticesOK
      <4>2. Len(told) \in Nat
        BY DEF HandleInv, NoticesOK
      <4>3. ASSUME NEW i \in 1 .. n + 1 PROVE notices'[i] = Len(told) + i
        <5>1. CASE i \in 1 .. n
          BY Zenon, <3>2, <4>1, <5>1
        <5>2. CASE i = n + 1
          BY <3>2, <4>1, <4>2, <5>2
        <5> QED
          BY Zenon, <3>3, <5>1, <5>2
      <4> QED
        BY <3>2, <4>1, <4>2, <4>3
    <3> QED
      BY Zenon, <2>1, <2>3, <3>1, <3>2, <3>4, <3>5 DEF HandleInv, NoticesOK
  <2>4. CASE notifier # "absent" /\ ~(Len(notices) < Backlog)
    <3>1. notices' = Append(Tail(notices), emitted + 1) /\ lagged'
      BY Zenon, <1>1, <2>4 DEF NotifyCallEvent
    <3>2. notices # <<>> /\ Tail(notices) \in Seq(Nat) /\ Len(Tail(notices)) = Len(notices) - 1
      BY <2>4, BacklogAssumption DEF HandleInv, NoticesOK
    <3>3. notices' \in Seq(Nat) /\ Len(notices') = Len(notices)
      BY <3>1, <3>2 DEF HandleInv, NoticesOK
    <3> QED
      BY <2>1, <2>4, <3>1, <3>3 DEF HandleInv, NoticesOK
  <2> QED
    BY Zenon, <2>2, <2>3, <2>4
<1>2. CASE TellHost
  <2>1. notifier = "recv" /\ notices # <<>> /\ UNCHANGED <<lagged, emitted>>
    BY Zenon, <1>2 DEF TellHost
  <2>2. CASE lagged
    <3>1. notifier' = "ended" /\ UNCHANGED <<told, notices>>
      BY Zenon, <1>2, <2>2 DEF TellHost
    <3> QED
      BY Zenon, <2>1, <2>2, <3>1 DEF HandleInv, NoticesOK
  <2>3. CASE ~lagged
    <3> DEFINE n == Len(notices)  m == Len(told)
    <3>1. notifier' = "callback" /\ told' = Append(told, Head(notices)) /\ notices' = Tail(notices)
      BY Zenon, <1>2, <2>3 DEF TellHost
    <3>2. /\ n \in Nat \ {0} /\ m \in Nat /\ Len(notices') = n - 1 /\ Len(told') = m + 1
          /\ notices' \in Seq(Nat) /\ told' \in Seq(Nat)
          /\ told'[m + 1] = notices[1] /\ \A i \in 1 .. m : told'[i] = told[i]
          /\ \A i \in 1 .. n - 1 : notices'[i] = notices[i + 1]
      BY <2>1, <3>1 DEF HandleInv, NoticesOK
    <3>3. emitted = m + n /\ \A i \in 1 .. n : notices[i] = m + i
      BY Zenon, <2>1, <2>3 DEF HandleInv, NoticesOK
    <3>4. emitted' = Len(told') + Len(notices') /\ Len(notices') <= Backlog
      BY SMTT(30), <2>1, <3>2, <3>3, BacklogAssumption DEF HandleInv, NoticesOK
    <3>5. \A i \in 1 .. Len(told') : told'[i] = i
      <4>1. \A i \in 1 .. m : told[i] = i
        BY Zenon DEF HandleInv, NoticesOK
      <4>2. \A i \in 1 .. m + 1 : i \in 1 .. m \/ i = m + 1
        BY <3>2
      <4>3. notices[1] = m + 1
        BY <3>2, <3>3
      <4> HIDE DEF m, n
      <4>4. ASSUME NEW i \in 1 .. m + 1 PROVE told'[i] = i
        <5>1. CASE i \in 1 .. m
          <6>1. told'[i] = told[i]
            BY Zenon, <3>2, <5>1
          <6> QED
            BY Zenon, <4>1, <5>1, <6>1
        <5>2. CASE i = m + 1
          BY Zenon, <3>2, <4>3, <5>2
        <5> QED
          BY Zenon, <4>2, <5>1, <5>2
      <4> QED
        BY Zenon, <3>2, <4>4
    <3>6. \A i \in 1 .. Len(notices') : notices'[i] = Len(told') + i
      BY SMTT(30), <3>2, <3>3
    <3>7. emitted' \in Nat
      BY Zenon, <2>1 DEF HandleInv, NoticesOK
    <3> QED
      BY Zenon, <3>1, <3>2, <3>4, <3>5, <3>6, <3>7 DEF NoticesOK
  <2> QED
    BY Zenon, <2>2, <2>3
<1>3. CASE BeginCall \/ BeginRoom
  <2>1. /\ UNCHANGED <<notices, lagged, emitted, told>> /\ worker = "spawned"
    BY Zenon, <1>3 DEF BeginCall, BeginRoom
  <2>2. notifier = "absent" /\ emitted = 0
    BY Zenon, <2>1 DEF HandleInv, ThreadsOK
  <2> QED
    BY <2>1, <2>2, BacklogAssumption DEF HandleInv, NoticesOK
<1>4. CASE NotifierReturns
  BY Zenon, <1>4 DEF NotifierReturns, HandleInv, NoticesOK
<1>5. CASE UNCHANGED notes
  BY Zenon, <1>5 DEF HandleInv, NoticesOK, notes
<1>6. CASE NoRuntime \/ Connect \/ StopSeen \/ DropRuntime \/ Shutdown \/ EndsItself
  BY Zenon, <1>5, <1>6 DEF NoRuntime, Connect, StopSeen, DropRuntime, Shutdown, EndsItself
<1>7. CASE Prompter
  BY Zenon, <1>5, <1>7 DEF Prompter, SendPrompt, SetPending, AskHost
<1>8. CASE CallRequest \/ RequestStop \/ Respond \/ Free \/ Joined
  BY Zenon, <1>5, <1>8 DEF CallRequest, RequestStop, Respond, Free, Joined
<1> QED
  BY Zenon, <1>1, <1>2, <1>3, <1>4, <1>6, <1>7, <1>8 DEF HandleNext, Worker

\* HandleInv is inductive.
LEMMA HandleInvariant == HandleSpec => []HandleInv
<1>1. HandleInit => HandleInv
  <2> SUFFICES ASSUME HandleInit PROVE HandleInv
    BY Zenon
  <2>1. stop \in BOOLEAN /\ lagged \in BOOLEAN
    BY Zenon DEF HandleInit
  <2>2. ThreadsOK
    BY Zenon, <2>1 DEF HandleInit, ThreadsOK
  <2>3. PromptsOK
    BY BacklogAssumption DEF HandleInit, PromptsOK
  <2>4. NoticesOK
    BY BacklogAssumption DEF HandleInit, NoticesOK
  <2> QED
    BY Zenon, <2>2, <2>3, <2>4 DEF HandleInv
<1>2. HandleInv /\ [HandleNext]_hvars => HandleInv'
  <2>1. CASE HandleNext
    BY Zenon, <2>1, ThreadsStep, PromptsStep, NoticesStep DEF HandleInv
  <2>2. ASSUME HandleInv, UNCHANGED hvars PROVE HandleInv'
    <3>1. ThreadsOK'
      BY <2>2 DEF hvars, HandleInv, ThreadsOK
    <3>2. PromptsOK'
      BY Zenon, <2>2 DEF hvars, HandleInv, PromptsOK
    <3>3. NoticesOK'
      BY Zenon, <2>2 DEF hvars, HandleInv, NoticesOK
    <3> QED
      BY Zenon, <3>1, <3>2, <3>3 DEF HandleInv
  <2> QED
    BY Zenon, <2>1, <2>2
<1> QED
  BY <1>1, <1>2, PTL DEF HandleSpec

\* When wpapi_call_free has returned no callback runs or will start.
THEOREM NoCallbacksAfterFree == HandleSpec => []NoCallbackAfterFree
<1>1. HandleInv => NoCallbackAfterFree
  BY Zenon DEF HandleInv, ThreadsOK, NoCallbackAfterFree
<1> QED
  BY <1>1, HandleInvariant, PTL

\* While the runtime lives no call request is forgotten or answered twice.
THEOREM WaitingStayAnswerable == HandleSpec => []WaitingCanBeAnswered
<1>1. HandleInv => WaitingCanBeAnswered
  <2> SUFFICES ASSUME HandleInv PROVE WaitingCanBeAnswered
    BY Zenon
  <2>1. {callback, stop, lagged} \subseteq BOOLEAN
    BY Zenon DEF HandleInv, ThreadsOK
  <2>2. {held, pending} \subseteq 0 .. requests /\ Len(incoming) <= QueueSize
    BY Zenon DEF HandleInv, PromptsOK
  <2>3. HandleTypeOK
    BY Zenon, <2>1, <2>2 DEF HandleInv, ThreadsOK, PromptsOK, NoticesOK, HandleTypeOK
  <2> QED
    BY Zenon, <2>3 DEF HandleInv, PromptsOK, WaitingCanBeAnswered
<1> QED
  BY <1>1, HandleInvariant, PTL

\* The host is told of every notification in the order they were emitted, and
\* of none after one that it missed.
THEOREM NoticesToldInOrder == HandleSpec => []ToldInOrder
<1>1. HandleInv => ToldInOrder
  BY Zenon DEF HandleInv, NoticesOK, ToldInOrder
<1> QED
  BY <1>1, HandleInvariant, PTL
=============================================================================
