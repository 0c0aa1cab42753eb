----------------------------- MODULE Daemon_proofs -----------------------------
(***************************************************************************)
(* The invariants of two parts of the daemon that stand alone: what a      *)
(* request passes before it is heard, and the mesh.  The two models have   *)
(* no variable in common.                                                  *)
(***************************************************************************)
EXTENDS Admission, Mesh, FiniteSetTheorems, TLAPS

-----------------------------------------------------------------------------
(***************************************************************************)
(* The rate limiter by itself implements the ideal token bucket, for any   *)
(* number of sources and any rates under which an idle bucket would have   *)
(* filled up, and it does so in front of the routes.  Behind it, the       *)
(* anti-replay cache accepts a signature once and stays within its limit,  *)
(* for any number of handlers, signatures, any drift and any size of the   *)
(* cache from two on.                                                      *)
(***************************************************************************)

\* The limiter.

\* What a well-formed bucket holds lies between nothing and a burst.
LEMMA TokensType ==
    ASSUME NEW b \in Bucket, NEW t \in Nat, b.last_update <= t
    PROVE  Tokens(b, t) \in 0 .. Burst
<1> DEFINE gain == (t - b.last_update) * Refill
<1>1. b.tokens \in 0 .. Burst /\ t - b.last_update \in Nat /\ Burst \in Nat /\ Refill \in Nat
  BY RateAssumption DEF Bucket
<1>2. gain \in Nat
  BY <1>1
<1> HIDE DEF gain
<1>3. Tokens(b, t) = Smaller(Burst, b.tokens + gain)
  BY Zenon DEF Tokens, gain
<1> QED
  BY <1>1, <1>2, <1>3 DEF Smaller

\* A bucket that has been idle for IdleLimit ticks is full.
LEMMA IdleIsFull ==
    ASSUME NEW b \in Bucket, NEW t \in Nat, t - b.last_update >= IdleLimit
    PROVE  Tokens(b, t) = Burst
<1> DEFINE idle == t - b.last_update
           gain == idle * Refill
<1>1. b.tokens \in 0 .. Burst /\ idle \in Int /\ Burst \in Nat /\ Refill \in Nat /\ IdleLimit \in Nat
  BY RateAssumption DEF Bucket
<1>2. idle >= IdleLimit
  BY Zenon
<1>3. Tokens(b, t) = Smaller(Burst, b.tokens + gain)
  BY Zenon DEF Tokens
<1> HIDE DEF idle
<1>4. gain \in Int /\ gain >= IdleLimit * Refill
  BY <1>1, <1>2
<1>5. IdleLimit * Refill >= Burst /\ IdleLimit * Refill \in Int
  BY RateAssumption
<1> HIDE DEF gain
<1> QED
  BY <1>1, <1>3, <1>4, <1>5 DEF Smaller

\* One tick later it holds Refill more, up to a burst.
LEMMA TickRefills ==
    ASSUME NEW b \in Bucket, NEW t \in Nat, b.last_update <= t
    PROVE  Tokens(b, t + 1) = Smaller(Burst, Tokens(b, t) + Refill)
<1> DEFINE idle == t - b.last_update
           gain == idle * Refill
<1>1. b.tokens \in 0 .. Burst /\ idle \in Nat /\ Burst \in Nat /\ Refill \in Nat
  BY RateAssumption DEF Bucket
<1>2. (t + 1) - b.last_update = idle + 1
  BY DEF Bucket
<1>3. Tokens(b, t) = Smaller(Burst, b.tokens + gain)
  BY Zenon DEF Tokens
<1>4. Tokens(b, t + 1) = Smaller(Burst, b.tokens + (idle + 1) * Refill)
  BY Zenon, <1>2 DEF Tokens
<1> HIDE DEF idle
<1>5. (idle + 1) * Refill = gain + Refill /\ gain \in Nat
  BY <1>1
<1> HIDE DEF gain
<1> QED
  BY <1>1, <1>3, <1>4, <1>5 DEF Smaller

\* Dropping idle buckets changes no source's level.
LEMMA CleaningKeepsLevels ==
    ASSUME RateTypeOK, NEW s \in Source
    PROVE  /\ Cleaned \in [Source -> Bucket \cup {None}]
           /\ Cleaned[s] # None => Cleaned[s] = buckets[s]
           /\ Level[s] = IF Cleaned[s] = None THEN Burst ELSE Tokens(buckets[s], now)
<1>1. Cleaned \in [Source -> Bucket \cup {None}]
  BY Zenon DEF RateTypeOK, Cleaned
<1>2. CASE Cleaned[s] = buckets[s]
  BY Zenon, <1>1, <1>2 DEF Level
<1>3. CASE Cleaned[s] # buckets[s]
  <2>1. /\ buckets[s] # None /\ now - buckets[s].last_update >= IdleLimit
        /\ Cleaned[s] = None
    BY Zenon, <1>3 DEF Cleaned, RateTypeOK
  <2>2. buckets[s] \in Bucket /\ now \in Nat
    BY Zenon, <2>1 DEF RateTypeOK
  <2>3. Tokens(buckets[s], now) = Burst
    BY Zenon, <2>1, <2>2, IdleIsFull
  <2> QED
    BY Zenon, <1>1, <2>1, <2>3 DEF Level
<1> QED
  BY Zenon, <1>2, <1>3

\* A call of check_and_consume, in terms of levels.
LEMMA CheckTakesAToken ==
    ASSUME RateTypeOK, NEW s \in Source, CheckAndConsume(s)
    PROVE  /\ RateTypeOK'
           /\ Ideal!Request(s)
<1> DEFINE found == IF Cleaned[s] = None THEN [tokens |-> Burst, last_update |-> now]
                                         ELSE Cleaned[s]
           have  == Tokens(found, now)
           left  == IF have >= 1 THEN have - 1 ELSE have
           new   == [tokens |-> left, last_update |-> now]
<1>1. /\ Cleaned \in [Source -> Bucket \cup {None}]
      /\ \A o \in Source : Cleaned[o] # None => Cleaned[o] = buckets[o]
      /\ \A o \in Source : Level[o] = IF Cleaned[o] = None THEN Burst ELSE Tokens(buckets[o], now)
  BY Zenon, CleaningKeepsLevels
<1>2. now \in Nat /\ now' = now /\ Burst \in Nat \ {0} /\ None \notin Bucket
  BY Zenon, RateAssumption DEF RateTypeOK, CheckAndConsume, Bucket
<1>3. \A o \in Source : Cleaned[o] # None =>
          Cleaned[o] \in Bucket /\ Cleaned[o].last_update <= now
  BY Zenon, <1>1 DEF RateTypeOK
<1>4. found \in Bucket /\ found.last_update <= now
  <2>1. CASE Cleaned[s] = None
    <3>1. found = [tokens |-> Burst, last_update |-> now]
      BY Zenon, <2>1
    <3> QED
      BY <1>2, <3>1 DEF Bucket
  <2>2. CASE Cleaned[s] # None
    BY Zenon, <1>3, <2>2
  <2> QED
    BY Zenon, <2>1, <2>2
<1>5. have \in 0 .. Burst
  BY Zenon, <1>2, <1>4, TokensType
<1>6. have = Level[s]
  <2>1. CASE Cleaned[s] = None
    <3>1. found = [tokens |-> Burst, last_update |-> now]
      BY Zenon, <2>1
    <3>2. found.tokens = Burst /\ found.last_update = now
      BY <3>1
    <3>3. (now - now) * Refill = 0
      BY <1>2, RateAssumption
    <3>4. have = Smaller(Burst, Burst + 0)
      BY Zenon, <3>2, <3>3 DEF Tokens
    <3> QED
      BY <1>1, <1>2, <2>1, <3>4 DEF Smaller
  <2>2. CASE Cleaned[s] # None
    BY Zenon, <1>1, <2>2
  <2> QED
    BY Zenon, <2>1, <2>2
<1>7. answer' = <<s, have >= 1>> /\ turn' = 1 - turn /\ buckets' = [Cleaned EXCEPT ![s] = new]
  BY Zenon DEF CheckAndConsume
<1> HIDE DEF have, found
<1>8. left \in 0 .. Burst
  BY <1>2, <1>5
<1>9. new \in Bucket /\ new.tokens = left /\ new.last_update = now
  <2> HIDE DEF left
  <2> QED
    BY Zenon, <1>2, <1>8 DEF Bucket
<1>10. Tokens(new, now) = left
  <2>1. (now - now) * Refill = 0
    BY <1>2, RateAssumption
  <2> HIDE DEF left, new
  <2>2. Tokens(new, now) = Smaller(Burst, left + 0)
    BY Zenon, <1>9, <2>1 DEF Tokens
  <2> QED
    BY <1>2, <1>8, <2>2 DEF Smaller
<1> HIDE DEF new
<1>11. RateTypeOK'
  <2>1. buckets' \in [Source -> Bucket \cup {None}]
    BY Zenon, <1>1, <1>7, <1>9
  <2>2. \A o \in Source : buckets'[o] # None => buckets'[o].last_update <= now
    BY <1>1, <1>2, <1>3, <1>7, <1>9
  <2>3. answer' \in Source \X BOOLEAN
    <3> DEFINE allowed == have >= 1
    <3>1. allowed \in BOOLEAN
      BY <1>5
    <3>2. answer' = <<s, allowed>>
      BY Zenon, <1>7
    <3> HIDE DEF allowed
    <3> QED
      BY Zenon, <3>1, <3>2
  <2>4. turn' \in {0, 1}
    BY <1>7 DEF RateTypeOK
  <2> QED
    BY Zenon, <1>2, <2>1, <2>2, <2>3, <2>4 DEF RateTypeOK
<1>12. Level' = [Level EXCEPT ![s] = left]
  <2>1. \A o \in Source : Level'[o] =
            IF buckets'[o] = None THEN Burst ELSE Tokens(buckets'[o], now)
    BY Zenon, <1>2 DEF Level
  <2>2. Level'[s] = left
    BY Zenon, <1>1, <1>2, <1>7, <1>9, <1>10, <2>1
  <2>3. \A o \in Source \ {s} : Level'[o] = Level[o]
    BY ZenonT(60), <1>1, <1>7, <2>1
  <2>4. Level = [o \in Source |-> Level[o]] /\ Level' = [o \in Source |-> Level'[o]]
    BY Zenon DEF Level
  <2> HIDE DEF left
  <2> QED
    BY Zenon, <2>2, <2>3, <2>4, Zenon
<1>13. Ideal!Request(s)
  BY Zenon, <1>6, <1>7, <1>12 DEF Ideal!Request
<1> QED
  BY Zenon, <1>11, <1>13

\* Every step of the limiter is a step of the ideal bucket.
LEMMA StepImplements ==
    ASSUME RateTypeOK, [RateNext]_rateVars
    PROVE  RateTypeOK' /\ [Ideal!BucketNext]_(Ideal!bucketVars)
<1>1. CASE RateTick
  <2>1. now \in Nat /\ now' = now + 1 /\ buckets' = buckets /\ answer' = answer /\ turn' = turn
    BY Zenon, <1>1 DEF RateTick, RateTypeOK
  <2>2. RateTypeOK'
    <3>1. \A s \in Source : buckets'[s] # None => buckets'[s].last_update \in Nat
      BY Zenon, <2>1 DEF RateTypeOK, Bucket
    <3> QED
      BY <2>1, <3>1 DEF RateTypeOK
  <2>3. ASSUME NEW s \in Source
        PROVE  Level'[s] = Ideal!AtMost(Burst, Level[s] + Refill)
    <3>1. CASE buckets[s] = None
      BY <2>1, <3>1, RateAssumption DEF Level, Ideal!AtMost
    <3>2. CASE buckets[s] # None
      <4>1. buckets[s] \in Bucket /\ buckets[s].last_update <= now
        BY Zenon, <3>2 DEF RateTypeOK
      <4>2. Tokens(buckets[s], now + 1) = Smaller(Burst, Tokens(buckets[s], now) + Refill)
        BY Zenon, <2>1, <4>1, TickRefills
      <4> QED
        BY Zenon, <2>1, <3>2, <4>2 DEF Level, Ideal!AtMost, Smaller
    <3> QED
      BY Zenon, <3>1, <3>2
  <2>4. Level' = [s \in Source |-> Level'[s]]
    BY Zenon DEF Level
  <2>5. Ideal!Pass
    BY Zenon, <2>1, <2>3, <2>4, Zenon DEF Ideal!Pass
  <2> QED
    BY Zenon, <2>2, <2>5 DEF Ideal!BucketNext
<1>2. ASSUME NEW s \in Source, CheckAndConsume(s)
      PROVE  RateTypeOK' /\ [Ideal!BucketNext]_(Ideal!bucketVars)
  BY Zenon, <1>2, CheckTakesAToken DEF Ideal!BucketNext
<1>3. ASSUME NEW s \in Source, RemoveClient(s)
      PROVE  RateTypeOK' /\ [Ideal!BucketNext]_(Ideal!bucketVars)
  <2>1. RateTypeOK'
    BY Zenon, <1>3 DEF RemoveClient, RateTypeOK
  <2>2. Ideal!Forget(s)
    BY Zenon, <1>3 DEF RemoveClient, Ideal!Forget, Level, RateTypeOK
  <2> QED
    BY Zenon, <2>1, <2>2 DEF Ideal!BucketNext
<1>4. CASE UNCHANGED rateVars
  BY Zenon, <1>4 DEF rateVars, RateTypeOK, Ideal!bucketVars, Level, Tokens
<1> QED
  BY Zenon, <1>1, <1>2, <1>3, <1>4 DEF RateNext

\* The limiters of rate_limit.rs cannot be told from token buckets that exist
\* for every source from the start and are refilled at every tick, although
\* buckets are created on first use and idle ones are dropped.
THEOREM LimiterIsTokenBucket == RateSpec => IsTokenBucket
<1>1. RateInit => RateTypeOK /\ Ideal!Full
  BY DEF RateInit, RateTypeOK, Ideal!Full, Level
<1>2. RateTypeOK /\ [RateNext]_rateVars => RateTypeOK' /\ [Ideal!BucketNext]_(Ideal!bucketVars)
  BY Zenon, StepImplements
<1> QED
  BY <1>1, <1>2, PTL DEF RateSpec, IsTokenBucket, Ideal!BucketSpec

\* Buckets stay well formed and none is ever dated in the future.
THEOREM BucketsWellFormed == RateSpec => []RateTypeOK
<1>1. RateInit => RateTypeOK
  BY DEF RateInit, RateTypeOK
<1>2. RateTypeOK /\ [RateNext]_rateVars => RateTypeOK'
  BY Zenon, StepImplements
<1> QED
  BY <1>1, <1>2, PTL DEF RateSpec

-----------------------------------------------------------------------------
\* The handlers and the cache.

ReqOK ==
    /\ req \in [Handler -> [at : {"idle", "verify", "insert", "limits"}, route : Route,
                            header : Header, clock : Nat]]
    /\ \A k \in Handler : req[k].at \in {"verify", "insert"} => req[k].header \in Signature
    /\ \A k \in Handler : req[k].at = "insert" =>
          req[k].clock <= now /\ Apart(req[k].clock, Stamp[req[k].header]) <= Drift

CacheOK ==
    /\ cache \subseteq Signature
    /\ IsFiniteSet(cache)
    /\ CacheBounded

HistoryOK ==
    /\ accepted \in [Signature -> Nat]
    /\ evicted \subseteq Signature
    /\ late \in BOOLEAN
    /\ \A sig \in cache : accepted[sig] >= 1
    /\ \A sig \in Signature : accepted[sig] >= 1 => Stamp[sig] <= now + Drift

\* Where neither way out has been taken, a signature that was accepted is in
\* the cache until it has expired.
Remembered ==
    ~late => \A sig \in Signature \ evicted :
                accepted[sig] >= 1 => /\ accepted[sig] = 1
                                      /\ sig \in cache \/ now > Stamp[sig] + Drift

AdmissionInv == RateTypeOK /\ ReqOK /\ CacheOK /\ HistoryOK /\ Remembered

-----------------------------------------------------------------------------
LEMMA ApartInt ==
    ASSUME NEW a \in Nat, NEW b \in Nat
    PROVE  /\ Apart(a, b) \in Nat
           /\ Apart(a, b) <= Drift <=> a <= b + Drift /\ b <= a + Drift
BY AdmissionAssumption DEF Apart

\* The way out of retain and of the halving leaves room for one more.
LEMMA RoomForOne ==
    ASSUME NEW some, IsFiniteSet(some), Cardinality(some) <= CacheMax,
           NEW old \in Halves(some), NEW x, x \notin some
    PROVE  /\ old \subseteq some
           /\ IsFiniteSet((some \ old) \cup {x})
           /\ Cardinality((some \ old) \cup {x}) <= CacheMax
<1>1. old \subseteq some /\ IsFiniteSet(some \ old) /\ Cardinality(some \ old) \in Nat
      /\ Cardinality(some) \in Nat /\ CacheMax \in Nat /\ CacheMax >= 2
  <2>1. old \subseteq some
    BY Zenon DEF Halves
  <2>2. some \ old \in SUBSET some
    BY Zenon
  <2>3. IsFiniteSet(some \ old)
    BY Zenon, <2>2, FS_Subset
  <2> QED
    BY Zenon, <2>1, <2>3, FS_CardinalityType, AdmissionAssumption
<1>2. IsFiniteSet((some \ old) \cup {x})
      /\ Cardinality((some \ old) \cup {x}) = Cardinality(some \ old) + 1
  BY Zenon, <1>1, FS_AddElement
<1>3. Cardinality(some \ old) <= Cardinality(some)
      /\ (Cardinality(some) = Cardinality(some \ old) => some = some \ old)
  BY Zenon, <1>1, FS_Subset
<1>4. CASE Cardinality(some) < CacheMax
  BY <1>1, <1>2, <1>3, <1>4
<1>5. CASE Cardinality(some) >= CacheMax
  <2>1. Cardinality(old) = CacheMax \div 2
    BY Zenon, <1>5 DEF Halves
  <2>2. CacheMax \div 2 >= 1
    BY <1>1
  <2>3. old # {}
    BY <2>1, <2>2, FS_EmptySet
  <2>4. Cardinality(some \ old) < Cardinality(some)
    BY <1>1, <1>3, <2>3
  <2> QED
    BY <1>1, <1>2, <2>4
<1> QED
  BY <1>1, <1>2, <1>4, <1>5

\* The limiter sees the steps of the routes as its own.
LEMMA StepIsRateStep ==
    ASSUME [AdmissionNext]_admissionVars
    PROVE  [RateNext]_rateVars
BY Zenon DEF AdmissionNext, admissionVars, AdmissionTick, ArriveList, Arrive, Verify,
       CheckAndInsert, Limits, RateNext

\* Time never runs backwards.
LEMMA TimeGoesOn ==
    ASSUME RateTypeOK, [RateNext]_rateVars
    PROVE  now \in Nat /\ now' \in Nat /\ now <= now'
BY DEF RateTypeOK, RateNext, RateTick, CheckAndConsume, RemoveClient, rateVars

\* A step that leaves the cache and its history alone.
LEMMA OtherSteps ==
    ASSUME AdmissionInv, [RateNext]_rateVars, UNCHANGED replayVars, ReqOK'
    PROVE  AdmissionInv'
<1>1. RateTypeOK'
  BY Zenon, StepImplements DEF AdmissionInv
<1>2. now \in Nat /\ now' \in Nat /\ now <= now'
  BY Zenon, TimeGoesOn DEF AdmissionInv
<1>3. CacheOK'
  BY Zenon DEF AdmissionInv, CacheOK, CacheBounded, replayVars
<1>4. \A sig \in Signature : Stamp[sig] \in Nat /\ Drift \in Nat
  BY Zenon, AdmissionAssumption
<1>5. HistoryOK'
  BY <1>2, <1>4 DEF AdmissionInv, HistoryOK, replayVars
<1>6. Remembered'
  BY <1>2, <1>4 DEF AdmissionInv, Remembered, replayVars
<1> QED
  BY Zenon, <1>1, <1>3, <1>5, <1>6 DEF AdmissionInv

\* What Answer and GoOn leave of the requests.
LEMMA AnswerOK ==
    ASSUME ReqOK, NEW k \in Handler, Answer(k), now \in Nat, now' \in Nat, now <= now'
    PROVE  ReqOK'
<1>1. Idle \in [at : {"idle", "verify", "insert", "limits"}, route : Route,
                header : Header, clock : Nat] /\ Idle.at = "idle"
  BY Zenon DEF Idle, Route, Header
<1> HIDE DEF Idle
<1>2. req' = [req EXCEPT ![k] = Idle]
  BY Zenon DEF Answer
<1> QED
  BY <1>1, <1>2 DEF ReqOK

LEMMA GoOnOK ==
    ASSUME ReqOK, NEW k \in Handler, NEW r, GoOn(k, r), now \in Nat, now' \in Nat, now <= now',
           r \in [at : {"idle", "verify", "insert", "limits"}, route : Route,
                  header : Header, clock : Nat],
           r.at \in {"verify", "insert"} => r.header \in Signature,
           r.at = "insert" => r.clock <= now' /\ Apart(r.clock, Stamp[r.header]) <= Drift
    PROVE  ReqOK'
<1>1. req' = [req EXCEPT ![k] = r]
  BY Zenon DEF GoOn
<1> QED
  BY <1>1 DEF ReqOK

LEMMA PassOK ==
    ASSUME ReqOK, NEW k \in Handler, NEW r, Pass(k, r), now \in Nat, now' \in Nat, now <= now',
           r \in [at : {"idle", "verify", "insert", "limits"}, route : Route,
                  header : Header, clock : Nat]
    PROVE  ReqOK'
<1>1. CASE r.route = "list"
  BY Zenon, <1>1, AnswerOK DEF Pass
<1>2. CASE r.route # "list"
  <2> DEFINE q == [r EXCEPT !.at = "limits"]
  <2>1. q \in [at : {"idle", "verify", "insert", "limits"}, route : Route,
               header : Header, clock : Nat] /\ q.at = "limits"
    BY Zenon
  <2>2. GoOn(k, q)
    BY Zenon, <1>2 DEF Pass
  <2> HIDE DEF q
  <2> QED
    BY Zenon, <2>1, <2>2, GoOnOK
<1> QED
  BY Zenon, <1>1, <1>2

LEMMA AuthorizeOK ==
    ASSUME ReqOK, NEW k \in Handler, NEW route \in Route, NEW header \in Header,
           Authorize(k, route, header), now \in Nat, now' \in Nat, now <= now'
    PROVE  ReqOK'
<1> DEFINE r == [at |-> "verify", route |-> route, header |-> header, clock |-> 0]
<1>1. r \in [at : {"idle", "verify", "insert", "limits"}, route : Route,
             header : Header, clock : Nat] /\ r.at = "verify" /\ r.header = header
  BY Zenon
<1>2. Answer(k) \/ Pass(k, r) \/ (header \in Signature /\ GoOn(k, r))
  BY Zenon DEF Authorize
<1> HIDE DEF r
<1> QED
  BY Zenon, <1>1, <1>2, AnswerOK, PassOK, GoOnOK

-----------------------------------------------------------------------------
\* check_and_insert keeps all of the invariant.
LEMMA InsertKeeps ==
    ASSUME AdmissionInv, NEW k \in Handler, CheckAndInsert(k)
    PROVE  AdmissionInv'
<1> DEFINE r == req[k]
           kept == Kept(r.clock)
           h == r.header
<1>1. /\ r.at = "insert" /\ h \in Signature /\ r.clock \in Nat /\ r.clock <= now
      /\ Apart(r.clock, Stamp[h]) <= Drift
      /\ r \in [at : {"idle", "verify", "insert", "limits"}, route : Route,
                header : Header, clock : Nat]
  BY Zenon DEF CheckAndInsert, AdmissionInv, ReqOK
<1>2. /\ now \in Nat /\ now' = now /\ Drift \in Nat
      /\ \A sig \in Signature : Stamp[sig] \in Nat
  BY Zenon, AdmissionAssumption DEF CheckAndInsert, rateVars, AdmissionInv, RateTypeOK
<1>3. RateTypeOK'
  BY Zenon DEF CheckAndInsert, rateVars, AdmissionInv, RateTypeOK
<1>4. kept \subseteq cache /\ IsFiniteSet(kept) /\ Cardinality(kept) <= CacheMax
  <2>1. kept \in SUBSET cache
    BY Zenon DEF Kept
  <2>2. IsFiniteSet(cache) /\ Cardinality(cache) <= CacheMax
    BY Zenon DEF AdmissionInv, CacheOK, CacheBounded
  <2>3. IsFiniteSet(kept) /\ Cardinality(kept) <= Cardinality(cache)
    BY Zenon, <2>1, <2>2, FS_Subset
  <2>4. Cardinality(kept) \in Nat /\ Cardinality(cache) \in Nat /\ CacheMax \in Nat
    BY Zenon, <2>2, <2>3, FS_CardinalityType, AdmissionAssumption
  <2> QED
    BY <2>1, <2>2, <2>3, <2>4
<1>5. late' = (late \/ r.clock # now)
  BY Zenon DEF CheckAndInsert
<1>6. ASSUME ~late', NEW sig \in Signature \ evicted, accepted[sig] >= 1
      PROVE  accepted[sig] = 1 /\ (sig \in kept \/ now > Stamp[sig] + Drift)
  <2>1. ~late /\ r.clock = now
    BY Zenon, <1>5, <1>6
  <2>2. accepted[sig] = 1 /\ (sig \in cache \/ now > Stamp[sig] + Drift)
        /\ Stamp[sig] <= now + Drift
    BY Zenon, <1>6, <2>1 DEF AdmissionInv, Remembered, HistoryOK
  <2>3. Apart(now, Stamp[sig]) <= Drift <=>
            now <= Stamp[sig] + Drift /\ Stamp[sig] <= now + Drift
    BY Zenon, <1>2, ApartInt
  <2> QED
    BY <1>2, <2>1, <2>2, <2>3 DEF Kept
<1>7. ASSUME ~late', h \notin kept, h \notin evicted
      PROVE  accepted[h] = 0
  <2>1. r.clock = now
    BY Zenon, <1>5, <1>7
  <2>2. now <= Stamp[h] + Drift
    BY Zenon, <1>1, <1>2, <2>1, ApartInt
  <2>3. ~(accepted[h] >= 1)
    BY SMTT(30), <1>1, <1>2, <1>6, <1>7, <2>2
  <2> QED
    BY <1>1, <2>3 DEF AdmissionInv, HistoryOK
<1>8. Stamp[h] <= now + Drift
  BY <1>1, <1>2, ApartInt
<1> HIDE DEF kept, h
<1>9. CASE /\ h \in kept /\ cache' = kept /\ Answer(k) /\ UNCHANGED <<accepted, evicted>>
  <2>1. ReqOK'
    BY <1>2, <1>9, AnswerOK DEF AdmissionInv
  <2>2. CacheOK'
    BY Zenon, <1>4, <1>9 DEF AdmissionInv, CacheOK, CacheBounded
  <2>3. HistoryOK'
    BY Zenon, <1>2, <1>4, <1>5, <1>9 DEF AdmissionInv, HistoryOK
  <2>4. Remembered'
    BY Zenon, <1>2, <1>6, <1>9 DEF Remembered
  <2> QED
    BY Zenon, <1>3, <2>1, <2>2, <2>3, <2>4 DEF AdmissionInv
<1>10. ASSUME NEW old \in Halves(kept), h \notin kept,
              cache' = (kept \ old) \cup {h}, evicted' = evicted \cup old,
              accepted' = [accepted EXCEPT ![h] = @ + 1], Pass(k, r)
       PROVE  AdmissionInv'
  <2>1. ReqOK'
    BY <1>1, <1>2, <1>10, PassOK DEF AdmissionInv
  <2>2. old \subseteq kept /\ IsFiniteSet(cache') /\ Cardinality(cache') <= CacheMax
    BY Zenon, <1>4, <1>10, RoomForOne
  <2>3. CacheOK'
    BY Zenon, <1>1, <1>4, <1>10, <2>2 DEF AdmissionInv, CacheOK, CacheBounded, h
  <2>4. accepted \in [Signature -> Nat] /\ h \in Signature
    BY Zenon, <1>1 DEF AdmissionInv, HistoryOK, h
  <2>5. HistoryOK'
    <3>1. accepted' \in [Signature -> Nat] /\ late' \in BOOLEAN
      BY <1>5, <1>10, <2>4
    <3>2. evicted' \subseteq Signature
      BY Zenon, <1>4, <1>10, <2>2 DEF AdmissionInv, HistoryOK, CacheOK
    <3>3. \A sig \in cache' : accepted'[sig] >= 1
      BY <1>4, <1>10, <2>4 DEF AdmissionInv, HistoryOK, CacheOK
    <3>4. \A sig \in Signature : accepted'[sig] >= 1 => Stamp[sig] <= now' + Drift
      BY Zenon, <1>2, <1>8, <1>10, <2>4 DEF AdmissionInv, HistoryOK
    <3> QED
      BY Zenon, <3>1, <3>2, <3>3, <3>4 DEF HistoryOK
  <2>6. Remembered'
    <3> SUFFICES ASSUME ~late', NEW sig \in Signature \ evicted', accepted'[sig] >= 1
                 PROVE  accepted'[sig] = 1 /\ (sig \in cache' \/ now' > Stamp[sig] + Drift)
      BY Zenon DEF Remembered
    <3>1. CASE sig = h
      BY <1>7, <1>10, <2>4, <3>1
    <3>2. CASE sig # h
      BY Zenon, <1>2, <1>6, <1>10, <2>4, <3>2
    <3> QED
      BY Zenon, <3>1, <3>2
  <2> QED
    BY Zenon, <1>3, <2>1, <2>3, <2>5, <2>6 DEF AdmissionInv
<1> QED
  BY Zenon, <1>9, <1>10 DEF CheckAndInsert, kept, h

\* Every step keeps the invariant.
LEMMA AdmissionStep ==
    ASSUME AdmissionInv, [AdmissionNext]_admissionVars
    PROVE  AdmissionInv'
<1>1. [RateNext]_rateVars
  BY Zenon, StepIsRateStep
<1>2. now \in Nat /\ now' \in Nat /\ now <= now'
  BY Zenon, <1>1, TimeGoesOn DEF AdmissionInv
<1>3. ReqOK
  BY Zenon DEF AdmissionInv
<1>4. CASE AdmissionTick \/ UNCHANGED admissionVars
  <2>1. req' = req /\ UNCHANGED replayVars
    BY Zenon, <1>4 DEF AdmissionTick, admissionVars
  <2>2. ReqOK'
    BY <1>2, <1>3, <2>1 DEF ReqOK
  <2> QED
    BY Zenon, <1>1, <2>1, <2>2, OtherSteps
<1>5. ASSUME NEW k \in Handler, NEW header \in Header, ArriveList(k, header)
      PROVE  AdmissionInv'
  <2>1. ReqOK'
    BY Zenon, <1>2, <1>3, <1>5, AuthorizeOK DEF ArriveList, Route
  <2> QED
    BY Zenon, <1>1, <1>5, <2>1, OtherSteps DEF ArriveList
<1>6. ASSUME NEW k \in Handler, NEW header \in Header, NEW s \in Source,
             NEW route \in {"sdp", "peer"}, Arrive(k, s, route, header)
      PROVE  AdmissionInv'
  <2>1. Authorize(k, route, header) \/ Answer(k)
    BY Zenon, <1>6 DEF Arrive
  <2>2. ReqOK'
    BY Zenon, <1>2, <1>3, <2>1, AuthorizeOK, AnswerOK DEF Route
  <2> QED
    BY Zenon, <1>1, <1>6, <2>2, OtherSteps DEF Arrive
<1>7. ASSUME NEW k \in Handler, Verify(k)
      PROVE  AdmissionInv'
  <2> DEFINE q == [req[k] EXCEPT !.at = "insert", !.clock = now]
  <2>1. /\ req[k] \in [at : {"idle", "verify", "insert", "limits"}, route : Route,
                       header : Header, clock : Nat]
        /\ req[k].header \in Signature
    BY Zenon, <1>3, <1>7 DEF Verify, ReqOK
  <2>2. Answer(k) \/ (GoOn(k, q) /\ Apart(now, Stamp[req[k].header]) <= Drift)
    BY Zenon, <1>7 DEF Verify
  <2>3. /\ q \in [at : {"idle", "verify", "insert", "limits"}, route : Route,
                  header : Header, clock : Nat]
        /\ q.at = "insert" /\ q.clock = now /\ q.header = req[k].header
    BY Zenon, <1>2, <2>1
  <2> HIDE DEF q
  <2>4. ReqOK'
    BY Zenon, <1>2, <1>3, <2>1, <2>2, <2>3, AnswerOK, GoOnOK
  <2> QED
    BY Zenon, <1>1, <1>7, <2>4, OtherSteps DEF Verify
<1>8. ASSUME NEW k \in Handler, CheckAndInsert(k)
      PROVE  AdmissionInv'
  BY Zenon, <1>8, InsertKeeps
<1>9. ASSUME NEW k \in Handler, Limits(k)
      PROVE  AdmissionInv'
  <2>1. ReqOK'
    BY Zenon, <1>2, <1>3, <1>9, AnswerOK DEF Limits
  <2> QED
    BY Zenon, <1>1, <1>9, <2>1, OtherSteps DEF Limits
<1> QED
  BY Zenon, <1>4, <1>5, <1>6, <1>7, <1>8, <1>9 DEF AdmissionNext

LEMMA AdmissionStart == AdmissionInit => AdmissionInv
<1> SUFFICES ASSUME AdmissionInit PROVE AdmissionInv
  BY Zenon
<1>1. RateTypeOK
  BY Zenon DEF AdmissionInit, RateInit, RateTypeOK
<1>2. ReqOK
  <2>1. Idle \in [at : {"idle", "verify", "insert", "limits"}, route : Route,
                  header : Header, clock : Nat] /\ Idle.at = "idle"
    BY Zenon DEF Idle, Route, Header
  <2> QED
    BY Zenon, <2>1 DEF AdmissionInit, ReqOK
<1>3. CacheOK
  BY FS_EmptySet, AdmissionAssumption DEF AdmissionInit, CacheOK, CacheBounded
<1>4. HistoryOK /\ Remembered
  <2>1. late \in BOOLEAN
    BY Zenon DEF AdmissionInit
  <2>2. accepted \in [Signature -> Nat] /\ \A sig \in Signature : ~(accepted[sig] >= 1)
    BY DEF AdmissionInit
  <2>3. cache = {} /\ evicted = {}
    BY Zenon DEF AdmissionInit
  <2> QED
    BY Zenon, <2>1, <2>2, <2>3 DEF HistoryOK, Remembered
<1> QED
  BY Zenon, <1>1, <1>2, <1>3, <1>4 DEF AdmissionInv

-----------------------------------------------------------------------------
\* However many handlers verify signatures at once, and on whichever routes, a
\* signature is accepted once, unless it was dropped from a full cache or some
\* handler came to the cache with a time that had passed.
THEOREM SignaturesAcceptedOnce == AdmissionSpec => []AcceptedOnce
<1>1. AdmissionInv => AcceptedOnce
  BY DEF AdmissionInv, HistoryOK, Remembered, AcceptedOnce
<1> QED
  BY <1>1, AdmissionStart, AdmissionStep, PTL DEF AdmissionSpec

\* check_and_insert never leaves more signatures in the cache than its limit.
THEOREM CacheStaysBounded == AdmissionSpec => []CacheBounded
<1>1. AdmissionInv => CacheBounded
  BY Zenon DEF AdmissionInv, CacheOK
<1> QED
  BY <1>1, AdmissionStart, AdmissionStep, PTL DEF AdmissionSpec

\* Only a signature that was accepted before is refused as a replay.
THEOREM ReplaysWereAccepted == AdmissionSpec => ReplayMeansAccepted
<1> DEFINE Refused == \A k \in Handler :
               req[k].at = "insert" /\ req'[k] = Idle /\ UNCHANGED accepted =>
                   accepted[req[k].header] >= 1
<1>1. AdmissionInv /\ [AdmissionNext]_admissionVars => [Refused]_admissionVars
  <2> SUFFICES ASSUME AdmissionInv, AdmissionNext, NEW k \in Handler,
                      req[k].at = "insert", req'[k] = Idle, UNCHANGED accepted
               PROVE  accepted[req[k].header] >= 1
    BY Zenon DEF Refused
  <2>1. Idle.at = "idle" /\ req \in [Handler -> [at : {"idle", "verify", "insert", "limits"},
                                route : Route, header : Header, clock : Nat]]
    BY Zenon DEF Idle, AdmissionInv, ReqOK
  <2>2. CheckAndInsert(k)
    <3>1. ASSUME NEW q \in Handler, q # k, NEW r, req' = [req EXCEPT ![q] = r]
          PROVE  FALSE
      BY Zenon, <2>1, <3>1
    <3>2. req' # req
      BY Zenon, <2>1
    <3>3. \A q \in Handler : q # k => ~Answer(q) /\ \A r : ~GoOn(q, r)
      BY Zenon, <3>1 DEF Answer, GoOn
    <3>4. \A q \in Handler : q # k => \A r : ~Pass(q, r)
      BY Zenon, <3>3 DEF Pass
    <3>5. ASSUME NEW q \in Handler, NEW header,
                 \/ ArriveList(q, header)
                 \/ \E s \in Source, route \in {"sdp", "peer"} : Arrive(q, s, route, header)
          PROVE  FALSE
      <4>1. req[q].at = "idle"
        BY Zenon, <3>5 DEF ArriveList, Arrive
      <4>2. Answer(q) \/ (\E route : Authorize(q, route, header))
        BY Zenon, <3>5 DEF ArriveList, Arrive
      <4>3. Answer(q) \/ \E r : Pass(q, r) \/ GoOn(q, r)
        BY Zenon, <4>2 DEF Authorize
      <4> QED
        BY Zenon, <3>3, <3>4, <4>1, <4>3
    <3>6. ASSUME NEW q \in Handler, Verify(q) \/ Limits(q)
          PROVE  FALSE
      <4>1. Answer(q) \/ \E r : GoOn(q, r)
        BY Zenon, <3>6 DEF Verify, Limits
      <4>2. req[q].at # "insert"
        BY Zenon, <3>6 DEF Verify, Limits
      <4> QED
        BY Zenon, <3>3, <4>1, <4>2
    <3>7. ASSUME NEW q \in Handler, CheckAndInsert(q), q # k
          PROVE  FALSE
      <4>1. Answer(q) \/ Pass(q, req[q])
        BY Zenon, <3>7 DEF CheckAndInsert
      <4> QED
        BY Zenon, <3>3, <3>4, <3>7, <4>1
    <3> QED
      BY Zenon, <3>2, <3>5, <3>6, <3>7 DEF AdmissionNext, AdmissionTick
  <2>3. accepted \in [Signature -> Nat] /\ req[k].header \in Signature
    BY Zenon DEF AdmissionInv, HistoryOK, ReqOK
  <2>4. req[k].header \in Kept(req[k].clock)
    BY <2>2, <2>3 DEF CheckAndInsert
  <2> QED
    BY Zenon, <2>4 DEF Kept, AdmissionInv, HistoryOK
<1> QED
  BY <1>1, AdmissionStart, AdmissionStep, PTL DEF AdmissionSpec, ReplayMeansAccepted

\* In front of the routes the limiter is the ideal token bucket.
THEOREM RoutesAreLimited == AdmissionSpec => IsTokenBucket
<1>1. AdmissionInit => RateInit
  BY Zenon DEF AdmissionInit
<1>2. [AdmissionNext]_admissionVars => [RateNext]_rateVars
  BY Zenon, StepIsRateStep
<1>3. AdmissionSpec => RateSpec
  BY <1>1, <1>2, PTL DEF AdmissionSpec, RateSpec
<1> QED
  BY <1>3, LimiterIsTokenBucket, PTL

-----------------------------------------------------------------------------
(***************************************************************************)
(* Flooding is bounded in every mesh: for any daemons and links between    *)
(* them, any hop limit, any calls and any number of frames.                *)
(*                                                                         *)
(* What is on the wire has to be known, too: a copy is counted there with  *)
(* the hops of the message it was read as, and its ttl is taken down when  *)
(* it arrives.                                                             *)
(***************************************************************************)

\* Channels and wires hold messages, and nobody reads ahead.
MeshTypes ==
    /\ bus \in [Node -> Seq(Message)]
    /\ wire \in [Side -> Seq(Message)]
    /\ link \in [Dials -> {"idle", "failed", "up", "down"}]
    /\ loop \in [Side -> Nat] /\ \A s \in Side : loop[s] <= Len(bus[Here(s)])
    /\ fwd \in [Session -> Nat] /\ \A s \in Session : fwd[s] <= Len(bus[s.node])
    /\ peers \in [Node -> SUBSET Dials]
    /\ heard \in [Session -> SUBSET (1 .. MaxFrames)]

\* A copy has crossed as many links as its ttl has lost.
Counted(msg) == msg.hops + msg.ttl = InitialTtl

\* Every copy is counted, and those in a daemon's channel that have crossed a
\* link were not spoken there.
CopiesOK ==
    /\ \A n \in Node : \A i \in 1 .. Len(bus[n]) :
          /\ Counted(bus[n][i])
          /\ bus[n][i].hops > 0 => bus[n][i].origin_node # n
    /\ \A s \in Side : \A i \in 1 .. Len(wire[s]) : Counted(wire[s][i])

MeshInv == MeshTypes /\ CopiesOK

-----------------------------------------------------------------------------
\* Both ends of a link are daemons.
LEMMA Ends ==
    ASSUME NEW s \in Side
    PROVE  s[1] \in Dials /\ Here(s) \in Node /\ There(s) \in Node
BY MeshAssumption DEF Side, Here, There

\* What append does to a daemon's channel: it grows by one, and a property of
\* its messages and of the new one holds of all.
LEMMA Appended ==
    ASSUME NEW q \in Seq(Message), NEW msg \in Message
    PROVE  /\ Append(q, msg) \in Seq(Message)
           /\ Len(q) \in Nat /\ Len(Append(q, msg)) = Len(q) + 1
           /\ \A i \in 1 .. Len(q) + 1 : Append(q, msg)[i] = IF i <= Len(q) THEN q[i] ELSE msg
OBVIOUS

\* A message in a sequence of messages has a frame within the bound.
LEMMA FrameOf ==
    ASSUME NEW q \in Seq(Message), NEW i \in 1 .. Len(q)
    PROVE  q[i] \in Message /\ q[i].frame \in 1 .. MaxFrames
<1>1. q[i] \in Message
  OBVIOUS
<1> QED BY Zenon, <1>1 DEF Message

\* A client that may speak has a frame to speak, within the bound.
LEMMA FrameIsNew ==
    ASSUME ~(1 .. MaxFrames \subseteq Frames)
    PROVE  NewFrame \in 1 .. MaxFrames
BY Zenon DEF NewFrame

\* At first nothing has been said.
LEMMA InitMesh == MeshInit => MeshInv
<1> SUFFICES ASSUME MeshInit PROVE MeshInv
  BY Zenon
<1>1. MeshTypes
  BY Ends, MeshAssumption DEF MeshInit, MeshTypes
<1>2. CopiesOK
  BY DEF MeshInit, CopiesOK
<1> QED BY Zenon, <1>1, <1>2 DEF MeshInv

\* Links come and go: subscribers start at the end, and what is on the wire
\* may be lost.
LEMMA LinkKeeps ==
    ASSUME MeshInv, NEW d \in Dials, Dial(d) \/ Drop(d)
    PROVE  MeshInv'
<1>1. CASE Dial(d)
  <2>0. /\ UNCHANGED <<bus, wire, fwd, heard>>
        /\ link' \in [Dials -> {"idle", "failed", "up", "down"}]
        /\ \/ UNCHANGED <<loop, peers>>
           \/ /\ loop' = [s \in Side |-> IF s[1] = d THEN Len(bus[Here(s)]) ELSE loop[s]]
              /\ peers' = [peers EXCEPT ![d[1]] = @ \cup {d}]
    BY ZenonT(60), <1>1 DEF MeshInv, MeshTypes, Dial
  <2>1. \A s \in Side : Len(bus[Here(s)]) \in Nat
    BY Ends DEF MeshInv, MeshTypes
  <2>2. loop' \in [Side -> Nat] /\ \A s \in Side : loop'[s] <= Len(bus[Here(s)])
    <3>1. CASE UNCHANGED loop
      BY Zenon, <3>1 DEF MeshInv, MeshTypes
    <3>2. CASE loop' = [s \in Side |-> IF s[1] = d THEN Len(bus[Here(s)]) ELSE loop[s]]
      <4>1. \A s \in Side : loop'[s] \in Nat /\ loop'[s] <= Len(bus[Here(s)])
        BY <2>1, <3>2 DEF MeshInv, MeshTypes
      <4> QED BY Zenon, <3>2, <4>1
    <3> QED BY Zenon, <2>0, <3>1, <3>2
  <2>3. peers' \in [Node -> SUBSET Dials]
    <3>1. CASE UNCHANGED peers
      BY Zenon, <3>1 DEF MeshInv, MeshTypes
    <3>2. CASE peers' = [peers EXCEPT ![d[1]] = @ \cup {d}]
      BY Zenon, <3>2 DEF MeshInv, MeshTypes
    <3> QED BY Zenon, <2>0, <3>1, <3>2
  <2>4. MeshTypes'
    BY Zenon, <2>0, <2>2, <2>3 DEF MeshInv, MeshTypes
  <2> QED BY Zenon, <2>0, <2>4 DEF MeshInv, CopiesOK
<1>2. CASE Drop(d)
  <2>1. MeshTypes'
    BY SMTT(30), <1>2 DEF MeshInv, MeshTypes, Drop
  <2>2. \A s \in Side : wire'[s] = << >> \/ wire'[s] = wire[s]
    BY Zenon, <1>2 DEF Drop
  <2>3. CopiesOK'
    BY SMTT(30), <1>2, <2>2 DEF MeshInv, CopiesOK, Drop
  <2> QED BY Zenon, <2>1, <2>3 DEF MeshInv
<1> QED BY Zenon, <1>1, <1>2

\* A message that is counted, and was spoken here or comes from elsewhere, may
\* be sent to a daemon's channel.
LEMMA BusKeeps ==
    ASSUME MeshInv, NEW n \in Node, NEW msg \in Message, Counted(msg),
           msg.hops > 0 => msg.origin_node # n,
           bus' = [bus EXCEPT ![n] = Append(@, msg)],
           wire' \in [Side -> Seq(Message)],
           \A s \in Side : \A i \in 1 .. Len(wire'[s]) : Counted(wire'[s][i]),
           UNCHANGED <<link, loop, peers, fwd, heard>>
    PROVE  MeshInv'
<1>1. bus[n] \in Seq(Message)
  BY Zenon DEF MeshInv, MeshTypes
<1>2. /\ Append(bus[n], msg) \in Seq(Message)
      /\ Len(bus[n]) \in Nat /\ Len(Append(bus[n], msg)) = Len(bus[n]) + 1
      /\ \A i \in 1 .. Len(bus[n]) + 1 :
            Append(bus[n], msg)[i] = IF i <= Len(bus[n]) THEN bus[n][i] ELSE msg
  BY Zenon, <1>1, Appended
<1>3. /\ bus' \in [Node -> Seq(Message)]
      /\ bus'[n] = Append(bus[n], msg)
      /\ \A m \in Node \ {n} : bus'[m] = bus[m]
  BY Zenon, <1>2 DEF MeshInv, MeshTypes
<1>4. \A m \in Node : Len(bus[m]) \in Nat /\ Len(bus[m]) <= Len(bus'[m])
  BY SMTT(30), <1>2, <1>3 DEF MeshInv, MeshTypes
<1>5. MeshTypes'
  <2>1. \A s \in Side : loop[s] <= Len(bus'[Here(s)])
    BY SMTT(30), <1>4, Ends DEF MeshInv, MeshTypes
  <2>2. \A s \in Session : fwd[s] <= Len(bus'[s.node])
    BY SMTT(30), <1>4, MeshAssumption DEF MeshInv, MeshTypes
  <2> QED BY ZenonT(60), <1>3, <2>1, <2>2 DEF MeshInv, MeshTypes
<1>6. \A m \in Node : \A i \in 1 .. Len(bus'[m]) :
          /\ Counted(bus'[m][i])
          /\ bus'[m][i].hops > 0 => bus'[m][i].origin_node # m
  <2> SUFFICES ASSUME NEW m \in Node, NEW i \in 1 .. Len(bus'[m])
               PROVE  /\ Counted(bus'[m][i])
                      /\ bus'[m][i].hops > 0 => bus'[m][i].origin_node # m
    BY Zenon
  <2>1. CASE m # n
    BY Zenon, <1>3, <2>1 DEF MeshInv, CopiesOK
  <2>2. CASE m = n /\ i <= Len(bus[n])
    <3>1. i \in 1 .. Len(bus[n]) /\ bus'[m][i] = bus[n][i]
      BY SMTT(30), <1>2, <1>3, <2>2
    <3> QED BY ZenonT(60), <2>2, <3>1 DEF MeshInv, CopiesOK
  <2>3. CASE m = n /\ ~(i <= Len(bus[n]))
    <3>1. bus'[m][i] = msg
      BY Zenon, <1>2, <1>3, <2>3
    <3> QED BY Zenon, <2>3, <3>1
  <2> QED BY Zenon, <2>1, <2>2, <2>3
<1> QED BY Zenon, <1>5, <1>6 DEF MeshInv, CopiesOK

\* A client's frame starts with the full ttl and no hops.
LEMMA SpeakKeeps ==
    ASSUME MeshInv, NEW s \in Session, NEW t \in Session, Speak(s, t)
    PROVE  MeshInv'
<1> DEFINE msg == [frame |-> NewFrame, sender_id |-> s.id, to |-> t.user,
                   codec_id |-> s.codec, origin_node |-> s.node, ttl |-> InitialTtl, hops |-> 0]
<1>1. NewFrame \in 1 .. MaxFrames
  BY Zenon, FrameIsNew DEF Speak
<1>2. msg \in Message
  BY <1>1, MeshAssumption DEF Message
<1>3. Counted(msg) /\ ~(msg.hops > 0)
  BY MeshAssumption DEF Counted
<1>4. /\ bus' = [bus EXCEPT ![s.node] = Append(@, msg)]
      /\ UNCHANGED <<link, loop, wire, peers, fwd, heard>>
  BY Zenon DEF Speak
<1>5. s.node \in Node
  BY Zenon, MeshAssumption
<1> HIDE DEF msg
<1> QED BY Zenon, <1>2, <1>3, <1>4, <1>5, BusKeeps DEF MeshInv, MeshTypes, CopiesOK

\* The send loop copies a message onto the wire as it was counted.
LEMMA SendKeeps ==
    ASSUME MeshInv, NEW s \in Side, SendLoop(s)
    PROVE  MeshInv'
<1> DEFINE msg == bus[Here(s)][loop[s] + 1]
           cop == [msg EXCEPT !.codec_id = "opus"]
<1>1. loop[s] + 1 \in 1 .. Len(bus[Here(s)]) /\ bus[Here(s)] \in Seq(Message)
  <2>1. Here(s) \in Node
    BY Zenon, Ends
  <2>2. bus \in [Node -> Seq(Message)] /\ loop[s] \in Nat
    BY Zenon DEF MeshInv, MeshTypes
  <2>3. bus[Here(s)] \in Seq(Message)
    BY Zenon, <2>1, <2>2
  <2>4. loop[s] < Len(bus[Here(s)])
    BY Zenon DEF SendLoop
  <2> QED BY <2>2, <2>3, <2>4
<1>2. msg \in Message /\ Counted(msg)
  <2>1. Here(s) \in Node
    BY Zenon, Ends
  <2>2. Counted(msg)
    BY Zenon, <1>1, <2>1 DEF MeshInv, CopiesOK
  <2> QED BY <1>1, <2>2
<1>3. cop \in Message /\ Counted(cop)
  BY Zenon, <1>2 DEF Message, Counted, Codec
<1>4. /\ loop' = [loop EXCEPT ![s] = @ + 1]
      /\ wire' = wire \/ wire' = [wire EXCEPT ![s] = Append(@, cop)]
      /\ UNCHANGED <<bus, link, peers, fwd, heard>>
  BY Zenon DEF SendLoop
<1> HIDE DEF msg, cop
<1>5. loop' \in [Side -> Nat] /\ \A r \in Side : loop'[r] <= Len(bus[Here(r)])
  BY SMTT(30), <1>1, <1>4 DEF MeshInv, MeshTypes
<1>6. CASE wire' = wire
  BY Zenon, <1>4, <1>5, <1>6 DEF MeshInv, MeshTypes, CopiesOK
<1>7. CASE wire' = [wire EXCEPT ![s] = Append(@, cop)]
  <2>1. wire[s] \in Seq(Message)
    BY Zenon DEF MeshInv, MeshTypes
  <2>2. /\ Append(wire[s], cop) \in Seq(Message)
        /\ Len(wire[s]) \in Nat /\ Len(Append(wire[s], cop)) = Len(wire[s]) + 1
        /\ \A i \in 1 .. Len(wire[s]) + 1 :
              Append(wire[s], cop)[i] = IF i <= Len(wire[s]) THEN wire[s][i] ELSE cop
    BY Zenon, <1>3, <2>1, Appended
  <2>3. MeshTypes'
    BY Zenon, <1>4, <1>5, <1>7, <2>2 DEF MeshInv, MeshTypes
  <2>4. \A r \in Side : \A i \in 1 .. Len(wire'[r]) : Counted(wire'[r][i])
    <3> SUFFICES ASSUME NEW r \in Side, NEW i \in 1 .. Len(wire'[r])
                 PROVE  Counted(wire'[r][i])
      BY Zenon
    <3>1. CASE r # s
      BY Zenon, <1>7, <3>1 DEF MeshInv, MeshTypes, CopiesOK
    <3>2. CASE r = s
      <4>1. wire'[s] = Append(wire[s], cop)
        BY Zenon, <1>7 DEF MeshInv, MeshTypes
      <4>2. (i \in 1 .. Len(wire[s]) /\ wire'[r][i] = wire[s][i]) \/ wire'[r][i] = cop
        BY <2>2, <3>2, <4>1
      <4> QED BY Zenon, <1>3, <4>2 DEF MeshInv, CopiesOK
    <3> QED BY Zenon, <3>1, <3>2
  <2> QED BY Zenon, <1>4, <2>3, <2>4 DEF MeshInv, CopiesOK
<1> QED BY Zenon, <1>4, <1>6, <1>7

\* A copy that arrives loses one of its ttl for the link it has crossed, and is
\* not taken in where it was spoken.
LEMMA IncomingKeeps ==
    ASSUME MeshInv, NEW s \in Side, Incoming(s)
    PROVE  MeshInv'
<1> DEFINE msg == Head(wire[s])
           cop == [msg EXCEPT !.ttl = @ - 1, !.hops = @ + 1]
<1>1. wire[s] \in Seq(Message) /\ wire[s] # << >>
  BY Zenon DEF MeshInv, MeshTypes, Incoming
<1>2. /\ Tail(wire[s]) \in Seq(Message) /\ Len(wire[s]) \in Nat \ {0}
      /\ Len(Tail(wire[s])) = Len(wire[s]) - 1
      /\ \A i \in 1 .. Len(wire[s]) - 1 : Tail(wire[s])[i] = wire[s][i + 1]
  BY SMTT(30), <1>1
<1>3. msg \in Message /\ Counted(msg)
  <2>1. msg = wire[s][1] /\ 1 \in 1 .. Len(wire[s])
    BY <1>1, <1>2
  <2> QED BY <1>1, <2>1 DEF MeshInv, CopiesOK
<1>4. wire' = [wire EXCEPT ![s] = Tail(@)]
  BY Zenon DEF Incoming
<1>5. wire' \in [Side -> Seq(Message)]
  BY Zenon, <1>2, <1>4 DEF MeshInv, MeshTypes
<1>6. \A r \in Side : \A i \in 1 .. Len(wire'[r]) : Counted(wire'[r][i])
  <2> SUFFICES ASSUME NEW r \in Side, NEW i \in 1 .. Len(wire'[r])
               PROVE  Counted(wire'[r][i])
    BY Zenon
  <2>1. CASE r # s
    BY Zenon, <1>4, <2>1 DEF MeshInv, MeshTypes, CopiesOK
  <2>2. CASE r = s
    <3>1. wire'[s] = Tail(wire[s])
      BY Zenon, <1>4 DEF MeshInv, MeshTypes
    <3>2. i + 1 \in 1 .. Len(wire[s]) /\ wire'[r][i] = wire[s][i + 1]
      BY <1>2, <2>2, <3>1
    <3> QED BY Zenon, <3>2 DEF MeshInv, CopiesOK
  <2> QED BY Zenon, <2>1, <2>2
<1>7. CASE Relayed(s, msg)
  <2>1. /\ bus' = [bus EXCEPT ![There(s)] = Append(@, cop)]
        /\ UNCHANGED <<link, loop, peers, fwd, heard>>
    BY Zenon, <1>7 DEF Incoming
  <2>2. cop \in Message /\ Counted(cop) /\ cop.origin_node # There(s)
    <3>1. /\ msg.ttl \in 0 .. InitialTtl /\ msg.ttl > 0 /\ msg.hops \in Nat
          /\ msg.origin_node # There(s)
      BY Zenon, <1>3, <1>7 DEF Message, Relayed
    <3>2. msg.ttl - 1 \in 0 .. InitialTtl /\ msg.hops + 1 \in Nat
      BY <3>1, MeshAssumption
    <3> DEFINE less == msg.ttl - 1
               more == msg.hops + 1
    <3>3. more + less = msg.hops + msg.ttl
      BY <3>1
    <3> HIDE DEF msg, less, more
    <3>4. cop = [msg EXCEPT !.ttl = less, !.hops = more]
      BY Zenon DEF less, more
    <3>5. cop \in Message /\ cop.ttl = less /\ cop.hops = more
          /\ cop.origin_node = msg.origin_node
      BY Zenon, <1>3, <3>2, <3>4 DEF Message, less, more
    <3> QED BY Zenon, <1>3, <3>1, <3>3, <3>5 DEF Counted
  <2>3. There(s) \in Node
    BY Zenon, Ends
  <2> HIDE DEF cop, msg
  <2> QED BY ZenonT(60), <1>5, <1>6, <2>1, <2>2, <2>3, BusKeeps
<1>8. CASE ~Relayed(s, msg)
  <2>1. UNCHANGED <<bus, link, loop, peers, fwd, heard>>
    BY Zenon, <1>8 DEF Incoming
  <2> QED BY Zenon, <1>5, <1>6, <2>1 DEF MeshInv, MeshTypes, CopiesOK
<1> QED BY Zenon, <1>7, <1>8

\* The forwarding task reads on, or skips what it has missed.
LEMMA ForwardKeeps ==
    ASSUME MeshInv, NEW s \in Session, Forward(s)
    PROVE  MeshInv'
<1>1. bus[s.node] \in Seq(Message) /\ Len(bus[s.node]) \in Nat /\ fwd[s] \in Nat
      /\ fwd[s] < Len(bus[s.node])
  <2>1. s.node \in Node
    BY Zenon, MeshAssumption
  <2>2. bus \in [Node -> Seq(Message)] /\ fwd \in [Session -> Nat]
    BY Zenon DEF MeshInv, MeshTypes
  <2>3. bus[s.node] \in Seq(Message) /\ fwd[s] \in Nat
    BY Zenon, <2>1, <2>2
  <2>4. fwd[s] < Len(bus[s.node])
    BY Zenon DEF Forward
  <2> QED BY <2>3, <2>4
<1>2. PICK to \in Nat : to <= Len(bus[s.node]) /\ fwd' = [fwd EXCEPT ![s] = to]
  <2>1. CASE Lagged(s.node, fwd[s])
    <3>1. Len(bus[s.node]) - Capacity \in Nat /\ Len(bus[s.node]) - Capacity <= Len(bus[s.node])
      BY SMTT(30), <1>1, <2>1, MeshAssumption DEF Lagged
    <3> QED BY Zenon, <2>1, <3>1 DEF Forward
  <2>2. CASE ~Lagged(s.node, fwd[s])
    <3>1. fwd[s] + 1 \in Nat /\ fwd[s] + 1 <= Len(bus[s.node])
      BY SMTT(30), <1>1
    <3> QED BY Zenon, <2>2, <3>1 DEF Forward
  <2> QED BY Zenon, <2>1, <2>2
<1>3. heard' \in [Session -> SUBSET (1 .. MaxFrames)]
  <2>0. heard \in [Session -> SUBSET (1 .. MaxFrames)]
    BY Zenon DEF MeshInv, MeshTypes
  <2>1. bus[s.node][fwd[s] + 1].frame \in 1 .. MaxFrames
    <3>1. fwd[s] + 1 \in 1 .. Len(bus[s.node])
      BY SMTT(30), <1>1
    <3> QED BY Zenon, <1>1, <3>1, FrameOf
  <2>2. heard' = heard
        \/ heard' = [heard EXCEPT ![s] = @ \cup {bus[s.node][fwd[s] + 1].frame}]
    <3>1. CASE Lagged(s.node, fwd[s])
      BY Zenon, <3>1 DEF Forward
    <3>2. CASE ~Lagged(s.node, fwd[s])
      BY Zenon, <2>0, <3>2 DEF Forward
    <3> QED BY Zenon, <3>1, <3>2
  <2>3. CASE heard' = heard
    BY Zenon, <2>0, <2>3
  <2>4. CASE heard' = [heard EXCEPT ![s] = @ \cup {bus[s.node][fwd[s] + 1].frame}]
    BY Zenon, <2>0, <2>1, <2>4
  <2> QED BY Zenon, <2>2, <2>3, <2>4
<1>4. UNCHANGED <<bus, link, loop, wire, peers>>
  BY Zenon DEF Forward
<1>5. MeshTypes'
  BY Zenon, <1>2, <1>3, <1>4 DEF MeshInv, MeshTypes
<1>6. CopiesOK'
  BY Zenon, <1>4 DEF MeshInv, CopiesOK
<1> QED BY Zenon, <1>5, <1>6 DEF MeshInv

\* Every step of every daemon keeps the invariant.
LEMMA StepMesh == MeshInv /\ [MeshNext]_mvars => MeshInv'
<1> SUFFICES ASSUME MeshInv, [MeshNext]_mvars PROVE MeshInv'
  BY Zenon
<1>1. CASE UNCHANGED mvars
  BY Zenon, <1>1 DEF mvars, MeshInv, MeshTypes, CopiesOK
<1>2. CASE MeshNext
  BY Zenon, <1>2, LinkKeeps, SpeakKeeps, SendKeeps, IncomingKeeps, ForwardKeeps DEF MeshNext
<1> QED BY Zenon, <1>1, <1>2

\* In every mesh a copy of a frame crosses at most InitialTtl links, its ttl is
\* never taken below zero, and no frame enters the daemon it was spoken at
\* again (handle_peer_incoming_message, WPIP-05).
THEOREM FloodingIsBounded == MeshSpec => []FloodIsBounded
<1>1. MeshInv => FloodIsBounded
  <2> SUFFICES ASSUME MeshInv PROVE FloodIsBounded
    BY Zenon
  <2>1. /\ \A n \in Node : DOMAIN bus[n] = 1 .. Len(bus[n]) /\ Len(bus[n]) \in Nat
        /\ \A s \in Side : DOMAIN wire[s] = 1 .. Len(wire[s])
    BY SMTT(30) DEF MeshInv, MeshTypes
  <2>2. MeshTypeOK
    <3>1. \A s \in Side : loop[s] \in 0 .. Len(bus[Here(s)])
      BY SMTT(30), <2>1, Ends DEF MeshInv, MeshTypes
    <3>2. \A s \in Session : fwd[s] \in 0 .. Len(bus[s.node])
      BY <2>1, MeshAssumption DEF MeshInv, MeshTypes
    <3> QED BY <3>1, <3>2 DEF MeshInv, MeshTypes, MeshTypeOK
  <2> QED BY Zenon, <2>1, <2>2 DEF MeshInv, CopiesOK, Counted, FloodIsBounded
<1> QED BY <1>1, InitMesh, StepMesh, PTL DEF MeshSpec
=============================================================================
