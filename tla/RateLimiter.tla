---------------------------- MODULE RateLimiter ----------------------------
(***************************************************************************)
(* The token buckets of rate_limit.rs, RateLimiter for the HTTP routes and *)
(* DataChannelRateLimiter for packets, which differ in what they count,    *)
(* their constants and the threshold of the cleanup.  Buckets are created  *)
(* on first use, refilled lazily and, once there are too many, dropped if  *)
(* they have not been used for a while.  A call holds the mutex from its   *)
(* beginning to its end, so it is one action; the clock is read just       *)
(* before.  Tokens are f64 in the code and whole here: a tick is the time  *)
(* in which a whole number of tokens is gained.                            *)
(***************************************************************************)
EXTENDS Integers, FiniteSets

CONSTANTS
    Source,         \* IP addresses or client ids
    Burst,          \* max_tokens
    Refill,         \* refill_rate, per tick
    MaxBuckets,     \* buckets kept before idle ones are dropped (1000, 2000)
    IdleLimit,      \* ticks after which a bucket counts as idle (60 s)
    None,
    MaxTime         \* bound: clock ticks in a behaviour

\* An idle bucket would be full again: 60 s at 5 or 100 tokens per second is
\* more than a burst of 10 or 200.
ASSUME RateAssumption ==
    /\ Burst \in Nat \ {0}
    /\ Refill \in Nat /\ IdleLimit \in Nat /\ MaxBuckets \in Nat /\ MaxTime \in Nat
    /\ IdleLimit * Refill >= Burst
    /\ None \notin [tokens : 0 .. Burst, last_update : Nat]

VARIABLES
    buckets,    \* the HashMap; None where it has no entry
    now,
    answer,     \* the last call: <<source, allowed?>>
    turn        \* history: flipped by every call

rateVars == <<buckets, now, answer, turn>>

Bucket == [tokens : 0 .. Burst, last_update : Nat]

RateInit ==
    /\ buckets = [s \in Source |-> None]
    /\ now = 0
    /\ answer = << >> /\ turn = 0

Smaller(a, b) == IF a <= b THEN a ELSE b

\* What a bucket holds at time t.
Tokens(b, t) == Smaller(Burst, b.tokens + (t - b.last_update) * Refill)

\* Mutant: drops the buckets in use.
CleanedOfUsed ==
    LET used == {s \in Source : buckets[s] # None}
    IN  IF Cardinality(used) > MaxBuckets
          THEN [s \in Source |->
                  IF buckets[s] # None /\ now - buckets[s].last_update < IdleLimit
                    THEN None ELSE buckets[s]]
          ELSE buckets

\* retain: if there are too many buckets, only those in use stay.
Cleaned ==
    LET used == {s \in Source : buckets[s] # None}
    IN  IF Cardinality(used) > MaxBuckets
          THEN [s \in Source |->
                  IF buckets[s] # None /\ now - buckets[s].last_update >= IdleLimit
                    THEN None ELSE buckets[s]]
          ELSE buckets

CheckAndConsume(s) ==
    LET found == IF Cleaned[s] = None THEN [tokens |-> Burst, last_update |-> now]
                                      ELSE Cleaned[s]
        have  == Tokens(found, now)
    IN  /\ answer' = <<s, have >= 1>> /\ turn' = 1 - turn
        /\ buckets' = [Cleaned EXCEPT
                         ![s] = [tokens |-> IF have >= 1 THEN have - 1 ELSE have,
                                 last_update |-> now]]
        /\ UNCHANGED now

\* remove_client, called when a client is unregistered.
RemoveClient(s) ==
    /\ buckets' = [buckets EXCEPT ![s] = None]
    /\ UNCHANGED <<now, answer, turn>>

RateTick ==
    /\ now < MaxTime
    /\ now' = now + 1
    /\ UNCHANGED <<buckets, answer, turn>>

RateNext == RateTick \/ \E s \in Source : CheckAndConsume(s) \/ RemoveClient(s)

RateSpec == RateInit /\ [][RateNext]_rateVars

-----------------------------------------------------------------------------
\* Buckets are well formed and none is dated in the future.
RateTypeOK ==
    /\ buckets \in [Source -> Bucket \cup {None}]
    /\ now \in Nat
    /\ \A s \in Source : buckets[s] # None => buckets[s].last_update <= now
    /\ answer \in {<< >>} \cup (Source \X BOOLEAN) /\ turn \in {0, 1}

\* The tokens a source has, whether or not its bucket is still kept.
Level == [s \in Source |-> IF buckets[s] = None THEN Burst ELSE Tokens(buckets[s], now)]

Ideal == INSTANCE TokenBucket WITH level <- Level

\* Creating buckets late, refilling them on use and dropping idle ones is not
\* to be told from buckets that are always there: check_and_consume allows a
\* request exactly when a bucket that is refilled at every tick would.
IsTokenBucket == Ideal!BucketSpec

=============================================================================
