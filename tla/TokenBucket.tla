---------------------------- MODULE TokenBucket ----------------------------
(***************************************************************************)
(* What a rate limiter promises: every source has a bucket of Burst        *)
(* tokens that gains Refill tokens per tick and never overflows; a request *)
(* is allowed if it finds a token, which it takes, and refused otherwise.  *)
(* Nothing is said of when buckets are created or forgotten.               *)
(***************************************************************************)
EXTENDS Integers

CONSTANTS
    Source,     \* what is limited: IP addresses or client ids
    Burst,      \* capacity of a bucket (10 requests, 200 packets)
    Refill      \* tokens gained per tick (5 and 100 per second)

VARIABLES
    level,      \* tokens each source has now
    answer,     \* the last answer: <<source, allowed?>>
    turn        \* flipped by every answer, so that none goes unseen

bucketVars == <<level, answer, turn>>

AtMost(a, b) == IF a <= b THEN a ELSE b

Full == level = [s \in Source |-> Burst] /\ answer = << >> /\ turn = 0

Request(s) ==
    /\ answer' = <<s, level[s] >= 1>> /\ turn' = 1 - turn
    /\ level' = [level EXCEPT ![s] = IF @ >= 1 THEN @ - 1 ELSE @]

\* A source that is gone starts over.
Forget(s) ==
    /\ level' = [level EXCEPT ![s] = Burst]
    /\ UNCHANGED <<answer, turn>>

Pass ==
    /\ level' = [s \in Source |-> AtMost(Burst, level[s] + Refill)]
    /\ UNCHANGED <<answer, turn>>

BucketNext == Pass \/ \E s \in Source : Request(s) \/ Forget(s)

BucketSpec == Full /\ [][BucketNext]_bucketVars

=============================================================================
