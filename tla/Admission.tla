----------------------------- MODULE Admission -----------------------------
(***************************************************************************)
(* The way of an HTTP request into the daemon: the rate limiter in front   *)
(* of the signaling routes, the authorization of handle_sdp_offer,         *)
(* handle_peer_sdp and list_registered_addresses, and the anti-replay      *)
(* cache that all of them share (address/auth.rs).                         *)
(*                                                                         *)
(* Requests are handled concurrently.  A handler reads the clock when it   *)
(* checks a timestamp and takes the lock of the cache later: what it       *)
(* compares with there is the time it remembers.  A signature stands for   *)
(* its text, its timestamp and what it signs; the two schemes differ only  *)
(* in the verification.  Whether the limits on connections let a request   *)
(* through is left open: Connection has them.                              *)
(***************************************************************************)
EXTENDS RateLimiter

CONSTANTS
    Handler,        \* requests being handled at a time
    Signature,
    Stamp,          \* the timestamp of each signature
    Signs,          \* what each signs: "offer", "empty" or something else
    Drift,          \* MAX_TIMESTAMP_DRIFT_SECS
    CacheMax,       \* MAX_ANTI_REPLAY_CACHE_SIZE
    Config          \* the configurations to start with

ASSUME AdmissionAssumption ==
    /\ Stamp \in [Signature -> Nat]
    /\ Drift \in Nat
    /\ Config \subseteq [allow_anonymous : BOOLEAN, peer_secret : BOOLEAN]
    /\ CacheMax \in Nat /\ CacheMax >= 2
    /\ None \notin Signature /\ "secret" \notin Signature /\ "other" \notin Signature

VARIABLES
    config,     \* allow_anonymous, and whether there is a peer_secret
    req,        \* what each handler is doing
    cache,      \* signatures in the anti-replay cache
    accepted,   \* history: how often each signature has been accepted
    evicted,    \* history: signatures dropped because the cache was full
    late        \* history: has the cache been used with a time that had passed?

replayVars == <<cache, accepted, evicted, late>>
admissionVars == <<rateVars, config, req, replayVars>>

Route == {"sdp", "peer", "list"}

\* The header: none, the secret of the peers, a signature, or neither.
Header == Signature \cup {None, "secret", "other"}

Idle == [at |-> "idle", route |-> "list", header |-> None, clock |-> 0]

AdmissionInit ==
    /\ RateInit
    /\ config \in Config
    /\ req = [k \in Handler |-> Idle]
    /\ cache = {}
    /\ accepted = [sig \in Signature |-> 0]
    /\ evicted = {}
    /\ late = FALSE

\* The request is answered, with what it asked for or an error.
Answer(k) == req' = [req EXCEPT ![k] = Idle]

GoOn(k, r) == req' = [req EXCEPT ![k] = r]

\* Authorized: the list is returned, an offer goes on to the limits.
Pass(k, r) == IF r.route = "list" THEN Answer(k)
                                  ELSE GoOn(k, [r EXCEPT !.at = "limits"])

\* The branches on the header, up to the verification of a signature.
Authorize(k, route, header) ==
    LET r == [at |-> "verify", route |-> route, header |-> header, clock |-> 0]
        bySecret == route = "peer" /\ config.peer_secret
    IN  IF bySecret
          THEN IF header = "secret" THEN Pass(k, r) ELSE Answer(k)
        ELSE IF header \in Signature
          THEN GoOn(k, r)
        ELSE IF header = None /\ config.allow_anonymous
          THEN Pass(k, r)
          ELSE Answer(k)

\* The list has no rate limit.
ArriveList(k, header) ==
    /\ req[k].at = "idle"
    /\ Authorize(k, "list", header)
    /\ UNCHANGED <<rateVars, config, replayVars>>

\* rate_limit_middleware, then the handler.
Arrive(k, s, route, header) ==
    /\ req[k].at = "idle"
    /\ CheckAndConsume(s)
    /\ IF answer'[2]
         THEN Authorize(k, route, header)
         ELSE Answer(k)
    /\ UNCHANGED <<config, replayVars>>

Apart(a, b) == IF a <= b THEN b - a ELSE a - b

\* Mutant: the signature is recorded before it is verified.
RecordFirst(k) ==
    LET r == req[k]
    IN  /\ r.at = "verify"
        /\ IF Apart(now, Stamp[r.header]) <= Drift
                /\ Signs[r.header] = (IF r.route = "list" THEN "empty" ELSE "offer")
             THEN GoOn(k, [r EXCEPT !.at = "insert", !.clock = now])
             ELSE Answer(k)
        /\ cache' = cache \cup {r.header}
        /\ UNCHANGED <<rateVars, config, accepted, evicted, late>>

\* The timestamp and the signature; the time is kept for the cache.
Verify(k) ==
    LET r == req[k]
    IN  /\ r.at = "verify"
        /\ IF Apart(now, Stamp[r.header]) <= Drift
                /\ Signs[r.header] = (IF r.route = "list" THEN "empty" ELSE "offer")
             THEN GoOn(k, [r EXCEPT !.at = "insert", !.clock = now])
             ELSE Answer(k)
        /\ UNCHANGED <<rateVars, config, replayVars>>

\* Mutant: retain with < for <=.
KeptBelow(time) == {sig \in cache : Apart(time, Stamp[sig]) < Drift}

\* What retain leaves of the cache.
Kept(time) == {sig \in cache : Apart(time, Stamp[sig]) <= Drift}

\* Mutant: the cache may grow past its limit by one.
HalvesOver(some) ==
    IF Cardinality(some) > CacheMax
      THEN {old \in SUBSET some :
              /\ Cardinality(old) = CacheMax \div 2
              /\ \A a \in old, b \in some \ old : Stamp[a] <= Stamp[b]}
      ELSE {{}}

\* What may be dropped to make room: the oldest half of a full cache, in any
\* order among equal timestamps (the map is drained in no order).
Halves(some) ==
    IF Cardinality(some) >= CacheMax
      THEN {old \in SUBSET some :
              /\ Cardinality(old) = CacheMax \div 2
              /\ \A a \in old, b \in some \ old : Stamp[a] <= Stamp[b]}
      ELSE {{}}

\* check_and_insert, under the lock of the cache.
CheckAndInsert(k) ==
    LET r == req[k]
        kept == Kept(r.clock)
    IN  /\ r.at = "insert"
        /\ late' = (late \/ r.clock # now)
        /\ \/ /\ r.header \in kept
              /\ cache' = kept
              /\ Answer(k)
              /\ UNCHANGED <<accepted, evicted>>
           \/ /\ r.header \notin kept
              /\ \E old \in Halves(kept) :
                    /\ cache' = (kept \ old) \cup {r.header}
                    /\ evicted' = evicted \cup old
              /\ accepted' = [accepted EXCEPT ![r.header] = @ + 1]
              /\ Pass(k, r)
        /\ UNCHANGED <<rateVars, config>>

\* max_connections and, for a peer, max_mesh_peers: either refuses or the
\* handshake begins.
Limits(k) ==
    /\ req[k].at = "limits"
    /\ Answer(k)
    /\ UNCHANGED <<rateVars, config, replayVars>>

\* Time passes for the limiter and the signatures alike.
AdmissionTick == RateTick /\ UNCHANGED <<config, req, replayVars>>

AdmissionNext ==
    \/ AdmissionTick
    \/ \E k \in Handler :
         \/ \E header \in Header :
              \/ ArriveList(k, header)
              \/ \E s \in Source, route \in {"sdp", "peer"} : Arrive(k, s, route, header)
         \/ Verify(k) \/ CheckAndInsert(k) \/ Limits(k)

AdmissionSpec == AdmissionInit /\ [][AdmissionNext]_admissionVars

-----------------------------------------------------------------------------
\* A signature is accepted once, on all routes together.  The two ways out are
\* those of the code: it was dropped from a full cache, or check_and_insert has
\* been called with a time that another handler has overtaken.
AcceptedOnce ==
    \A sig \in Signature : accepted[sig] > 1 => sig \in evicted \/ late

\* A request is refused as a replay only if its signature was accepted before:
\* one that the limiter stopped, or that failed the verification, leaves no
\* trace in the cache and can be sent again.  (check_and_insert accepts, or
\* answers with ReplayDetected.)
ReplayMeansAccepted ==
    [][\A k \in Handler :
         req[k].at = "insert" /\ req'[k] = Idle /\ UNCHANGED accepted =>
             accepted[req[k].header] >= 1]_admissionVars

\* The cache never holds more than its limit, though it is only cut in half
\* when it is found full.
CacheBounded == Cardinality(cache) <= CacheMax

=============================================================================
