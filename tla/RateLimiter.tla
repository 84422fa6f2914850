---------------------------- MODULE RateLimiter ----------------------------
(***************************************************************************)
(* SlidingWindowRateLimiter.allowed for one key: several gateway replicas, *)
(* each with its own clock, and one sorted set in Redis.                   *)
(*                                                                         *)
(* A request first reads the clock of its replica and only then, an await  *)
(* later, has Redis run prune, count, add and expire in one MULTI.  The    *)
(* member of an attempt is its score written out, so the sorted set is a   *)
(* set of readings.  An attempt is added whether it is admitted or not,    *)
(* and its caller may learn only that the pipeline raised.                 *)
(***************************************************************************)
EXTENDS Integers, FiniteSets

CONSTANTS
  Requests,
  Replicas,
  Ahead,      \* how far the clock of each replica is ahead of real time
  Limit,      \* limit
  Window,     \* window_seconds
  MaxDelay,   \* a pipeline is executed at most this long after the reading
  MaxTime     \* the behaviour's last tick

MaxAhead == CHOOSE d \in {Ahead[p] : p \in Replicas} : \A p \in Replicas : Ahead[p] <= d

\* What the limiter cannot see of real time.
Slack == MaxAhead + MaxDelay

ASSUME AheadAssumption ==
  /\ Ahead \in [Replicas -> Nat]
  /\ \E p \in Replicas : \A q \in Replicas : Ahead[q] <= Ahead[p]
ASSUME BoundsAssumption == {Limit, Window, MaxDelay, MaxTime} \subseteq Nat

NotYet == -1

VARIABLES
  clock,     \* real time, also the time Redis expires keys by
  pc,        \* where each request is
  reading,   \* its time.time()
  readAt,    \* history: when it was read
  ranAt,     \* history: when Redis ran its pipeline
  zset,      \* ratelimit:{key}
  expiry,    \* when Redis deletes the key
  answer     \* what allowed returned, or that it raised

vars == <<clock, pc, reading, readAt, ranAt, zset, expiry, answer>>

TypeOK ==
  /\ clock \in 0..MaxTime
  /\ pc \in [Requests -> {"idle", "execute", "done", "lost"}]
  /\ reading \in [Requests -> {NotYet} \cup 0..(MaxTime + MaxAhead)]
  /\ readAt \in [Requests -> {NotYet} \cup 0..MaxTime]
  /\ ranAt \in [Requests -> {NotYet} \cup 0..MaxTime]
  /\ zset \subseteq 0..(MaxTime + MaxAhead)
  /\ expiry \in 0..(MaxTime + Window)
  /\ answer \in [Requests -> {"none", "allowed", "refused", "raised"}]

Init ==
  /\ clock = 0
  /\ pc = [r \in Requests |-> "idle"]
  /\ reading = [r \in Requests |-> NotYet]
  /\ readAt = [r \in Requests |-> NotYet]
  /\ ranAt = [r \in Requests |-> NotYet]
  /\ zset = {}
  /\ expiry = 0
  /\ answer = [r \in Requests |-> "none"]

-----------------------------------------------------------------------------
\* now = time.time() on the replica that got the request.
Read(r, p) ==
  /\ pc[r] = "idle"
  /\ reading' = [reading EXCEPT ![r] = clock + Ahead[p]]
  /\ readAt' = [readAt EXCEPT ![r] = clock]
  /\ pc' = [pc EXCEPT ![r] = "execute"]
  /\ UNCHANGED <<clock, ranAt, zset, expiry, answer>>

\* The key is gone once its TTL has run out.
Live == IF clock >= expiry THEN {} ELSE zset

\* Faulty: old attempts are never removed.
Pruned_Never(r) == Live

\* ZREMRANGEBYSCORE key 0 window_start.
Pruned(r) == {s \in Live : s > reading[r] - Window}

\* Faulty: count <= limit.
Verdict_OffByOne(r) == IF Cardinality(Pruned(r)) <= Limit THEN "allowed" ELSE "refused"

\* count < limit.
Verdict(r) == IF Cardinality(Pruned(r)) < Limit THEN "allowed" ELSE "refused"

\* Faulty: the key lives too long.
Expiry_LongLived == clock + 60 * Window

Expiry == clock + Window

\* MULTI: prune, ZCARD, ZADD, EXPIRE.
RunPipeline(r) ==
  /\ zset' = Pruned(r) \cup {reading[r]}
  /\ expiry' = Expiry
  /\ ranAt' = [ranAt EXCEPT ![r] = clock]
  /\ pc' = [pc EXCEPT ![r] = "done"]

Execute(r) ==
  /\ pc[r] = "execute"
  /\ RunPipeline(r)
  /\ answer' = [answer EXCEPT ![r] = Verdict(r)]
  /\ UNCHANGED <<clock, reading, readAt>>

\* pipe.execute() raises: Redis has run the pipeline and the reply is lost, or nothing
\* has been run.
ExecuteFails(r) ==
  /\ pc[r] = "execute"
  /\ \/ RunPipeline(r)
     \/ pc' = [pc EXCEPT ![r] = "lost"] /\ UNCHANGED <<zset, expiry, ranAt>>
  /\ answer' = [answer EXCEPT ![r] = "raised"]
  /\ UNCHANGED <<clock, reading, readAt>>

\* Time passes; no pipeline is late by more than MaxDelay.
Tick ==
  /\ clock < MaxTime
  /\ \A r \in Requests : pc[r] = "execute" => clock < readAt[r] + MaxDelay
  /\ clock' = clock + 1
  /\ UNCHANGED <<pc, reading, readAt, ranAt, zset, expiry, answer>>

Next ==
  \/ \E r \in Requests : Execute(r) \/ ExecuteFails(r) \/ \E p \in Replicas : Read(r, p)
  \/ Tick

Spec == Init /\ [][Next]_vars

-----------------------------------------------------------------------------
(***************************************************************************)
(* Properties.                                                             *)
(***************************************************************************)

\* The requests that ran in the d ticks that end with request r.
RanWithin(d, r) ==
  {q \in Requests : pc[q] = "done" /\ ranAt[q] > ranAt[r] - d /\ ranAt[q] <= ranAt[r]}

Allowed == {r \in Requests : answer[r] = "allowed"}

\* However the replicas' clocks differ and the pipelines are delayed, reordered
\* and fail, no stretch of real time as long as the window less that slack sees
\* attempts with more than limit readings let through: what passes the limit is
\* only what had the very same reading as an attempt that was counted.
AtMostLimit ==
  \A r \in Allowed :
    Cardinality({reading[q] : q \in RanWithin(Window - Slack, r) \cap Allowed}) <= Limit

\* Nobody is refused without cause: limit other attempts ran within the window and the
\* slack, let through, refused or raised.
RefusedHadAttempts ==
  \A r \in Requests :
    answer[r] = "refused" => Cardinality(RanWithin(Window + Slack, r) \ {r}) >= Limit
=============================================================================
