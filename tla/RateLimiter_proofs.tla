------------------------- MODULE RateLimiter_proofs -------------------------
(***************************************************************************)
(* Proofs about RateLimiter, for any requests, replicas, clocks, limit,    *)
(* window and delay.                                                       *)
(*                                                                         *)
(*   TimeInv    TypeOK, and an attempt is read and run when it says: its   *)
(*              reading is off by no more than the clocks are, and its     *)
(*              pipeline is late by no more than MaxDelay                  *)
(*   KeptInv    an attempt that ran within the window less the slack is    *)
(*              still in the sorted set, and the key lives as long as any  *)
(*              attempt counts                                             *)
(*   LimitInv   at every past moment, the readings let through within the  *)
(*              window less the slack before it were at most the limit;    *)
(*              this gives AtMostLimit                                     *)
(*   CauseInv   what is in the sorted set is the reading of an attempt     *)
(*              that ran; this gives RefusedHadAttempts                    *)
(***************************************************************************)
EXTENDS RateLimiter, FiniteSetTheorems, TLAPS

RequestTime(r) ==
  /\ pc[r] = "idle" => answer[r] = "none" /\ ranAt[r] = NotYet
  /\ pc[r] = "execute" =>
       /\ answer[r] = "none" /\ ranAt[r] = NotYet
       /\ readAt[r] \in 0..clock /\ clock <= readAt[r] + MaxDelay
  /\ pc[r] = "done" =>
       readAt[r] \in 0..clock /\ ranAt[r] \in readAt[r]..clock /\ ranAt[r] <= readAt[r] + MaxDelay
  /\ pc[r] = "lost" => answer[r] = "raised"
  /\ pc[r] # "idle" => readAt[r] <= reading[r] /\ reading[r] <= readAt[r] + MaxAhead

TimeInv == TypeOK /\ \A r \in Requests : RequestTime(r)

Ran == {r \in Requests : pc[r] = "done"}

KeptInv ==
  \A q \in Ran :
    /\ ranAt[q] > clock - (Window - Slack) => reading[q] \in zset
    /\ ranAt[q] + Window <= expiry

\* The readings that were let through in the window less the slack before time t.
LetThrough(t) ==
  {reading[q] : q \in {x \in Allowed : ranAt[x] > t - (Window - Slack) /\ ranAt[x] <= t}}

LimitInv ==
  \A t \in 0..clock : IsFiniteSet(LetThrough(t)) /\ Cardinality(LetThrough(t)) <= Limit

CauseInv ==
  /\ IsFiniteSet(Ran)
  /\ \A s \in zset : \E q \in Ran : reading[q] = s
  /\ RefusedHadAttempts

-----------------------------------------------------------------------------
\* A pipeline that Redis has run, whatever the caller learns of it, and one that it has not.
Runs(r) ==
  /\ pc[r] = "execute"
  /\ RunPipeline(r)
  /\ \E a \in {Verdict(r), "raised"} : answer' = [answer EXCEPT ![r] = a]
  /\ UNCHANGED <<clock, reading, readAt>>

Loses(r) ==
  /\ pc[r] = "execute"
  /\ pc' = [pc EXCEPT ![r] = "lost"]
  /\ answer' = [answer EXCEPT ![r] = "raised"]
  /\ UNCHANGED <<clock, reading, readAt, zset, expiry, ranAt>>

\* The five kinds of step.
LEMMA Steps ==
  ASSUME [Next]_vars
  PROVE  \/ \E r \in Requests : Runs(r) \/ Loses(r) \/ \E p \in Replicas : Read(r, p)
         \/ Tick \/ UNCHANGED vars
<1>1. ASSUME NEW r \in Requests, Execute(r) PROVE Runs(r)
  BY <1>1 DEF Execute, Runs
<1>2. ASSUME NEW r \in Requests, ExecuteFails(r) PROVE Runs(r) \/ Loses(r)
  BY <1>2 DEF ExecuteFails, Runs, Loses
<1> QED
  BY <1>1, <1>2 DEF Next

\* The bounds are numbers.
LEMMA Bounds ==
  Limit \in Nat /\ Window \in Nat /\ MaxDelay \in Nat /\ MaxTime \in Nat
BY BoundsAssumption

\* No clock is further ahead than the furthest.
LEMMA AheadIsBounded ==
  /\ MaxAhead \in Nat /\ Slack \in Nat
  /\ Slack = MaxAhead + MaxDelay
  /\ \A p \in Replicas : Ahead[p] \in Nat /\ Ahead[p] <= MaxAhead
<1> DEFINE S == {Ahead[p] : p \in Replicas}
           Furthest(d) == \A p \in Replicas : Ahead[p] <= d
<1>1. \E d \in S : Furthest(d)
  BY AheadAssumption
<1>2. MaxAhead \in S /\ Furthest(MaxAhead)
  BY <1>1 DEF MaxAhead
<1>3. MaxAhead \in Nat
  BY <1>2, AheadAssumption
<1> QED
  BY <1>2, <1>3, AheadAssumption, Bounds DEF Slack

\* Nothing has been read at first.
LEMMA TimeInvInit == Init => TimeInv
BY Bounds, AheadIsBounded DEF Init, TimeInv, TypeOK, RequestTime, NotYet

\* A reading is the clock of some replica, and time does not pass a pipeline by.
LEMMA TimeInvNext == TimeInv /\ [Next]_vars => TimeInv'
<1> SUFFICES ASSUME TimeInv, [Next]_vars PROVE TimeInv'
  OBVIOUS
<1> USE Bounds, AheadIsBounded DEF TimeInv, TypeOK, RequestTime, NotYet
<1>1. ASSUME NEW r \in Requests, Runs(r) PROVE TimeInv'
  <2>1. expiry' \in 0..(MaxTime + Window)
    BY <1>1 DEF Runs, RunPipeline, Expiry
  <2>2. zset' \subseteq 0..(MaxTime + MaxAhead)
    <3>1. reading[r] \in 0..(MaxTime + MaxAhead)
      BY <1>1 DEF Runs, RunPipeline
    <3>2. Pruned(r) \subseteq zset
      BY DEF Pruned, Live
    <3> QED
      BY <1>1, <3>1, <3>2 DEF Runs, RunPipeline
  <2>3. answer' \in [Requests -> {"none", "allowed", "refused", "raised"}]
    <3>1. PICK a \in {Verdict(r), "raised"} : answer' = [answer EXCEPT ![r] = a]
      BY <1>1 DEF Runs
    <3>2. Verdict(r) = "allowed" \/ Verdict(r) = "refused"
      BY DEF Verdict
    <3>3. a \in {"none", "allowed", "refused", "raised"}
      BY <3>1, <3>2
    <3> QED
      BY <3>1, <3>3
  <2>4. TypeOK'
    BY <1>1, <2>1, <2>2, <2>3 DEF Runs, RunPipeline
  <2> QED
    BY <1>1, <2>4 DEF Runs, RunPipeline
<1>5. ASSUME NEW r \in Requests, Loses(r) PROVE TimeInv'
  BY <1>5 DEF Loses
<1>2. ASSUME NEW r \in Requests, NEW p \in Replicas, Read(r, p) PROVE TimeInv'
  BY <1>2 DEF Read
<1>3. CASE Tick
  BY <1>3 DEF Tick
<1>4. CASE UNCHANGED vars
  BY <1>4 DEF vars
<1> QED
  BY <1>1, <1>2, <1>3, <1>4, <1>5, Steps

\* Clocks, readings, the sorted set and the answers keep their types: in particular no
\* score lies beyond what the furthest clock can have shown.
THEOREM TypeCorrect == Spec => []TypeOK
<1>1. TimeInv => TypeOK
  BY DEF TimeInv
<1> QED
  BY <1>1, TimeInvInit, TimeInvNext, PTL DEF Spec

-----------------------------------------------------------------------------
\* Nothing has run at first.
LEMMA KeptInvInit == Init => KeptInv
BY DEF Init, KeptInv, Ran

\* The prune takes only attempts that have left the window by the clock of the pruning
\* replica, and the TTL is a whole window.
LEMMA KeptInvNext == TimeInv /\ TimeInv' /\ KeptInv /\ [Next]_vars => KeptInv'
<1> SUFFICES ASSUME TimeInv, TimeInv', KeptInv, [Next]_vars PROVE KeptInv'
  OBVIOUS
<1> USE Bounds, AheadIsBounded DEF TimeInv, TypeOK, RequestTime, NotYet, KeptInv, Ran
<1>1. ASSUME NEW r \in Requests, Runs(r) PROVE KeptInv'
  <2>1. ASSUME NEW q \in Ran' PROVE ranAt'[q] + Window <= expiry'
    BY <1>1, <2>1 DEF Runs, RunPipeline, Expiry
  <2>2. ASSUME NEW q \in Ran', ranAt'[q] > clock' - (Window - Slack) PROVE reading'[q] \in zset'
    <3>1. CASE q = r
      BY <1>1, <3>1 DEF Runs, RunPipeline
    <3>2. CASE q # r
      <4>1. q \in Ran /\ ranAt[q] > clock - (Window - Slack)
        BY <1>1, <2>2, <3>2 DEF Runs, RunPipeline
      <4>2. reading[q] \in Live
        BY <4>1 DEF Live
      <4>3. reading[q] > reading[r] - Window
        BY <1>1, <4>1 DEF Runs, RunPipeline
      <4> QED
        BY <1>1, <4>2, <4>3 DEF Runs, RunPipeline, Pruned
    <3> QED
      BY <3>1, <3>2
  <2> QED
    BY <2>1, <2>2
<1>5. ASSUME NEW r \in Requests, Loses(r) PROVE KeptInv'
  BY <1>5 DEF Loses
<1>2. ASSUME NEW r \in Requests, NEW p \in Replicas, Read(r, p) PROVE KeptInv'
  BY <1>2 DEF Read
<1>3. CASE Tick
  BY <1>3 DEF Tick
<1>4. CASE UNCHANGED vars
  BY <1>4 DEF vars
<1> QED
  BY <1>1, <1>2, <1>3, <1>4, <1>5, Steps

-----------------------------------------------------------------------------
\* The sorted set is finite, with or without one more score.
LEMMA PrunedIsFinite ==
  ASSUME TimeInv, NEW r \in Requests
  PROVE  /\ IsFiniteSet(Pruned(r)) /\ Cardinality(Pruned(r)) \in Nat
         /\ \A x : /\ IsFiniteSet(Pruned(r) \cup {x})
                   /\ Cardinality(Pruned(r) \cup {x}) <= Cardinality(Pruned(r)) + 1
<1>1. IsFiniteSet(0..(MaxTime + MaxAhead))
  BY Bounds, AheadIsBounded, FS_Interval
<1>2. Pruned(r) \subseteq 0..(MaxTime + MaxAhead)
  BY DEF TimeInv, TypeOK, Pruned, Live
<1>3. IsFiniteSet(Pruned(r)) /\ Cardinality(Pruned(r)) \in Nat
  BY <1>1, <1>2, FS_Subset, FS_CardinalityType
<1>4. ASSUME NEW x PROVE /\ IsFiniteSet(Pruned(r) \cup {x})
                         /\ Cardinality(Pruned(r) \cup {x}) <= Cardinality(Pruned(r)) + 1
  BY <1>3, FS_AddElement
<1> QED
  BY <1>3, <1>4

\* Nothing is let through at first.
LEMMA LimitInvInit == Init => LimitInv
<1> SUFFICES ASSUME Init, NEW t \in 0..clock
             PROVE  IsFiniteSet(LetThrough(t)) /\ Cardinality(LetThrough(t)) <= Limit
  BY DEF LimitInv
<1>1. LetThrough(t) = {}
  BY DEF Init, LetThrough, Allowed
<1> QED
  BY <1>1, FS_EmptySet, Bounds

\* When an attempt is let through, all that was let through within the window less the
\* slack is among what is counted.
LEMMA LetThroughIsCounted ==
  ASSUME TimeInv, KeptInv, NEW r \in Requests, pc[r] = "execute"
  PROVE  LetThrough(clock) \subseteq Pruned(r)
<1> USE Bounds, AheadIsBounded DEF TimeInv, TypeOK, RequestTime, NotYet
<1> SUFFICES ASSUME NEW q \in Allowed, ranAt[q] > clock - (Window - Slack)
             PROVE  reading[q] \in Pruned(r)
  BY DEF LetThrough
<1>1. q \in Ran /\ q \in Requests
  BY DEF Allowed, Ran
<1>2. reading[q] \in Live
  BY <1>1 DEF KeptInv, Live
<1>3. reading[q] > reading[r] - Window
  BY <1>1 DEF Ran
<1> QED
  BY <1>2, <1>3 DEF Pruned

\* What was let through before stays within the limit, and the attempt of the moment is
\* let through only below it.
LEMMA LimitInvNext == TimeInv /\ KeptInv /\ LimitInv /\ [Next]_vars => LimitInv'
<1> SUFFICES ASSUME TimeInv, KeptInv, LimitInv, [Next]_vars, NEW t \in 0..clock'
             PROVE  IsFiniteSet(LetThrough(t))' /\ Cardinality(LetThrough(t))' <= Limit
  BY DEF LimitInv
<1> USE Bounds, AheadIsBounded DEF TimeInv, TypeOK, RequestTime, NotYet
<1>0. ASSUME t \in 0..clock, LetThrough(t)' \subseteq LetThrough(t)
      PROVE  IsFiniteSet(LetThrough(t))' /\ Cardinality(LetThrough(t))' <= Limit
  BY <1>0, FS_Subset, FS_CardinalityType DEF LimitInv
<1>1. ASSUME NEW r \in Requests, Runs(r)
      PROVE  IsFiniteSet(LetThrough(t))' /\ Cardinality(LetThrough(t))' <= Limit
  <2>1. t \in 0..clock
    BY <1>1 DEF Runs, RunPipeline
  <2>2. CASE t < clock \/ answer'[r] # "allowed"
    <3>1. LetThrough(t)' \subseteq LetThrough(t)
      BY <1>1, <2>1, <2>2 DEF Runs, RunPipeline, LetThrough, Allowed
    <3> QED
      BY <1>0, <2>1, <3>1
  <2>3. CASE t = clock /\ answer'[r] = "allowed"
    <3>1. LetThrough(t)' \subseteq LetThrough(t) \cup {reading[r]}
      BY <1>1 DEF Runs, RunPipeline, LetThrough, Allowed
    <3>2. LetThrough(t)' \subseteq Pruned(r) \cup {reading[r]}
      BY <1>1, <2>3, <3>1, LetThroughIsCounted DEF Runs, RunPipeline
    <3>3. Cardinality(Pruned(r)) < Limit
      BY <1>1, <2>3 DEF Runs, RunPipeline, Verdict
    <3>4. /\ IsFiniteSet(Pruned(r) \cup {reading[r]}) /\ Cardinality(Pruned(r)) \in Nat
          /\ Cardinality(Pruned(r) \cup {reading[r]}) <= Cardinality(Pruned(r)) + 1
      BY PrunedIsFinite
    <3> QED
      BY <3>2, <3>3, <3>4, FS_Subset, FS_CardinalityType
  <2> QED
    BY <2>1, <2>2, <2>3
<1>5. ASSUME NEW r \in Requests, Loses(r)
      PROVE  IsFiniteSet(LetThrough(t))' /\ Cardinality(LetThrough(t))' <= Limit
  <2>1. LetThrough(t)' \subseteq LetThrough(t)
    BY <1>5 DEF Loses, LetThrough, Allowed
  <2> QED
    BY <1>0, <1>5, <2>1 DEF Loses
<1>2. ASSUME NEW r \in Requests, NEW p \in Replicas, Read(r, p)
      PROVE  IsFiniteSet(LetThrough(t))' /\ Cardinality(LetThrough(t))' <= Limit
  <2>1. LetThrough(t)' \subseteq LetThrough(t)
    BY <1>2 DEF Read, LetThrough, Allowed
  <2> QED
    BY <1>0, <1>2, <2>1 DEF Read
<1>3. CASE Tick
  <2>1. UNCHANGED <<reading, answer, ranAt>>
    BY <1>3 DEF Tick
  <2>2. CASE t \in 0..clock
    <3>1. LetThrough(t)' = LetThrough(t)
      BY <2>1 DEF LetThrough, Allowed
    <3> QED
      BY <1>0, <2>2, <3>1
  <2>3. CASE t = clock + 1
    <3>1. LetThrough(t)' \subseteq LetThrough(clock)
      BY <2>1, <2>3 DEF LetThrough, Allowed
    <3>2. IsFiniteSet(LetThrough(clock)) /\ Cardinality(LetThrough(clock)) <= Limit
      BY DEF LimitInv
    <3> QED
      BY <3>1, <3>2, FS_Subset, FS_CardinalityType
  <2> QED
    BY <1>3, <2>2, <2>3 DEF Tick
<1>4. CASE UNCHANGED vars
  <2>1. LetThrough(t)' = LetThrough(t) /\ clock' = clock
    BY <1>4 DEF LetThrough, Allowed, vars
  <2> QED
    BY <1>0, <2>1
<1> QED
  BY <1>1, <1>2, <1>3, <1>4, <1>5, Steps

\* However the clocks of the replicas differ and the pipelines are delayed and reordered,
\* no stretch of real time as long as the window less that slack sees more than limit
\* readings let through.
THEOREM LimitHolds == Spec => []AtMostLimit
<1>1. TimeInv /\ LimitInv => AtMostLimit
  <2> SUFFICES ASSUME TimeInv, LimitInv, NEW r \in Allowed
               PROVE  Cardinality({reading[q] : q \in RanWithin(Window - Slack, r) \cap Allowed})
                        <= Limit
    BY DEF AtMostLimit
  <2>1. ranAt[r] \in 0..clock
    BY DEF TimeInv, TypeOK, RequestTime, Allowed
  <2>2. RanWithin(Window - Slack, r) \cap Allowed
          = {x \in Allowed : ranAt[x] > ranAt[r] - (Window - Slack) /\ ranAt[x] <= ranAt[r]}
    BY DEF TimeInv, TypeOK, RequestTime, Allowed, RanWithin
  <2>3. {reading[q] : q \in RanWithin(Window - Slack, r) \cap Allowed} = LetThrough(ranAt[r])
    BY <2>2 DEF LetThrough
  <2> QED
    BY <2>1, <2>3 DEF LimitInv
<1> QED
  BY <1>1, TimeInvInit, TimeInvNext, KeptInvInit, KeptInvNext, LimitInvInit, LimitInvNext,
     PTL DEF Spec

-----------------------------------------------------------------------------
\* No score is there at first.
LEMMA CauseInvInit == Init => CauseInv
<1> SUFFICES ASSUME Init PROVE CauseInv
  OBVIOUS
<1>1. Ran = {}
  BY DEF Init, Ran
<1> QED
  BY <1>1, FS_EmptySet DEF Init, CauseInv, RefusedHadAttempts

\* A refused attempt counted limit readings; each is that of an attempt of its own, which
\* ran within the window and the slack.
LEMMA CountedRanWithin ==
  ASSUME TimeInv, CauseInv, NEW r \in Requests, Runs(r)
  PROVE  Cardinality(Pruned(r)) <= Cardinality(RanWithin(Window + Slack, r)' \ {r})
<1> DEFINE Q == RanWithin(Window + Slack, r)' \ {r}
           Owner(s) == CHOOSE q \in Q : reading[q] = s
           owner == [s \in Pruned(r) |-> Owner(s)]
<1> USE Bounds, AheadIsBounded DEF TimeInv, TypeOK, RequestTime, NotYet
<1>1. ASSUME NEW s \in Pruned(r) PROVE \E q \in Q : reading[q] = s
  <2>1. s \in zset /\ s > reading[r] - Window
    BY DEF Pruned, Live
  <2>2. PICK q \in Ran : reading[q] = s
    BY <2>1 DEF CauseInv
  <2>3. q \in Requests /\ q # r /\ pc[q] = "done"
    BY <2>2 DEF Ran, Runs, RunPipeline
  <2>4. ranAt[q] > clock - (Window + Slack) /\ ranAt[q] <= clock
    BY <2>1, <2>2, <2>3 DEF Runs, RunPipeline
  <2> QED
    BY <2>2, <2>3, <2>4 DEF Runs, RunPipeline, RanWithin
<1>2. owner \in Injection(Pruned(r), Q)
  <2>1. \A s \in Pruned(r) : Owner(s) \in Q /\ reading[Owner(s)] = s
    BY <1>1
  <2> QED
    BY <2>1 DEF Injection, IsInjective
<1>3. IsFiniteSet(Q)
  <2>1. Q \subseteq Ran
    BY DEF Runs, RunPipeline, RanWithin, Ran
  <2> QED
    BY <2>1, FS_Subset DEF CauseInv
<1> QED
  BY <1>2, <1>3, FS_Injection

\* An attempt that ran stays where it was in time, and in the sorted set are only readings
\* of attempts that ran.
LEMMA CauseInvNext == TimeInv /\ CauseInv /\ [Next]_vars => CauseInv'
<1> SUFFICES ASSUME TimeInv, CauseInv, [Next]_vars PROVE CauseInv'
  OBVIOUS
<1> USE DEF NotYet
<1>1. ASSUME NEW r \in Requests, Runs(r) PROVE CauseInv'
  <2>0. Ran' = Ran \cup {r}
    BY <1>1 DEF Runs, RunPipeline, Ran, TimeInv, TypeOK
  <2>1. IsFiniteSet(Ran')
    BY <2>0, FS_AddElement DEF CauseInv
  <2>2. \A s \in zset' : \E q \in Ran' : reading'[q] = s
    BY <1>1, <2>0 DEF CauseInv, Runs, RunPipeline, Pruned, Live
  <2>3. ASSUME NEW x \in Requests, answer'[x] = "refused"
        PROVE  Cardinality(RanWithin(Window + Slack, x)' \ {x}) >= Limit
    <3> DEFINE Before == RanWithin(Window + Slack, x) \ {x}
               After == RanWithin(Window + Slack, x)' \ {x}
    <3>0. IsFiniteSet(After) /\ Cardinality(After) \in Nat
      <4>1. After \subseteq Ran'
        BY DEF RanWithin, Ran
      <4> QED
        BY <2>1, <4>1, FS_Subset, FS_CardinalityType
    <3>1. CASE x = r
      <4>1. Cardinality(Pruned(r)) >= Limit
        BY <1>1, <2>3, <3>1, PrunedIsFinite, Bounds DEF Runs, RunPipeline, Verdict, TimeInv, TypeOK
      <4>2. Cardinality(Pruned(r)) <= Cardinality(After)
        BY <1>1, <3>1, CountedRanWithin
      <4>3. Cardinality(Pruned(r)) \in Nat
        BY PrunedIsFinite
      <4> HIDE DEF After
      <4>4. Cardinality(After) >= Limit
        BY <3>0, <4>1, <4>2, <4>3, Bounds
      <4> QED
        BY <4>4 DEF After
    <3>2. CASE x # r
      <4>1. answer[x] = "refused" /\ pc[x] = "done"
        BY <1>1, <2>3, <3>2 DEF Runs, RunPipeline, TimeInv, TypeOK, RequestTime
      <4>2. Before \subseteq After
        BY <1>1, <3>2 DEF Runs, RunPipeline, RanWithin, TimeInv, TypeOK
      <4>3. Cardinality(Before) >= Limit
        BY <4>1 DEF CauseInv, RefusedHadAttempts
      <4> HIDE DEF Before, After
      <4>4. Cardinality(Before) <= Cardinality(After) /\ Cardinality(Before) \in Nat
        BY <3>0, <4>2, FS_Subset, FS_CardinalityType
      <4>5. Cardinality(After) >= Limit
        BY <3>0, <4>3, <4>4, Bounds
      <4> QED
        BY <4>5 DEF After
    <3> QED
      BY <3>1, <3>2
  <2> QED
    BY <2>1, <2>2, <2>3 DEF CauseInv, RefusedHadAttempts
<1>5. ASSUME NEW r \in Requests, Loses(r) PROVE CauseInv'
  <2>1. Ran' = Ran /\ UNCHANGED <<reading, zset>>
    BY <1>5 DEF Loses, Ran, TimeInv, TypeOK
  <2>2. \A d, x : RanWithin(d, x)' = RanWithin(d, x)
    BY <1>5 DEF Loses, RanWithin, TimeInv, TypeOK
  <2>3. \A x \in Requests : answer'[x] = "refused" => answer[x] = "refused"
    BY <1>5 DEF Loses, TimeInv, TypeOK
  <2> QED
    BY <2>1, <2>2, <2>3 DEF CauseInv, RefusedHadAttempts
<1>2. ASSUME NEW r \in Requests, NEW p \in Replicas, Read(r, p) PROVE CauseInv'
  <2>1. Ran' = Ran /\ \A q \in Ran : reading'[q] = reading[q]
    BY <1>2 DEF Read, Ran, TimeInv, TypeOK
  <2>2. \A d, x : RanWithin(d, x)' = RanWithin(d, x)
    BY <1>2 DEF Read, RanWithin, TimeInv, TypeOK
  <2> QED
    BY <1>2, <2>1, <2>2 DEF Read, CauseInv, RefusedHadAttempts
<1>3. CASE Tick \/ UNCHANGED vars
  <2>1. UNCHANGED <<pc, reading, ranAt, zset, answer>>
    BY <1>3 DEF Tick, vars
  <2> QED
    BY <2>1 DEF CauseInv, Ran, RefusedHadAttempts, RanWithin
<1> QED
  BY <1>1, <1>2, <1>3, <1>5, Steps

\* Nobody is refused without cause: limit other attempts ran within the window and the
\* slack.
THEOREM RefusalHasCause == Spec => []RefusedHadAttempts
<1>1. CauseInv => RefusedHadAttempts
  BY DEF CauseInv
<1> QED
  BY <1>1, TimeInvInit, TimeInvNext, CauseInvInit, CauseInvNext, PTL DEF Spec
=============================================================================
