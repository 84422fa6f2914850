---------------------- MODULE NotificationWorker_proofs ----------------------
(***************************************************************************)
(* Proofs about NotificationWorker, for any partitions, topic length,      *)
(* unreadable records and bounds on the failures.                          *)
(*                                                                         *)
(*   HandInv    TypeOK; a record in hand is not committed yet and is the   *)
(*              one before the in-memory position, unless the consumer     *)
(*              went back to the committed offsets meanwhile; what is      *)
(*              committed is not ahead of what was read                    *)
(*   LossInv    the readable records that are worked off and not bridged   *)
(*              are finite in number, and no more than the failures        *)
(*   ReplayInv  a record that is worked off was bridged at most once more  *)
(*              than its partition went back, one that is yet to come at   *)
(*              most as often                                              *)
(* HandInv shows that every step is a step of StatusChannel or leaves its  *)
(* variables unchanged.                                                    *)
(***************************************************************************)
EXTENDS NotificationWorker, FiniteSetTheorems, TLAPS

InHand == at \in {"check_stop", "publish", "commit"}

\* The consumer went back while the record was in hand.
Stale == InHand /\ position[record[1]] # record[2] + 1

HandInv ==
  /\ TypeOK
  /\ ~InHand => record = NoRecord
  /\ InHand =>
       /\ record \in Records
       /\ committed[record[1]] <= record[2] /\ record[2] < produced[record[1]]
       /\ Stale => position = committed
  /\ \A p \in Partitions : committed[p] <= position[p] /\ position[p] <= produced[p]

\* Readable records the loop is done with, and whose publication failed.
Dropped == {r \in Records \ Poison : r[2] < WorkedOff[r[1]] /\ r \notin Bridged}

LossInv == IsFiniteSet(Dropped) /\ Cardinality(Dropped) <= faults

\* How often a partition has gone back, at most: a signal that is not heeded yet, a
\* membership that is not won back yet, and a rejoin that has left the partition of the
\* record in hand for later are not counted.
Unheeded == IF stop /\ at # "down" THEN 1 ELSE 0
Absent == IF group = "dropped" THEN 1 ELSE 0
Later(p) == IF Stale /\ record[1] = p THEN 1 ELSE 0
Returns(p) == crashes + stops + lapses - Unheeded - Absent - Later(p)

ReplayInv ==
  \A r \in Records :
    Replays(r) <= (IF r[2] < WorkedOff[r[1]] THEN 1 ELSE 0) + Returns(r[1])

-----------------------------------------------------------------------------
\* The bounds are numbers.
LEMMA Bounds ==
  /\ MaxRecords \in Nat /\ MaxFaults \in Nat
  /\ MaxCrashes \in Nat /\ MaxStops \in Nat /\ MaxLapses \in Nat
BY BoundsAssumption

\* The worker starts at the beginning of an empty topic, with nothing in hand.
LEMMA HandInvInit == Init => HandInv
<1> SUFFICES ASSUME Init PROVE HandInv
  OBVIOUS
<1>1. stop \in BOOLEAN
  BY DEF Init
<1> QED
  BY <1>1, Bounds DEF Init, HandInv, TypeOK, LoopSteps, InHand

\* The iterator hands a record out and moves behind it; the record stays in hand, and the
\* position where it is or where the committed one is, until the iteration is over.
LEMMA HandInvNext == HandInv /\ [Next]_vars => HandInv'
<1> SUFFICES ASSUME HandInv, [Next]_vars PROVE HandInv'
  OBVIOUS
<1> USE NoRecordAssumption, Bounds
    DEF HandInv, TypeOK, LoopSteps, InHand, Stale, NextIteration, AfterFailure, groupVars
<1>1. ASSUME NEW p \in Partitions, Iterate(p) PROVE HandInv'
  <2>1. position[p] \in Offsets /\ position[p] + 1 <= produced[p]
    BY <1>1 DEF Iterate, Offsets
  <2>2. record' \in Records /\ record'[1] = p /\ record'[2] = position[p]
    BY <1>1, <2>1 DEF Iterate, Records
  <2>3. /\ position' \in [Partitions -> 0..MaxRecords]
        /\ position'[p] = position[p] + 1
        /\ \A q \in Partitions : committed[q] <= position'[q] /\ position'[q] <= produced[q]
    BY <1>1, <2>1 DEF Iterate
  <2> QED
    BY <1>1, <2>2, <2>3 DEF Iterate
<1>2. CASE BreakLoop
  BY <1>2 DEF BreakLoop
<1>3. CASE HandleMessage
  BY <1>3 DEF HandleMessage
<1>4. CASE HandleMessageRaises
  BY <1>4 DEF HandleMessageRaises
<1>5. CASE Publish
  BY <1>5 DEF Publish
<1>6. CASE Commit
  BY <1>6 DEF Commit
<1>7. ASSUME NEW p \in Partitions, Produce(p) PROVE HandInv'
  <2>1. /\ produced' \in [Partitions -> 0..MaxRecords]
        /\ \A q \in Partitions : produced[q] <= produced'[q]
    BY <1>7 DEF Produce
  <2>2. InHand => record[1] \in Partitions /\ record[2] \in Int
    BY DEF Records, Offsets
  <2> QED
    BY <1>7, <2>1, <2>2 DEF Produce
<1>8. CASE PublishFails
  BY <1>8 DEF PublishFails
<1>9. CASE CommitFails \/ CommitRefused
  <2>1. CASE CommitFails
    BY <2>1 DEF CommitFails
  <2>2. CASE CommitRefused
    BY <2>2 DEF CommitRefused
  <2> QED
    BY <1>9, <2>1, <2>2
<1>10. CASE Signal
  BY <1>10 DEF Signal
<1>11. CASE Crash
  BY <1>11 DEF Crash
<1>12. CASE Start
  <2>1. position' = committed /\ group' = "member"
    BY <1>12 DEF Start, Join, StartPosition
  <2>2. /\ at = "down" /\ at' = "iterate" /\ stop' = FALSE
        /\ UNCHANGED <<produced, committed, record, channel, faults, crashes, stops, lapses>>
    BY <1>12 DEF Start
  <2>3. \A p \in Partitions : committed[p] <= produced[p] /\ committed[p] <= committed[p]
    OBVIOUS
  <2>4. TypeOK' /\ record' = NoRecord /\ ~InHand'
    BY <2>1, <2>2
  <2> QED
    BY <2>1, <2>2, <2>3, <2>4 DEF HandInv
<1>13. CASE Lapse
  BY <1>13 DEF Lapse
<1>14. CASE Rejoin
  <2>1. position' = committed
    BY <1>14 DEF Rejoin, Join, StartPosition
  <2> QED
    BY <1>14, <2>1 DEF Rejoin, Join
<1>15. CASE UNCHANGED vars
  BY <1>15 DEF vars
<1> QED
  BY <1>1, <1>2, <1>3, <1>4, <1>5, <1>6, <1>7, <1>8, <1>9, <1>10, <1>11, <1>12, <1>13,
     <1>14, <1>15 DEF Next, Loop

\* Offsets, positions, the loop's step and the counters keep their types: in particular
\* neither the position nor the committed offset leaves the topic.
THEOREM TypeCorrect == Spec => []TypeOK
<1>1. HandInv => TypeOK
  BY DEF HandInv
<1> QED
  BY <1>1, HandInvInit, HandInvNext, PTL DEF Spec

-----------------------------------------------------------------------------
(* What a step does to the place the loop is at. *)

NoFewerReturns == \A p \in Partitions : Returns(p)' >= Returns(p)

Bridges(p) ==
  /\ channel' = Append(channel, <<p, WorkedOff[p]>>)
  /\ WorkedOff' = [WorkedOff EXCEPT ![p] = @ + 1]
  /\ NoFewerReturns
  /\ UNCHANGED <<produced, committed, faults>>

Skips(p) ==
  /\ WorkedOff' = [WorkedOff EXCEPT ![p] = @ + 1]
  /\ \/ <<p, WorkedOff[p]>> \in Poison /\ faults' = faults
     \/ faults' = faults + 1
  /\ NoFewerReturns
  /\ UNCHANGED <<produced, committed, channel>>

GoesBack(S) ==
  /\ WorkedOff' = [p \in Partitions |-> IF p \in S THEN committed[p] ELSE WorkedOff[p]]
  /\ \A p \in S : Returns(p)' > Returns(p)
  /\ faults' \in {faults, faults + 1}
  /\ NoFewerReturns
  /\ UNCHANGED <<produced, committed, channel>>

Stays ==
  /\ \/ UNCHANGED <<produced, committed>>
     \/ \E p \in Partitions : produced' = [produced EXCEPT ![p] = @ + 1] /\ UNCHANGED committed
     \/ committed' = WorkedOff /\ UNCHANGED produced
  /\ faults' \in {faults, faults + 1}
  /\ NoFewerReturns
  /\ UNCHANGED <<WorkedOff, channel>>

CursorShape ==
  /\ WorkedOff \in [Partitions -> 0..MaxRecords]
  /\ \A p \in Partitions : committed[p] <= WorkedOff[p] /\ WorkedOff[p] <= produced[p]
  /\ at = "down" => WorkedOff = committed
  /\ ~InHand /\ at # "down" => WorkedOff = position
  /\ InHand => record[1] \in Partitions
  /\ at \in {"check_stop", "publish"} =>
       /\ record = <<record[1], WorkedOff[record[1]]>>
       /\ WorkedOff[record[1]] < produced[record[1]]
       /\ ~Stale => position = [WorkedOff EXCEPT ![record[1]] = @ + 1]
  /\ at = "commit" /\ ~Stale => WorkedOff = position
  /\ Stale => \A p \in Partitions : p # record[1] => WorkedOff[p] = committed[p]

\* The place the loop is at lies in the topic, what is committed does not lie behind it,
\* and the record in hand is the one there.
LEMMA CursorHasShape == HandInv => CursorShape
<1> SUFFICES ASSUME HandInv PROVE CursorShape
  OBVIOUS
<1> USE Bounds DEF HandInv, TypeOK, Records, Offsets, InHand
<1>1. ASSUME InHand
      PROVE  /\ record[1] \in Partitions /\ record[2] \in 0..(MaxRecords - 1)
             /\ record = <<record[1], record[2]>>
  BY <1>1
<1>2. WorkedOff \in [Partitions -> 0..MaxRecords]
  BY <1>1 DEF WorkedOff
<1>3. \A p \in Partitions : committed[p] <= WorkedOff[p] /\ WorkedOff[p] <= produced[p]
  BY <1>1 DEF WorkedOff
<1>4. at = "down" => WorkedOff = committed
  BY DEF WorkedOff
<1>5. ~InHand /\ at # "down" => WorkedOff = position
  BY DEF WorkedOff
<1>6. ASSUME at \in {"check_stop", "publish"}
      PROVE  /\ record = <<record[1], WorkedOff[record[1]]>>
             /\ WorkedOff[record[1]] < produced[record[1]]
             /\ ~Stale => position = [WorkedOff EXCEPT ![record[1]] = @ + 1]
  <2>1. WorkedOff = [position EXCEPT ![record[1]] = record[2]]
    BY <1>1, <1>6 DEF WorkedOff
  <2>2. ~Stale => position[record[1]] = record[2] + 1
    BY <1>6 DEF Stale
  <2> QED
    BY <1>1, <1>6, <2>1, <2>2
<1>7. ASSUME at = "commit", ~Stale PROVE WorkedOff = position
  <2>1. WorkedOff = [position EXCEPT ![record[1]] = record[2] + 1]
    BY <1>1, <1>7 DEF WorkedOff
  <2>2. position[record[1]] = record[2] + 1
    BY <1>7 DEF Stale
  <2> QED
    BY <1>1, <1>7, <2>1, <2>2
<1>8. ASSUME Stale, NEW p \in Partitions, p # record[1] PROVE WorkedOff[p] = committed[p]
  BY <1>8 DEF WorkedOff, Stale
<1> QED
  BY <1>1, <1>2, <1>3, <1>4, <1>5, <1>6, <1>7, <1>8 DEF CursorShape

\* What the counting below needs of the types.
LEMMA Types ==
  ASSUME HandInv
  PROVE  /\ \A p \in Partitions : WorkedOff[p] \in Nat /\ committed[p] \in Nat
         /\ WorkedOff \in [Partitions -> 0..MaxRecords]
         /\ channel \in Seq(Records) /\ faults \in Nat
         /\ \A r \in Records : r[1] \in Partitions /\ r[2] \in Int /\ r = <<r[1], r[2]>>
<1>1. WorkedOff \in [Partitions -> 0..MaxRecords]
  BY CursorHasShape DEF CursorShape
<1>2. \A p \in Partitions : WorkedOff[p] \in Nat
  BY <1>1, Bounds
<1>3. \A p \in Partitions : committed[p] \in Nat
  BY Bounds DEF HandInv, TypeOK
<1>4. channel \in Seq(Records) /\ faults \in Nat
  BY Bounds DEF HandInv, TypeOK
<1>5. \A r \in Records : r[1] \in Partitions /\ r[2] \in Int /\ r = <<r[1], r[2]>>
  BY Bounds DEF Records, Offsets
<1> QED
  BY <1>1, <1>2, <1>3, <1>4, <1>5

\* Partitions go back a number of times.
LEMMA ReturnsAreNumbers == HandInv => \A p \in Partitions : Returns(p) \in Int
BY Bounds DEF HandInv, TypeOK, Returns, Unheeded, Absent, Later

\* A step bridges the record the loop is at, skips it, takes the loop back to what was
\* committed in some partitions, or leaves the loop where it is.
LEMMA CursorMoves ==
  HandInv /\ HandInv' /\ [Next]_vars =>
    \/ \E p \in Partitions : Bridges(p) \/ Skips(p)
    \/ \E S \in SUBSET Partitions : GoesBack(S)
    \/ Stays
<1> SUFFICES ASSUME HandInv, HandInv', [Next]_vars
             PROVE  \/ \E p \in Partitions : Bridges(p) \/ Skips(p)
                    \/ \E S \in SUBSET Partitions : GoesBack(S)
                    \/ Stays
  OBVIOUS
<1>0. CursorShape /\ CursorShape'
  BY CursorHasShape, PTL
<1>a. /\ crashes \in Int /\ stops \in Int /\ lapses \in Int /\ faults \in Int
      /\ at \in LoopSteps /\ group \in {"member", "dropped"}
      /\ position \in [Partitions -> 0..MaxRecords] /\ committed \in [Partitions -> 0..MaxRecords]
  BY Bounds DEF HandInv, TypeOK
<1>b. InHand => record \in Records /\ record[1] \in Partitions
  BY DEF HandInv, Records
<1>c. Stale => InHand /\ position = committed
  BY DEF HandInv, Stale
<1> USE DEF LoopSteps, NextIteration, AfterFailure, groupVars
<1> DEFINE Counted == UNCHANGED <<crashes, stops, lapses, group>>
<1>g. /\ Unheeded \in {0, 1} /\ Absent \in {0, 1}
      /\ \A p \in Partitions : Later(p) \in {0, 1}
  BY DEF Unheeded, Absent, Later
<1>h. (\A p \in Partitions : Returns(p) \in Int) /\ (\A p \in Partitions : Returns(p) \in Int)'
  BY ReturnsAreNumbers, PTL
\* The counts of a step that keeps the record in hand ...
<1>d. ASSUME Counted, Unheeded' = Unheeded, Stale' <=> Stale, Stale => record' = record
      PROVE  NoFewerReturns
  <2>1. \A p \in Partitions : Later(p)' = Later(p)
    BY <1>d DEF Later
  <2>2. Absent' = Absent
    BY <1>d DEF Absent
  <2>3. ASSUME NEW p \in Partitions PROVE Returns(p)' = Returns(p)
    BY <1>d, <2>1, <2>2 DEF Returns
  <2> QED
    BY <1>h, <2>3 DEF NoFewerReturns
\* ... and of one that ends the iteration.
<1>e. ASSUME Counted, stop' = stop, InHand, at' = "iterate"
      PROVE  /\ NoFewerReturns
             /\ \A p \in Partitions : Stale /\ p = record[1] => Returns(p)' > Returns(p)
  <2>1. /\ \A p \in Partitions : Later(p)' = 0
        /\ \A p \in Partitions : Later(p) \in {0, 1}
        /\ Stale => Later(record[1]) = 1
    BY <1>e DEF Later, Stale, InHand
  <2>2. Absent' = Absent /\ Unheeded' = Unheeded
    BY <1>e DEF Absent, Unheeded, InHand
  <2>3. ASSUME NEW p \in Partitions PROVE Returns(p)' = Returns(p) + Later(p)
    BY <1>a, <1>e, <1>g, <2>1, <2>2 DEF Returns
  <2>4. NoFewerReturns
    BY <1>g, <1>h, <2>3 DEF NoFewerReturns
  <2>5. ASSUME Stale, NEW p \in Partitions, p = record[1] PROVE Returns(p)' > Returns(p)
    BY <1>h, <2>1, <2>3, <2>5
  <2> QED
    BY <2>4, <2>5
<1>f. ASSUME Stale, at' = "iterate", UNCHANGED <<position, committed>>
      PROVE  WorkedOff' = [p \in Partitions |-> IF p \in {record[1]} THEN committed[p] ELSE WorkedOff[p]]
  BY <1>0, <1>c, <1>f DEF CursorShape, InHand, WorkedOff
<1>1. ASSUME NEW p \in Partitions, Iterate(p) PROVE Stays
  <2>1. record'[1] = p /\ record'[2] = position[p] /\ position' = [position EXCEPT ![p] = @ + 1]
    BY <1>1 DEF Iterate
  <2>2. WorkedOff' = WorkedOff
    BY <1>1, <1>a, <2>1, Bounds DEF Iterate, WorkedOff
  <2>3. ~Stale /\ ~Stale'
    BY <1>1, <1>a, <2>1 DEF Iterate, Stale, InHand
  <2>4. NoFewerReturns
    BY <1>1, <1>d, <2>3 DEF Iterate, Unheeded
  <2> QED
    BY <1>1, <2>2, <2>4 DEF Iterate, Stays
<1>2. CASE BreakLoop \/ Crash
  <2>1. WorkedOff' = [p \in Partitions |-> IF p \in Partitions THEN committed[p] ELSE WorkedOff[p]]
    BY <1>2, <1>a DEF BreakLoop, Crash, WorkedOff
  <2>2. ASSUME NEW p \in Partitions PROVE Returns(p)' > Returns(p)
    <3>1. /\ Later(p)' = 0 /\ Later(p) \in {0, 1} /\ Absent' = Absent /\ Absent \in Int
          /\ Unheeded' = 0 /\ Unheeded \in {0, 1}
      BY <1>2 DEF BreakLoop, Crash, Later, Stale, InHand, Absent, Unheeded
    <3>2. CASE BreakLoop
      <4>1. Unheeded = 1
        BY <3>2 DEF BreakLoop, Unheeded
      <4>2. crashes' = crashes /\ stops' = stops /\ lapses' = lapses
        BY <3>2 DEF BreakLoop
      <4> QED
        BY <1>a, <3>1, <4>1, <4>2 DEF Returns
    <3>3. CASE Crash
      <4>1. crashes' = crashes + 1 /\ stops' = stops /\ lapses' = lapses
        BY <3>3 DEF Crash
      <4> QED
        BY <1>a, <3>1, <4>1 DEF Returns
    <3> QED
      BY <1>2, <3>2, <3>3
  <2>3. UNCHANGED <<produced, committed, channel, faults>>
    BY <1>2 DEF BreakLoop, Crash
  <2>4. NoFewerReturns
    BY <1>h, <2>2 DEF NoFewerReturns
  <2>5. GoesBack(Partitions)
    BY <2>1, <2>2, <2>3, <2>4 DEF GoesBack
  <2> QED
    BY <2>5
<1>3. CASE HandleMessage
  <2>1. WorkedOff' = WorkedOff
    BY <1>3 DEF HandleMessage, WorkedOff
  <2>2. NoFewerReturns
    BY <1>3, <1>d DEF HandleMessage, Unheeded, Stale, InHand
  <2> QED
    BY <1>3, <2>1, <2>2 DEF HandleMessage, Stays
<1>4. CASE HandleMessageRaises \/ PublishFails
  <2>1. /\ at \in {"check_stop", "publish"} /\ InHand /\ at' = "iterate"
        /\ UNCHANGED <<position, produced, committed, channel, stop, crashes, stops, lapses, group>>
        /\ (record \in Poison /\ faults' = faults) \/ faults' = faults + 1
    BY <1>4 DEF HandleMessageRaises, PublishFails, InHand
  <2>2. /\ NoFewerReturns
        /\ \A p \in Partitions : Stale /\ p = record[1] => Returns(p)' > Returns(p)
    BY <1>e, <2>1
  <2>3. CASE Stale
    <3>1. WorkedOff' = [p \in Partitions |-> IF p \in {record[1]} THEN committed[p] ELSE WorkedOff[p]]
      BY <1>f, <2>1, <2>3
    <3>2. \A p \in {record[1]} : Returns(p)' > Returns(p)
      BY <1>b, <2>1, <2>2, <2>3
    <3>3. GoesBack({record[1]})
      BY <2>1, <2>2, <3>1, <3>2 DEF GoesBack
    <3> QED
      BY <1>b, <2>1, <3>3
  <2>4. CASE ~Stale
    <3>1. WorkedOff' = position
      BY <1>0, <2>1 DEF CursorShape, InHand
    <3>2. Skips(record[1])
      BY <1>0, <2>1, <2>2, <2>4, <3>1 DEF CursorShape, Skips
    <3> QED
      BY <1>b, <2>1, <3>2
  <2> QED
    BY <2>3, <2>4
<1>5. CASE Publish
  <2>1. WorkedOff' = [WorkedOff EXCEPT ![record[1]] = @ + 1]
    BY <1>5, <1>a, <1>b DEF Publish, WorkedOff, InHand
  <2>2. NoFewerReturns
    BY <1>5, <1>d DEF Publish, Unheeded, Stale, InHand
  <2>3. Bridges(record[1])
    BY <1>0, <1>5, <2>1, <2>2 DEF Publish, Bridges, CursorShape
  <2> QED
    BY <1>b, <1>5, <2>3 DEF Publish, InHand
<1>6. CASE Commit \/ CommitRefused \/ CommitFails
  <2>1. /\ at = "commit" /\ InHand /\ at' = "iterate"
        /\ UNCHANGED <<position, produced, channel, stop, crashes, stops, lapses, group>>
        /\ committed' \in {committed, position} /\ faults' \in {faults, faults + 1}
    BY <1>6 DEF Commit, CommitRefused, CommitFails, InHand
  <2>2. /\ NoFewerReturns
        /\ \A p \in Partitions : Stale /\ p = record[1] => Returns(p)' > Returns(p)
    BY <1>e, <2>1
  <2>3. CASE Stale
    <3>1. committed' = committed
      BY <1>c, <2>1, <2>3
    <3>2. WorkedOff' = [p \in Partitions |-> IF p \in {record[1]} THEN committed[p] ELSE WorkedOff[p]]
      BY <1>f, <2>1, <2>3, <3>1
    <3>3. \A p \in {record[1]} : Returns(p)' > Returns(p)
      BY <1>b, <2>1, <2>2, <2>3
    <3>4. GoesBack({record[1]})
      BY <2>1, <2>2, <3>1, <3>2, <3>3 DEF GoesBack
    <3> QED
      BY <1>b, <2>1, <3>4
  <2>4. CASE ~Stale
    <3>1. WorkedOff' = position /\ WorkedOff = position
      BY <1>0, <2>1, <2>4 DEF CursorShape, InHand
    <3>2. Stays
      BY <2>1, <2>2, <3>1 DEF Stays
    <3> QED
      BY <3>2
  <2> QED
    BY <2>3, <2>4
<1>7. ASSUME NEW p \in Partitions, Produce(p) PROVE Stays
  <2>1. WorkedOff' = WorkedOff
    BY <1>7 DEF Produce, WorkedOff
  <2>2. NoFewerReturns
    BY <1>7, <1>d DEF Produce, Unheeded, Stale, InHand
  <2> QED
    BY <1>7, <2>1, <2>2 DEF Produce, Stays
<1>8. CASE Signal
  <2>1. WorkedOff' = WorkedOff
    BY <1>8 DEF Signal, WorkedOff
  <2>2. /\ Unheeded = 0 /\ Unheeded' = 1 /\ Absent' = Absent /\ Absent \in Int
        /\ \A p \in Partitions : Later(p)' = Later(p) /\ Later(p) \in Int
        /\ crashes' = crashes /\ stops' = stops + 1 /\ lapses' = lapses
    BY <1>8 DEF Signal, Unheeded, Absent, Later, Stale, InHand
  <2>3. NoFewerReturns
    BY <1>a, <2>2 DEF NoFewerReturns, Returns
  <2> QED
    BY <1>8, <2>1, <2>3 DEF Signal, Stays
<1>9. CASE Start
  <2>1. position' = committed
    BY <1>a, <1>9 DEF Start, Join, StartPosition
  <2>2. WorkedOff' = WorkedOff
    BY <1>0, <1>9, <2>1 DEF Start, CursorShape, InHand
  <2>3. /\ Unheeded = 0 /\ Unheeded' = 0 /\ Absent' = 0 /\ Absent \in {0, 1}
        /\ \A p \in Partitions : Later(p)' = 0 /\ Later(p) = 0
        /\ crashes' = crashes /\ stops' = stops /\ lapses' = lapses
    BY <1>9 DEF Start, Join, Unheeded, Absent, Later, Stale, InHand
  <2>4. NoFewerReturns
    BY <1>a, <2>3 DEF NoFewerReturns, Returns
  <2> QED
    BY <1>9, <2>2, <2>4 DEF Start, Join, Stays
<1>10. CASE Lapse
  <2>1. WorkedOff' = WorkedOff
    BY <1>10 DEF Lapse, WorkedOff
  <2>2. /\ Unheeded' = Unheeded /\ Unheeded \in Int /\ Absent' = 1 /\ Absent = 0
        /\ \A p \in Partitions : Later(p)' = Later(p) /\ Later(p) \in Int
        /\ crashes' = crashes /\ stops' = stops /\ lapses' = lapses + 1
    BY <1>10 DEF Lapse, Unheeded, Absent, Later, Stale, InHand
  <2>3. NoFewerReturns
    BY <1>a, <2>2 DEF NoFewerReturns, Returns
  <2> QED
    BY <1>10, <2>1, <2>3 DEF Lapse, Stays
<1>11. CASE Rejoin
  <2>1. position' = committed
    BY <1>a, <1>11 DEF Rejoin, Join, StartPosition
  <2> DEFINE S == IF InHand THEN Partitions \ {record[1]} ELSE Partitions
  <2>2. WorkedOff' = [p \in Partitions |-> IF p \in S THEN committed[p] ELSE WorkedOff[p]]
    BY <1>11, <1>a, <2>1 DEF Rejoin, WorkedOff, InHand
  <2>3. /\ Unheeded' = Unheeded /\ Unheeded \in Int /\ Absent' = 0 /\ Absent = 1
        /\ crashes' = crashes /\ stops' = stops /\ lapses' = lapses
        /\ \A p \in Partitions : Later(p)' \in {0, 1} /\ Later(p) \in {0, 1}
    BY <1>11 DEF Rejoin, Join, Unheeded, Absent, Later
  <2>4. ASSUME NEW p \in S PROVE Later(p)' = 0 /\ Later(p) = 0
    BY <1>11, <2>4 DEF Rejoin, Join, Later, Stale, InHand
  <2>5. ASSUME NEW p \in Partitions
        PROVE  Returns(p)' = Returns(p) + 1 + Later(p) - Later(p)' /\ Returns(p) \in Int
    BY <1>a, <2>3 DEF Returns
  <2>6. ASSUME NEW p \in Partitions
        PROVE  Returns(p)' >= Returns(p) /\ (p \in S => Returns(p)' > Returns(p))
    BY <2>3, <2>4, <2>5
  <2>7. GoesBack(S)
    BY <1>11, <2>2, <2>6 DEF Rejoin, Join, GoesBack, NoFewerReturns
  <2> QED
    BY <2>7
<1>12. CASE UNCHANGED vars
  <2>1. WorkedOff' = WorkedOff
    BY <1>12 DEF vars, WorkedOff
  <2>2. NoFewerReturns
    BY <1>12, <1>d DEF vars, Unheeded, Stale, InHand
  <2> QED
    BY <1>12, <2>1, <2>2 DEF vars, Stays
<1> QED
  BY <1>1, <1>2, <1>3, <1>4, <1>5, <1>6, <1>7, <1>8, <1>9, <1>10, <1>11, <1>12
  DEF Next, Loop

-----------------------------------------------------------------------------
\* An empty topic with nothing kept is a channel nobody has worked on.
LEMMA ChannelInit == Init => Channel!ChannelInit
BY DEF Init, Channel!ChannelInit, Channel!Nowhere, WorkedOff

\* Every step of the worker is a step of the channel or leaves it as it is.
LEMMA ChannelStep ==
  HandInv /\ HandInv' /\ [Next]_vars => [Channel!ChannelNext]_(Channel!channelVars)
<1> SUFFICES ASSUME HandInv, HandInv', [Next]_vars
             PROVE  [Channel!ChannelNext]_(Channel!channelVars)
  OBVIOUS
<1>0. CursorShape /\ CursorShape'
  BY CursorHasShape, PTL
<1>x. \A p \in Partitions : WorkedOff[p] \in Int /\ produced[p] \in Int
  BY <1>0, Bounds DEF CursorShape, HandInv, TypeOK
<1>1. ASSUME NEW p \in Partitions, Bridges(p) PROVE Channel!Bridge(p)
  <2>1. WorkedOff'[p] <= produced'[p] /\ WorkedOff'[p] = WorkedOff[p] + 1 /\ produced' = produced
    BY <1>0, <1>1 DEF Bridges, CursorShape
  <2>2. WorkedOff[p] < produced[p]
    BY <1>x, <2>1
  <2> QED
    BY <1>1, <2>2 DEF Bridges, Channel!Bridge, Channel!Advance
<1>2. ASSUME NEW p \in Partitions, Skips(p) PROVE Channel!Skip(p)
  <2>1. WorkedOff'[p] <= produced'[p] /\ WorkedOff'[p] = WorkedOff[p] + 1 /\ produced' = produced
    BY <1>0, <1>2 DEF Skips, CursorShape
  <2>2. WorkedOff[p] < produced[p]
    BY <1>x, <2>1
  <2> QED
    BY <1>2, <2>2 DEF Skips, Channel!Skip, Channel!Advance
<1>3. ASSUME NEW S \in SUBSET Partitions, GoesBack(S) PROVE Channel!Restart(S)
  BY <1>3 DEF GoesBack, Channel!Restart
<1>4. Stays => \/ \E p \in Partitions : Channel!Produce(p)
               \/ Channel!Keep \/ UNCHANGED Channel!channelVars
  BY DEF Stays, Channel!Produce, Channel!Keep, Channel!channelVars
<1> QED
  BY <1>1, <1>2, <1>3, <1>4, CursorMoves DEF Channel!ChannelNext

\* The worker keeps the promise StatusChannel makes: no commit runs ahead of the
\* publications, no failure takes a second record with it, and only a restart or a rejoin
\* goes back.
THEOREM WorkerIsAChannel == Spec => ImplementsChannel
BY HandInvInit, HandInvNext, ChannelInit, ChannelStep, PTL
DEF Spec, ImplementsChannel, Channel!ChannelSpec

-----------------------------------------------------------------------------
(* What is lost, and what is bridged again. *)

\* There are only so many records.
LEMMA RecordsAreFinite == IsFiniteSet(Records) /\ IsFiniteSet(Poison)
<1>1. IsFiniteSet(Offsets)
  BY Bounds, FS_Interval DEF Offsets
<1>2. IsFiniteSet(Records)
  BY <1>1, PartitionsAssumption, FS_Product DEF Records
<1> QED
  BY <1>2, PoisonAssumption, FS_Subset

\* Nothing is worked off at first.
LEMMA LossInvInit == Init => LossInv
<1> SUFFICES ASSUME Init PROVE LossInv
  OBVIOUS
<1>1. Dropped = {}
  BY DEF Init, Dropped, WorkedOff, Records, Offsets
<1> QED
  BY <1>1, FS_EmptySet DEF Init, LossInv

\* A readable record is dropped only at the price of a failure, and one at a time.
LEMMA LossInvNext == HandInv /\ HandInv' /\ LossInv /\ [Next]_vars => LossInv'
<1> SUFFICES ASSUME HandInv, HandInv', LossInv, [Next]_vars PROVE LossInv'
  OBVIOUS
<1>0. /\ \A p \in Partitions : WorkedOff[p] \in Nat /\ committed[p] \in Nat
      /\ WorkedOff \in [Partitions -> 0..MaxRecords]
      /\ channel \in Seq(Records) /\ faults \in Nat
  BY Types
<1>b. Cardinality(Dropped) \in Nat
  BY FS_CardinalityType DEF LossInv
<1>c. \A r \in Records : r[1] \in Partitions /\ r[2] \in Int /\ r = <<r[1], r[2]>>
  BY Types
<1>a. channel' = channel => Bridged' = Bridged
  BY DEF Bridged
<1> USE DEF LossInv
<1>1. ASSUME NEW p \in Partitions, Bridges(p) PROVE LossInv'
  <2>1. Bridged \cup {<<p, WorkedOff[p]>>} \subseteq Bridged'
    <3>1. /\ DOMAIN channel \subseteq DOMAIN channel' /\ Len(channel) + 1 \in DOMAIN channel'
          /\ \A i \in DOMAIN channel : channel'[i] = channel[i]
          /\ channel'[Len(channel) + 1] = <<p, WorkedOff[p]>>
      BY <1>0, <1>1 DEF Bridges
    <3> QED
      BY <3>1 DEF Bridged
  <2>2. ASSUME NEW r \in Dropped' PROVE r \in Dropped
    BY <1>0, <1>c, <1>1, <2>1 DEF Bridges, Dropped
  <2> QED
    BY <1>0, <1>b, <1>1, <2>2, FS_Subset, FS_CardinalityType DEF Bridges
<1>2. ASSUME NEW p \in Partitions, Skips(p) PROVE LossInv'
  <2> DEFINE s == <<p, WorkedOff[p]>>
  <2>1. /\ Dropped' \subseteq Dropped \cup {s}
        /\ s \in Poison => Dropped' \subseteq Dropped
    <3>1. ASSUME NEW r \in Dropped' PROVE r \in Dropped \/ (r = s /\ s \notin Poison)
      <4>1. /\ WorkedOff'[p] = WorkedOff[p] + 1
            /\ \A q \in Partitions : q # p => WorkedOff'[q] = WorkedOff[q]
        BY <1>0, <1>2 DEF Skips
      <4>2. r \in Records \ Poison /\ r[2] < WorkedOff'[r[1]] /\ r \notin Bridged
        BY <1>2, <1>a, <3>1 DEF Skips, Dropped
      <4>3. CASE r[2] < WorkedOff[r[1]]
        BY <4>2, <4>3 DEF Dropped
      <4>4. CASE r[1] = p /\ r[2] = WorkedOff[p]
        BY <1>c, <4>2, <4>4
      <4> QED
        BY <1>0, <1>c, <4>1, <4>2, <4>3, <4>4
    <3> QED
      BY <3>1
  <2>2. /\ IsFiniteSet(Dropped \cup {s})
        /\ Cardinality(Dropped \cup {s}) <= Cardinality(Dropped) + 1
    <3> HIDE DEF s
    <3>1. IsFiniteSet(Dropped)
      BY DEF LossInv
    <3>2. /\ IsFiniteSet(Dropped \cup {s})
          /\ Cardinality(Dropped \cup {s}) =
               IF s \in Dropped THEN Cardinality(Dropped) ELSE Cardinality(Dropped) + 1
      BY <3>1, FS_AddElement
    <3> QED
      BY <1>b, <3>2
  <2>3. CASE s \in Poison /\ faults' = faults
    BY <1>0, <1>b, <2>1, <2>3, FS_Subset, FS_CardinalityType
  <2>4. CASE faults' = faults + 1
    BY <1>0, <1>b, <2>1, <2>2, <2>4, FS_Subset, FS_CardinalityType
  <2> QED
    BY <1>2, <2>3, <2>4 DEF Skips
<1>3. ASSUME NEW S \in SUBSET Partitions, GoesBack(S) PROVE LossInv'
  <2>1. Dropped' \subseteq Dropped
    <3>1. ASSUME NEW r \in Dropped' PROVE r \in Dropped
      BY <1>0, <1>c, <1>3, <1>a, CursorHasShape DEF GoesBack, Dropped, CursorShape
    <3> QED
      BY <3>1
  <2>2. IsFiniteSet(Dropped) /\ IsFiniteSet(Dropped')
        /\ Cardinality(Dropped') <= Cardinality(Dropped)
    BY <2>1, FS_Subset
  <2>3. Cardinality(Dropped') \in Nat
    BY <2>2, FS_CardinalityType
  <2>4. faults' \in {faults, faults + 1}
    BY <1>3 DEF GoesBack
  <2> QED
    <3>1. Cardinality(Dropped) <= faults /\ faults \in Nat
      BY <1>0
    <3> QED
      BY <3>1, <1>b, <2>2, <2>3, <2>4
<1>4. CASE Stays
  <2>1. Dropped' = Dropped
    BY <1>4, <1>a DEF Stays, Dropped
  <2>2. faults' \in {faults, faults + 1}
    BY <1>4 DEF Stays
  <2> QED
    BY <1>0, <1>b, <2>1, <2>2
<1> QED
  BY <1>1, <1>2, <1>3, <1>4, CursorMoves

\* What is lost is what failed: beyond the unreadable records, no more of the committed
\* records are missing from the channel than calls of Redis or the broker failed.
THEOREM LossIsBounded == Spec => []LossesAreExplained
<1>1. HandInv /\ LossInv => LossesAreExplained
  <2> SUFFICES ASSUME HandInv, LossInv PROVE LossesAreExplained
    OBVIOUS
  <2> DEFINE Lost == {r \in Records : r[2] < committed[r[1]] /\ r \notin Bridged}
  <2>1. Lost \subseteq Dropped \cup Poison
    BY CursorHasShape, Bounds
    DEF HandInv, TypeOK, CursorShape, Dropped, Records, Offsets
  <2>2. IsFiniteSet(Dropped \cup Poison)
        /\ Cardinality(Dropped \cup Poison) <= Cardinality(Dropped) + Cardinality(Poison)
    <3>1. IsFiniteSet(Dropped \cap Poison) /\ IsFiniteSet(Dropped) /\ IsFiniteSet(Poison)
      BY RecordsAreFinite, FS_Intersection DEF LossInv
    <3>2. /\ Cardinality(Dropped \cap Poison) \in Nat
          /\ Cardinality(Dropped) \in Nat /\ Cardinality(Poison) \in Nat
      BY <3>1, FS_CardinalityType
    <3>3. /\ IsFiniteSet(Dropped \cup Poison)
          /\ Cardinality(Dropped \cup Poison) =
               Cardinality(Dropped) + Cardinality(Poison) - Cardinality(Dropped \cap Poison)
      BY <3>1, FS_Union
    <3> QED
      BY <3>2, <3>3
  <2>3. Cardinality(Lost) <= Cardinality(Dropped \cup Poison)
    BY <2>1, <2>2, FS_Subset
  <2>4. /\ Cardinality(Lost) \in Int /\ Cardinality(Dropped) \in Int
        /\ Cardinality(Poison) \in Int /\ faults \in Int
    BY <2>1, <2>2, RecordsAreFinite, FS_Subset, FS_CardinalityType, Bounds
    DEF LossInv, HandInv, TypeOK
  <2>5. Cardinality(Dropped \cup Poison) \in Int
    BY <2>2, FS_CardinalityType
  <2> QED
    BY <2>2, <2>3, <2>4, <2>5 DEF LossInv, LossesAreExplained
<1> QED
  BY <1>1, HandInvInit, HandInvNext, LossInvInit, LossInvNext, PTL DEF Spec

\* When every record is readable and no call fails, the committed offset never passes a
\* record that is not on the channel, through crashes and shutdowns: a lost publication
\* takes a failure that the loop only logs.
THEOREM CalmWorkerLosesNothing ==
  ASSUME MaxFaults = 0, Poison = {}
  PROVE  Spec => []CommittedIsBridged
<1>1. HandInv /\ LossInv => CommittedIsBridged
  <2> SUFFICES ASSUME HandInv, LossInv PROVE CommittedIsBridged
    OBVIOUS
  <2>1. Dropped = {}
    <3>1. faults = 0 /\ Cardinality(Dropped) \in Nat
      BY FS_CardinalityType DEF HandInv, TypeOK, LossInv
    <3> QED
      BY <3>1, FS_EmptySet DEF LossInv
  <2>2. ASSUME NEW p \in Partitions, NEW o \in Offsets, o < committed[p]
        PROVE  <<p, o>> \in Bridged
    <3>1. <<p, o>> \in Records /\ o < WorkedOff[p]
      BY <2>2, Types, CursorHasShape, Bounds DEF CursorShape, Records, Offsets
    <3> QED
      BY <2>1, <3>1 DEF Dropped
  <2> QED
    BY <2>2 DEF CommittedIsBridged
<1> QED
  BY <1>1, HandInvInit, HandInvNext, LossInvInit, LossInvNext, PTL DEF Spec

-----------------------------------------------------------------------------
\* A count is a number.
LEMMA ReplaysType ==
  ASSUME channel \in Seq(Records), NEW r \in Records
  PROVE  Replays(r) \in Nat
<1>1. DOMAIN channel = 1..Len(channel) /\ Len(channel) \in Int
  OBVIOUS
<1>2. IsFiniteSet(1..Len(channel))
  BY <1>1, FS_Interval
<1>3. {i \in DOMAIN channel : channel[i] = r} \subseteq 1..Len(channel)
  BY <1>1
<1> QED
  BY <1>2, <1>3, FS_Subset, FS_CardinalityType DEF Replays

\* A publication adds one to the count of its record, and of no other.
LEMMA ReplaysOfAppend ==
  ASSUME channel \in Seq(Records), NEW s \in Records, channel' = Append(channel, s),
         NEW r \in Records
  PROVE  /\ Replays(r) \in Nat
         /\ Replays(r)' = Replays(r) + (IF r = s THEN 1 ELSE 0)
<1> DEFINE Of == {i \in DOMAIN channel : channel[i] = r}
           n == Len(channel) + 1
<1>1. DOMAIN channel = 1..Len(channel) /\ Len(channel) \in Nat
  OBVIOUS
<1>2. IsFiniteSet(Of) /\ Cardinality(Of) \in Nat
  <2>1. IsFiniteSet(1..Len(channel)) /\ Of \subseteq 1..Len(channel)
    BY <1>1, FS_Interval
  <2> QED
    BY <2>1, FS_Subset, FS_CardinalityType
<1>3. /\ DOMAIN channel' = DOMAIN channel \cup {n} /\ n \notin DOMAIN channel
      /\ \A i \in DOMAIN channel : channel'[i] = channel[i]
      /\ channel'[n] = s
  BY <1>1
<1>4. Of' = IF r = s THEN Of \cup {n} ELSE Of
  BY <1>3
<1>5. n \notin Of
  BY <1>3
<1> HIDE DEF Of, n
<1>6. Cardinality(Of \cup {n}) = Cardinality(Of) + 1
  BY <1>2, <1>5, FS_AddElement
<1>7. Cardinality(Of') = Cardinality(Of) + (IF r = s THEN 1 ELSE 0)
  BY <1>2, <1>4, <1>6
<1> QED
  BY <1>2, <1>7 DEF Replays, Of

\* Nothing is bridged at first.
LEMMA ReplayInvInit == Init => ReplayInv
<1> SUFFICES ASSUME Init PROVE ReplayInv
  OBVIOUS
<1>1. \A r \in Records : Replays(r) = 0
  <2> TAKE r \in Records
  <2>1. {i \in DOMAIN channel : channel[i] = r} = {}
    BY DEF Init
  <2> QED
    BY <2>1, FS_EmptySet DEF Replays
<1>2. ASSUME NEW p \in Partitions PROVE Returns(p) = 0
  <2>1. crashes = 0 /\ stops = 0 /\ lapses = 0 /\ Absent = 0 /\ Later(p) = 0
    BY DEF Init, Absent, Later, Stale, InHand
  <2>2. Unheeded = 0
    BY ZenonT(20) DEF Init, Unheeded
  <2> QED
    BY <2>1, <2>2 DEF Returns
<1>3. \A r \in Records : r[1] \in Partitions
  BY DEF Records
<1> QED
  BY <1>1, <1>2, <1>3 DEF ReplayInv

\* The loop bridges a record it has not worked off since its partition last went back, and
\* goes back only by going down or by joining its group again.
LEMMA ReplayInvNext ==
  HandInv /\ HandInv' /\ ReplayInv /\ [Next]_vars => ReplayInv'
<1> SUFFICES ASSUME HandInv, HandInv', ReplayInv, [Next]_vars, NEW r \in Records
             PROVE  Replays(r)' <= (IF r[2] < WorkedOff'[r[1]] THEN 1 ELSE 0) + Returns(r[1])'
  BY DEF ReplayInv
<1>0. /\ \A p \in Partitions : WorkedOff[p] \in Nat /\ committed[p] \in Nat
      /\ WorkedOff \in [Partitions -> 0..MaxRecords]
      /\ channel \in Seq(Records)
      /\ r[1] \in Partitions /\ r[2] \in Int /\ r = <<r[1], r[2]>>
  BY Types
<1>a. Returns(r[1]) \in Int /\ Returns(r[1])' \in Int
  <2>1. (\A p \in Partitions : Returns(p) \in Int) /\ (\A p \in Partitions : Returns(p) \in Int)'
    BY ReturnsAreNumbers, PTL
  <2> QED
    BY <1>0, <2>1
<1>b. Replays(r) <= (IF r[2] < WorkedOff[r[1]] THEN 1 ELSE 0) + Returns(r[1])
  BY DEF ReplayInv
<1>c. /\ Replays(r) \in Nat
      /\ channel' = channel => Replays(r)' = Replays(r)
  BY <1>0, ReplaysType DEF Replays
<1>1. ASSUME NEW p \in Partitions, Bridges(p)
      PROVE  Replays(r)' <= (IF r[2] < WorkedOff'[r[1]] THEN 1 ELSE 0) + Returns(r[1])'
  <2> DEFINE s == <<p, WorkedOff[p]>>
  <2>1. WorkedOff'[p] = WorkedOff[p] + 1 /\ (\A q \in Partitions \ {p} : WorkedOff'[q] = WorkedOff[q])
        /\ channel' = Append(channel, s) /\ Returns(r[1])' >= Returns(r[1])
    BY <1>0, <1>1 DEF Bridges, NoFewerReturns
  <2>2. s \in Records
    <3>1. CursorShape'
      BY CursorHasShape, PTL
    <3>2. WorkedOff[p] + 1 <= MaxRecords
      BY <1>0, <2>1, <3>1, Bounds DEF CursorShape
    <3> QED
      BY <1>0, <3>2, Bounds DEF Records, Offsets
  <2>3. Replays(r)' = Replays(r) + (IF r = s THEN 1 ELSE 0)
    BY <1>0, <2>1, <2>2, ReplaysOfAppend
  <2>4. CASE r = s
    BY <1>0, <1>a, <1>b, <1>c, <2>1, <2>3, <2>4
  <2>5. CASE r # s
    BY <1>0, <1>a, <1>b, <1>c, <2>1, <2>3, <2>5
  <2> QED
    BY <2>4, <2>5
<1>2. ASSUME NEW p \in Partitions, Skips(p)
      PROVE  Replays(r)' <= (IF r[2] < WorkedOff'[r[1]] THEN 1 ELSE 0) + Returns(r[1])'
  <2>1. WorkedOff'[p] = WorkedOff[p] + 1 /\ (\A q \in Partitions \ {p} : WorkedOff'[q] = WorkedOff[q])
        /\ channel' = channel /\ Returns(r[1])' >= Returns(r[1])
    BY <1>0, <1>2 DEF Skips, NoFewerReturns
  <2> QED
    BY <1>0, <1>a, <1>b, <1>c, <2>1
<1>3. ASSUME NEW S \in SUBSET Partitions, GoesBack(S)
      PROVE  Replays(r)' <= (IF r[2] < WorkedOff'[r[1]] THEN 1 ELSE 0) + Returns(r[1])'
  <2>1. Replays(r)' = Replays(r) /\ Returns(r[1])' >= Returns(r[1])
        /\ \/ Returns(r[1])' > Returns(r[1])
           \/ WorkedOff'[r[1]] = WorkedOff[r[1]]
    BY <1>0, <1>c, <1>3 DEF GoesBack, NoFewerReturns
  <2> QED
    BY <1>a, <1>b, <1>c, <2>1
<1>4. CASE Stays
  BY <1>0, <1>a, <1>b, <1>c, <1>4 DEF Stays, NoFewerReturns
<1> QED
  BY <1>1, <1>2, <1>3, <1>4, CursorMoves

\* A record is bridged again only because the worker went down or its consumer was dropped
\* from the group: however often publications fail, or commits do in a consumer that is a
\* member, each record is on the channel at most once more than there were crashes, signals
\* and lost memberships, also when the loop handles one to its end that it will read again.
THEOREM ReplayIsBounded == Spec => []ReplaysAreExplained
<1>1. HandInv /\ ReplayInv => ReplaysAreExplained
  <2> SUFFICES ASSUME HandInv, ReplayInv, NEW r \in Records
               PROVE  Replays(r) <= 1 + crashes + stops + lapses
    BY DEF ReplaysAreExplained
  <2>1. crashes \in Nat /\ stops \in Nat /\ lapses \in Nat
    BY Bounds DEF HandInv, TypeOK
  <2>2. Replays(r) \in Nat
    BY Types, ReplaysType
  <2> QED
    BY <2>1, <2>2 DEF ReplayInv, Returns, Unheeded, Absent, Later
<1> QED
  BY <1>1, HandInvInit, HandInvNext, ReplayInvInit, ReplayInvNext, PTL DEF Spec
=============================================================================
