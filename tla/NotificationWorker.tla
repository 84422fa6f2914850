------------------------ MODULE NotificationWorker ------------------------
(***************************************************************************)
(* The notification worker: one consumer that copies the records of the    *)
(* topic loan.status.changed.v1 to Redis Pub/Sub.                          *)
(*                                                                         *)
(* The consumer keeps two positions per partition: the one in memory, from *)
(* which the iterator takes the next record and which moves as soon as it  *)
(* does, and the offset committed at the broker, from which a restarted    *)
(* worker goes on.  commit() without arguments stores the in-memory        *)
(* position of every assigned partition.                                   *)
(*                                                                         *)
(* The broker may drop the consumer from its group: its session expires,   *)
(* or the group is rebalanced.  Its commits are refused from then on (the  *)
(* other errors of a commit aiokafka retries by itself, or it raises them  *)
(* and keeps the positions).  A task of aiokafka joins the group again     *)
(* behind the back of the loop, and the in-memory positions are then the   *)
(* committed offsets.  A record the loop has in hand meanwhile is handled  *)
(* to its end, and comes once more.                                        *)
(***************************************************************************)
EXTENDS Integers, Sequences, FiniteSets

CONSTANTS
  Partitions,   \* partitions of the topic
  MaxRecords,   \* records appended to each partition
  Poison,       \* <<partition, offset>> of records handle_message rejects
  NoRecord,
  MaxFaults,    \* failing Redis publications and offset commits per behaviour
  MaxCrashes,   \* crashes of the worker
  MaxStops,     \* SIGTERMs
  MaxLapses     \* times the consumer is dropped from its group

Offsets == 0..(MaxRecords - 1)
Records == Partitions \X Offsets

ASSUME PartitionsAssumption == IsFiniteSet(Partitions)
ASSUME PoisonAssumption == Poison \subseteq Records
ASSUME NoRecordAssumption == NoRecord \notin Records
ASSUME BoundsAssumption == {MaxRecords, MaxFaults, MaxCrashes, MaxStops, MaxLapses} \subseteq Nat

VARIABLES
  produced,   \* records in each partition
  position,   \* the consumer's in-memory position
  committed,  \* the group's offset at the broker
  at,         \* where the loop is
  record,     \* the record being handled
  stop,       \* the asyncio.Event the signal handler sets
  channel,    \* what was published on Redis, in order
  group,      \* what the consumer is to its group: "member", or "dropped"
  faults, crashes, stops, lapses

vars == <<produced, position, committed, at, record, stop, channel, group,
          faults, crashes, stops, lapses>>

groupVars == <<group, lapses>>

LoopSteps == {"iterate", "check_stop", "publish", "commit", "down"}

TypeOK ==
  /\ produced \in [Partitions -> 0..MaxRecords]
  /\ position \in [Partitions -> 0..MaxRecords]
  /\ committed \in [Partitions -> 0..MaxRecords]
  /\ at \in LoopSteps
  /\ record \in Records \cup {NoRecord}
  /\ stop \in BOOLEAN
  /\ channel \in Seq(Records)
  /\ group \in {"member", "dropped"}
  /\ faults \in 0..MaxFaults /\ crashes \in 0..MaxCrashes /\ stops \in 0..MaxStops
  /\ lapses \in 0..MaxLapses

Init ==
  /\ produced = [p \in Partitions |-> 0]
  /\ position = [p \in Partitions |-> 0]
  /\ committed = [p \in Partitions |-> 0]
  /\ at = "iterate"
  /\ record = NoRecord
  /\ stop = FALSE
  /\ channel = <<>>
  /\ group = "member"
  /\ faults = 0 /\ crashes = 0 /\ stops = 0 /\ lapses = 0

-----------------------------------------------------------------------------
Bridged == {channel[i] : i \in DOMAIN channel}

\* The loop body ends.
NextIteration == at' = "iterate" /\ record' = NoRecord

\* Faulty: the consumer goes on from the end of the topic.
AfterFailure_SkipsAll == NextIteration /\ position' = produced

\* Faulty: the consumer goes back to the committed offsets.
AfterFailure_Rewinds == NextIteration /\ position' = committed

\* A failure that ended the loop body is only logged.
AfterFailure == NextIteration /\ UNCHANGED position

\* The outbox worker appends a status event.
Produce(p) ==
  /\ produced[p] < MaxRecords
  /\ produced' = [produced EXCEPT ![p] = @ + 1]
  /\ UNCHANGED <<position, committed, at, record, stop, channel, faults, crashes, stops, groupVars>>

\* async for record in consumer: any partition with an unread record.
Iterate(p) ==
  /\ at = "iterate"
  /\ position[p] < produced[p]
  /\ record' = <<p, position[p]>>
  /\ position' = [position EXCEPT ![p] = @ + 1]
  /\ at' = "check_stop"
  /\ UNCHANGED <<produced, committed, stop, channel, faults, crashes, stops, groupVars>>

\* Faulty: a record that has come is handled all the same.
BreakLoop_NextPoll ==
  /\ at = "check_stop"
  /\ stop
  /\ at' = "publish"
  /\ UNCHANGED <<produced, position, committed, record, stop, channel, faults, crashes, stops, groupVars>>

\* The stop event is looked at once a record has come; the finally block then
\* closes the consumer, which leaves its group without committing.
BreakLoop ==
  /\ at = "check_stop"
  /\ stop
  /\ at' = "down"
  /\ record' = NoRecord
  /\ UNCHANGED <<produced, position, committed, stop, channel, faults, crashes, stops, groupVars>>

\* Faulty: the offset is committed before the record is published.
HandleMessage_CommitsFirst ==
  /\ at = "check_stop"
  /\ ~stop
  /\ record \notin Poison
  /\ at' = "publish"
  /\ committed' = position
  /\ UNCHANGED <<produced, position, record, stop, channel, faults, crashes, stops, groupVars>>

\* handle_message parses and validates the record.
HandleMessage ==
  /\ at = "check_stop"
  /\ ~stop
  /\ record \notin Poison
  /\ at' = "publish"
  /\ UNCHANGED <<produced, position, committed, record, stop, channel, faults, crashes, stops, groupVars>>

\* Faulty: the exception leaves the loop.
HandleMessageRaises_Fatal ==
  /\ at = "check_stop"
  /\ ~stop
  /\ record \in Poison
  /\ at' = "down"
  /\ record' = NoRecord
  /\ UNCHANGED <<produced, position, committed, stop, channel, faults, crashes, stops, groupVars>>

HandleMessageRaises ==
  /\ at = "check_stop"
  /\ ~stop
  /\ record \in Poison
  /\ AfterFailure
  /\ UNCHANGED <<produced, committed, stop, channel, faults, crashes, stops, groupVars>>

Publish ==
  /\ at = "publish"
  /\ channel' = Append(channel, record)
  /\ at' = "commit"
  /\ UNCHANGED <<produced, position, committed, record, stop, faults, crashes, stops, groupVars>>

\* Redis is unreachable.
PublishFails ==
  /\ faults < MaxFaults
  /\ at = "publish"
  /\ AfterFailure
  /\ faults' = faults + 1
  /\ UNCHANGED <<produced, committed, stop, channel, crashes, stops, groupVars>>

\* consumer.commit(): every partition, at its in-memory position.
Commit ==
  /\ at = "commit"
  /\ group = "member"
  /\ committed' = position
  /\ NextIteration
  /\ UNCHANGED <<produced, position, stop, channel, faults, crashes, stops, groupVars>>

\* CommitFailedError: the consumer was dropped from its group.
CommitRefused ==
  /\ at = "commit"
  /\ group = "dropped"
  /\ AfterFailure
  /\ UNCHANGED <<produced, committed, stop, channel, group, faults, crashes, stops, lapses>>

\* Any other error that is not retried.
CommitFails ==
  /\ faults < MaxFaults
  /\ at = "commit"
  /\ AfterFailure
  /\ faults' = faults + 1
  /\ UNCHANGED <<produced, committed, stop, channel, crashes, stops, groupVars>>

\* SIGTERM or SIGINT: the handler only sets the event.
Signal ==
  /\ stops < MaxStops
  /\ at # "down"
  /\ ~stop
  /\ stop' = TRUE
  /\ stops' = stops + 1
  /\ UNCHANGED <<produced, position, committed, at, record, channel, faults, crashes, groupVars>>

Crash ==
  /\ crashes < MaxCrashes
  /\ at # "down"
  /\ at' = "down"
  /\ record' = NoRecord
  /\ crashes' = crashes + 1
  /\ UNCHANGED <<produced, position, committed, stop, channel, faults, stops, groupVars>>

\* Faulty: the committed offset is taken for the last record handled.
StartPosition_OffByOne(p) == committed[p] + 1

\* The committed offset; auto_offset_reset="earliest": 0 when there is none yet.
StartPosition(p) == committed[p]

Join ==
  /\ group' = "member"
  /\ position' = [p \in Partitions |-> StartPosition(p)]

\* A new process joins the group.
Start ==
  /\ at = "down"
  /\ at' = "iterate"
  /\ Join
  /\ stop' = FALSE
  /\ UNCHANGED <<produced, committed, record, channel, faults, crashes, stops, lapses>>

\* The broker drops the consumer from its group, which goes on fetching at first.
Lapse ==
  /\ lapses < MaxLapses
  /\ at # "down"
  /\ group = "member"
  /\ group' = "dropped"
  /\ lapses' = lapses + 1
  /\ UNCHANGED <<produced, position, committed, at, record, stop, channel, faults, crashes, stops>>

\* aiokafka joins again, wherever the loop is.
Rejoin ==
  /\ at # "down"
  /\ group = "dropped"
  /\ Join
  /\ UNCHANGED <<produced, committed, at, record, stop, channel, faults, crashes, stops, lapses>>

Loop ==
  \/ \E p \in Partitions : Iterate(p)
  \/ BreakLoop \/ HandleMessage \/ HandleMessageRaises \/ Publish
  \/ Commit \/ CommitRefused

Next ==
  \/ Loop
  \/ \E p \in Partitions : Produce(p)
  \/ PublishFails \/ CommitFails \/ Signal \/ Crash \/ Start \/ Lapse \/ Rejoin

\* The process runs, and the operator starts it again when it has gone down.  A consumer
\* that is dropped need not join again for its records to be bridged.
Fairness == WF_vars(Loop) /\ WF_vars(Start)

Spec == Init /\ [][Next]_vars
FairSpec == Spec /\ Fairness

-----------------------------------------------------------------------------
(***************************************************************************)
(* Properties.                                                             *)
(***************************************************************************)

\* The committed offset never passes a record that was not published: a worker
\* that goes down at any point comes back to what it has not bridged.
CommittedIsBridged ==
  \A p \in Partitions : \A o \in Offsets : o < committed[p] => <<p, o>> \in Bridged

\* A record is bridged again only because the worker went down or its consumer was
\* dropped from the group, each of which brings it back once: a failing publication, or
\* a commit that fails while the consumer is a member, brings nothing back.
Replays(r) == Cardinality({i \in DOMAIN channel : channel[i] = r})
ReplaysAreExplained == \A r \in Records : Replays(r) <= 1 + crashes + stops + lapses

\* What is lost is what failed: each failing publication or unreadable record costs
\* at most itself, and no record behind it in the partition.
LossesAreExplained ==
  Cardinality({r \in Records : r[2] < committed[r[1]] /\ r \notin Bridged})
    <= faults + Cardinality(Poison)

\* Unless Redis or a commit fails, every readable status event reaches the channel
\* in the end, also the ones behind a record that is not readable, through crashes,
\* shutdowns and lost memberships.
EventuallyBridged ==
  \A r \in Records \ Poison :
    r[2] < produced[r[1]] ~> r \in Bridged \/ faults > 0

\* A signalled worker does not work its backlog off first: it goes down, unless it
\* has nothing left to read (the flag is looked at only when a record comes).
StopIsHeeded == stop /\ (\E p \in Partitions : position[p] < produced[p]) ~> at = "down"

-----------------------------------------------------------------------------
(***************************************************************************)
(* The worker implements StatusChannel.  A record is worked off when its   *)
(* iteration is over, not when the iterator hands it out, also one in hand *)
(* when the position behind it went back; a worker that is down stands     *)
(* where the next one will begin.                                          *)
(***************************************************************************)
WorkedOff ==
  [p \in Partitions |->
     IF at = "down" THEN committed[p]
     ELSE IF at \in {"check_stop", "publish"} /\ p = record[1] THEN record[2]
     ELSE IF at = "commit" /\ p = record[1] THEN record[2] + 1
     ELSE position[p]]

Channel == INSTANCE StatusChannel WITH cursor <- WorkedOff, kept <- committed

\* Every step of the worker is a step of the channel it promises or changes nothing
\* of it: no commit runs ahead of the publications, no failure takes a second record
\* with it, and only a restart or a rejoin goes back.
ImplementsChannel == Channel!ChannelSpec
=============================================================================
