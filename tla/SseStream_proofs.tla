-------------------------- MODULE SseStream_proofs --------------------------
(***************************************************************************)
(* Proofs about SseStream, for any number of statuses, of other loans'     *)
(* records and of faults.                                                  *)
(*                                                                         *)
(*   PipeInv    TypeOK; what the worker has worked off and published is    *)
(*              behind what Kafka has; the REST read found a status; and,  *)
(*              until the worker goes back, this loan's messages are on    *)
(*              the channel in the order of their records                  *)
(*   StartInv   what a client read and was shown when it began; with it    *)
(*              StartsCurrent is inductive                                 *)
(*   KnownInv   an id a client knows was published, and before it          *)
(*              subscribed if it resumes behind it                         *)
(*   SeenInv    a subscription forwards if and only if it has nothing to   *)
(*              wait for, or has read its event behind its start           *)
(*   ServedInv  frames are of statuses the loan has had, those of a        *)
(*              subscription of messages it has read; with it              *)
(*              NothingMissed is inductive                                 *)
(*                                                                         *)
(* ResumeTakesReplay and OrderIsKept are inductive relative to these.      *)
(***************************************************************************)
EXTENDS SseStream, FiniteSetTheorems, SequenceTheorems, TLAPS

Published(offset, n) == \E i \in 1..n : channel[i] = <<Here, offset>>

ChannelInOrder ==
  /\ \A i, j \in DOMAIN channel :
       i < j /\ channel[i][1] = Here /\ channel[j][1] = Here => channel[i][2] < channel[j][2]
  /\ \A i \in DOMAIN channel : channel[i][1] = Here => channel[i][2] < cursor[Here]

PipeInv ==
  /\ TypeOK
  /\ cursor[Here] <= Len(log) /\ kept[Here] <= Len(log)
  /\ \A i \in DOMAIN channel : channel[i][1] = Here => channel[i][2] < Len(log)
  /\ at = "initial" => fetched >= 1
  /\ "restart" \notin wrong => ChannelInOrder

StartInv ==
  /\ at = "initial" => Fresh /\ fetched >= asked
  /\ at \in {"fetch", "initial"} => frames = <<>>
  /\ at = "subscribe" =>
       /\ Len(frames) = FirstFrames
       /\ \A i \in DOMAIN frames : ~Final(frames[i])
  /\ StartsCurrent

KnownInv ==
  /\ frameId > 0 => Published(frameId - 1, Len(channel))
  /\ lastEventId > 0 => Published(lastEventId - 1, Len(channel))
  /\ at = "loop" /\ lastEventId > 0 => Published(lastEventId - 1, since)

EventCame == \E m \in Came : EventId(channel[m]) = lastEventId
SeenInv ==
  /\ seenResume => at \in {"loop", "finished"}
  /\ at = "loop" => (seenResume <=> Fresh \/ EventCame)

ServedInv ==
  /\ \A i \in DOMAIN frames : frames[i] \in 1..Len(history)
  /\ at = "loop" => \A i \in 2..Len(frames) : \E k \in Came : frames[i] = Status(channel[k])
  /\ NothingMissed

-----------------------------------------------------------------------------
\* The bounds, as the arithmetic needs them.
LEMMA Bounds == MaxUpdates \in Nat /\ MaxUpdates >= 1 /\ MaxNoise \in Nat /\ MaxFaults \in Nat
BY BoundsAssumption, UpdatesAssumption

\* The two halves of the types: what an event passes, and the stream.
PipeType ==
  /\ history \in Seq(LoanStatus) /\ Len(history) \in 1..MaxUpdates
  /\ log \in Seq(1..Len(history)) /\ noise \in 0..MaxNoise
  /\ cursor \in [Partitions -> Nat] /\ kept \in [Partitions -> Nat]
  /\ channel \in Seq(Partitions \X Nat)
  /\ wrong \subseteq Faults
StreamType ==
  /\ at \in StreamSteps
  /\ lastEventId \in NoId..Len(log) /\ frameId \in NoId..Len(log)
  /\ fetched \in 0..Len(history) /\ asked \in 0..Len(history)
  /\ since \in 0..readTo /\ readTo \in 0..Len(channel)
  /\ seenResume \in BOOLEAN
  /\ frames \in Seq(Versions) /\ shown \subseteq Versions

LEMMA Types == TypeOK <=> PipeType /\ StreamType
BY DEF TypeOK, PipeType, StreamType, Versions

\* At first nothing is on its way.
LEMMA PipeInvInit == Init => PipeInv
<1> SUFFICES ASSUME Init PROVE PipeInv
  OBVIOUS
<1>1. "SUBMITTED" \in LoanStatus
  BY DEF LoanStatus
<1>2. PipeType
  BY <1>1, Bounds DEF Init, PipeType, Partitions
<1>3. StreamType
  <2>1. /\ Len(log) = 0 /\ Len(channel) = 0 /\ Len(history) = 1 /\ -1 \in -1..0
        /\ frames \in Seq(Versions)
    BY DEF Init
  <2>2. seenResume \in BOOLEAN /\ shown \subseteq Versions /\ at \in StreamSteps
    BY DEF Init, StreamSteps
  <2>3. /\ lastEventId \in NoId..Len(log) /\ frameId \in NoId..Len(log)
        /\ fetched \in 0..Len(history) /\ asked \in 0..Len(history)
        /\ since \in 0..readTo /\ readTo \in 0..Len(channel)
    BY <2>1 DEF Init, NoId
  <2> QED
    BY <2>1, <2>2, <2>3 DEF StreamType
<1>4. DOMAIN channel = {} /\ cursor[Here] = 0 /\ kept[Here] = 0 /\ Len(log) = 0
  BY DEF Init, Partitions
<1> QED
  BY <1>2, <1>3, <1>4, Types DEF Init, PipeInv, ChannelInOrder

\* A message of this loan announces a status that the loan has had.
LEMMA MessagesHaveStatuses ==
  ASSUME PipeInv, NEW i \in DOMAIN channel, OfThisLoan(channel[i])
  PROVE  /\ channel[i] = <<Here, channel[i][2]>> /\ channel[i][2] \in Nat
         /\ channel[i][2] < Len(log)
         /\ EventId(channel[i]) \in 1..Len(log)
         /\ Status(channel[i]) \in 1..Len(history)
<1>0. channel \in Seq(Partitions \X Nat) /\ log \in Seq(1..Len(history)) /\ Len(log) \in Nat
  BY DEF PipeInv, TypeOK
<1>1. channel[i] \in Partitions \X Nat
  BY <1>0
<1>2. /\ channel[i] = <<Here, channel[i][2]>> /\ channel[i][2] \in Nat
      /\ channel[i][2] < Len(log)
  BY <1>1 DEF PipeInv, OfThisLoan
<1>3. channel[i][2] + 1 \in 1..Len(log)
  BY <1>0, <1>2
<1>4. log[channel[i][2] + 1] \in 1..Len(history)
  BY <1>0, <1>3
<1> QED
  BY <1>2, <1>3, <1>4 DEF EventId, Status

\* The frame a subscription sends next, and what it is about.
LEMMA NextMessage ==
  ASSUME PipeInv, MessageWaits
  PROVE  /\ readTo + 1 \in DOMAIN channel /\ readTo \in Nat
         /\ OfThisLoan(Message) =>
              /\ Message = <<Here, Message[2]>> /\ Message[2] \in Nat /\ Message[2] < Len(log)
              /\ EventId(Message) \in 1..Len(log)
              /\ Status(Message) \in 1..Len(history)
<1>1. readTo + 1 \in DOMAIN channel /\ readTo \in Nat
  BY DEF PipeInv, TypeOK, MessageWaits
<1> QED
  BY <1>1, MessagesHaveStatuses DEF Message

\* The steps of the pipeline leave the stream alone, and take nothing back but the
\* worker's place.
PipeStep ==
  /\ UNCHANGED streamVars
  /\ Len(history) <= Len(history') /\ Len(log) <= Len(log') /\ Len(channel) <= Len(channel')
  /\ \A i \in DOMAIN log : log'[i] = log[i]
  /\ \A i \in DOMAIN channel : channel'[i] = channel[i]
  /\ \A i \in DOMAIN history : history'[i] = history[i]
  /\ wrong \subseteq wrong'

\* What appending to a sequence does.
LEMMA SeqAppend ==
  ASSUME NEW S, NEW s \in Seq(S), NEW x \in S
  PROVE  /\ Append(s, x) \in Seq(S) /\ Len(Append(s, x)) = Len(s) + 1 /\ Len(s) \in Nat
         /\ DOMAIN s = 1..Len(s) /\ DOMAIN Append(s, x) = 1..(Len(s) + 1)
         /\ \A i \in 1..Len(s) : Append(s, x)[i] = s[i]
         /\ Append(s, x)[Len(s) + 1] = x
OBVIOUS

\* A status change only adds to the history.
LEMMA UpdateSteps ==
  ASSUME PipeInv, Update
  PROVE  PipeType' /\ PipeStep
<1> USE DEF PipeInv
<1>1. PipeType
  BY Types
<1>2. PICK s \in NextStatuses : history' = Append(history, s)
  BY DEF Update
<1>3. s \in LoanStatus
  BY DEF NextStatuses
<1>4. /\ history' \in Seq(LoanStatus) /\ Len(history') = Len(history) + 1
      /\ \A i \in DOMAIN history : history'[i] = history[i]
  BY <1>1, <1>2, <1>3, SeqAppend DEF PipeType
<1>5. Len(history') \in 1..MaxUpdates
  BY <1>1, <1>4, Bounds DEF Update, Current, PipeType
<1>6. log' \in Seq(1..Len(history')) /\ Len(log) \in Nat /\ Len(channel) \in Nat
  <2>1. 1..Len(history) \subseteq 1..Len(history')
    BY <1>1, <1>4 DEF PipeType
  <2> QED
    BY <1>1, <2>1, SeqMonotonic DEF Update, PipeType
<1>7. UNCHANGED <<log, noise, cursor, kept, channel, wrong>> /\ UNCHANGED streamVars
  BY DEF Update, channelVars
<1> QED
  BY <1>1, <1>4, <1>5, <1>6, <1>7 DEF PipeType, PipeStep

\* What goes wrong is one of the faults.
LEMMA GoesWrongType ==
  ASSUME wrong \subseteq Faults, NEW fault \in Faults, GoesWrong(fault)
  PROVE  wrong' \subseteq Faults /\ wrong \subseteq wrong'
BY DEF GoesWrong

\* An append to Kafka adds a record of a status the loan has had.
LEMMA AppendSteps ==
  ASSUME PipeInv, NEW v \in Versions, OutboxAppends(v)
  PROVE  PipeType' /\ PipeStep
<1>1. PipeType
  BY Types DEF PipeInv
<1>2. /\ v \in 1..Len(history) /\ log' = Append(log, v)
      /\ UNCHANGED <<history, noise, cursor, kept, channel>> /\ UNCHANGED streamVars
  BY DEF OutboxAppends, Outbox!Deliver, Worker!Produce, Current
<1>3. wrong' \subseteq Faults /\ wrong \subseteq wrong'
  BY <1>1, GoesWrongType DEF OutboxAppends, Faults, PipeType
<1>4. /\ log' \in Seq(1..Len(history)) /\ Len(log') = Len(log) + 1 /\ Len(log) \in Nat
      /\ \A i \in DOMAIN log : log'[i] = log[i]
  BY <1>1, <1>2, SeqAppend DEF PipeType
<1>5. Len(channel) \in Nat /\ Len(history) \in Nat
  BY <1>1 DEF PipeType
<1> QED
  BY <1>1, <1>2, <1>3, <1>4, <1>5 DEF PipeType, PipeStep

\* A record of another loan touches nothing of this one.
LEMMA OtherSteps ==
  ASSUME PipeInv, OtherLoanEvent
  PROVE  PipeType' /\ PipeStep
<1>1. PipeType
  BY Types DEF PipeInv
<1>2. /\ noise' = noise + 1 /\ noise < MaxNoise
      /\ UNCHANGED <<history, log, cursor, kept, channel, wrong>> /\ UNCHANGED streamVars
  BY DEF OtherLoanEvent, Worker!Produce
<1>3. noise' \in 0..MaxNoise
  BY <1>1, <1>2, Bounds DEF PipeType
<1>4. Len(channel) \in Nat /\ Len(history) \in Nat /\ Len(log) \in Nat
  BY <1>1 DEF PipeType
<1> QED
  BY <1>1, <1>2, <1>3, <1>4 DEF PipeType, PipeStep

\* The worker publishes a record or skips it.
LEMMA WorkerSteps ==
  ASSUME PipeInv, NEW p \in Partitions, Worker!Bridge(p) \/ Worker!Skip(p),
         UNCHANGED <<history, log, noise, streamVars>>, wrong \subseteq wrong', wrong' \subseteq Faults
  PROVE  /\ PipeType' /\ PipeStep /\ UNCHANGED <<log, kept>>
         /\ cursor' = [cursor EXCEPT ![p] = cursor[p] + 1]
         /\ p = Here => cursor[p] < Len(log)
         /\ channel' = channel \/ channel' = Append(channel, <<p, cursor[p]>>)
<1>1. PipeType
  BY Types DEF PipeInv
<1>2. /\ cursor' = [cursor EXCEPT ![p] = cursor[p] + 1] /\ kept' = kept
      /\ cursor[p] < IF p = Here THEN Len(log) ELSE noise
      /\ channel' = channel \/ channel' = Append(channel, <<p, cursor[p]>>)
  BY DEF Worker!Bridge, Worker!Skip, Worker!Advance
<1>3. <<p, cursor[p]>> \in Partitions \X Nat /\ cursor' \in [Partitions -> Nat]
  BY <1>1, <1>2 DEF PipeType
<1>4. /\ channel' \in Seq(Partitions \X Nat) /\ Len(channel) <= Len(channel')
      /\ \A i \in DOMAIN channel : channel'[i] = channel[i]
  <2>1. channel \in Seq(Partitions \X Nat) /\ Len(channel) \in Nat
    BY <1>1 DEF PipeType
  <2>2. CASE channel' = channel
    BY <2>1, <2>2
  <2>3. CASE channel' = Append(channel, <<p, cursor[p]>>)
    BY <1>3, <2>1, <2>3, SeqAppend
  <2> QED
    BY <1>2, <2>2, <2>3
<1>5. Len(history) \in Nat /\ Len(log) \in Nat
  BY <1>1 DEF PipeType
<1>6. PipeType'
  BY <1>1, <1>2, <1>3, <1>4 DEF PipeType
<1>7. PipeStep
  BY <1>4, <1>5 DEF PipeStep
<1> QED
  BY <1>2, <1>6, <1>7

\* A commit or a restart of the worker moves only its place.
LEMMA KeepSteps ==
  ASSUME PipeInv, UNCHANGED <<history, log, noise, channel, streamVars>>,
         cursor' \in [Partitions -> Nat], kept' \in {cursor, kept},
         wrong \subseteq wrong', wrong' \subseteq Faults
  PROVE  PipeType' /\ PipeStep
<1>1. PipeType
  BY Types DEF PipeInv
<1>2. Len(history) \in Nat /\ Len(log) \in Nat /\ Len(channel) \in Nat
  BY <1>1 DEF PipeType
<1> QED
  BY <1>1, <1>2 DEF PipeType, PipeStep

\* The types of the stream survive the pipeline.
LEMMA PipeKeepsStream == PipeInv /\ PipeType' /\ PipeStep => TypeOK'
<1> SUFFICES ASSUME PipeInv, PipeType', PipeStep PROVE TypeOK'
  OBVIOUS
<1>1. StreamType /\ PipeType
  BY Types DEF PipeInv
<1>2. /\ UNCHANGED <<at, fetched, readTo, seenResume, frames, shown, frameId, lastEventId, since, asked>>
      /\ Len(history) <= Len(history') /\ Len(log) <= Len(log') /\ Len(channel) <= Len(channel')
      /\ Len(history) \in Nat /\ Len(log) \in Nat /\ Len(channel) \in Nat
      /\ Len(history') \in Nat /\ Len(log') \in Nat /\ Len(channel') \in Nat
  BY <1>1 DEF PipeStep, PipeType, streamVars, clientVars, connVars
<1>3. StreamType'
  BY <1>1, <1>2 DEF StreamType, NoId, Versions
<1> QED
  BY <1>3, Types, PTL

\* A frame is of a status the loan has had; after a final one the stream is over.
LEMMA FrameSent ==
  ASSUME PipeInv, NEW v \in 1..Len(history), NEW id \in NoId..Len(log), NEW next \in StreamSteps,
         SendFrame(v, id, next)
  PROVE  /\ frames' \in Seq(Versions) /\ shown' \subseteq Versions
         /\ frameId' \in NoId..Len(log) /\ at' \in StreamSteps
         /\ at' # "finished" /\ next # "finished" => at' = next /\ ~Final(v)
         /\ Len(frames') = Len(frames) + 1 /\ Len(frames) \in Nat
         /\ \A i \in 1..Len(frames) : frames'[i] = frames[i]
         /\ frames'[Len(frames) + 1] = v
<1>1. v \in Versions /\ frames \in Seq(Versions) /\ shown \subseteq Versions
  <2>1. PipeType /\ StreamType
    BY Types DEF PipeInv
  <2> QED
    BY <2>1, Bounds DEF PipeType, StreamType, Versions
<1>2. /\ frames' = Append(frames, v) /\ shown' = shown \cup {v} /\ frameId' = id
      /\ at' = IF Final(v) THEN "finished" ELSE next
  BY DEF SendFrame
<1>3. /\ frames' \in Seq(Versions)
      /\ Len(frames') = Len(frames) + 1 /\ Len(frames) \in Nat
      /\ \A i \in 1..Len(frames) : frames'[i] = frames[i]
      /\ frames'[Len(frames) + 1] = v
  BY <1>1, <1>2, SeqAppend
<1> QED
  BY <1>1, <1>2, <1>3 DEF StreamSteps

\* The steps of the stream leave the pipeline alone.
StreamStep == UNCHANGED pipeVars /\ wrong \subseteq wrong' /\ wrong' \subseteq Faults

\* So the types of the pipeline stand.
LEMMA StreamKeepsPipe ==
  ASSUME PipeInv, StreamStep
  PROVE  PipeType' /\ UNCHANGED <<history, log, noise, cursor, kept, channel>>
<1>1. PipeType
  BY Types DEF PipeInv
<1> QED
  BY <1>1 DEF StreamStep, PipeType, pipeVars, channelVars

\* Every step of the stream is one, and keeps its types.
LEMMA StreamTypes ==
  ASSUME PipeInv,
         \/ Connect \/ FetchFails \/ Drop \/ Fetch \/ InitialFrame \/ Subscribe
         \/ SkipOtherLoan \/ SkipUntilResumed \/ Forward
  PROVE  StreamStep /\ TypeOK'
<1>0. PipeType /\ StreamType
  BY Types DEF PipeInv
<1>1. StreamStep
  <2>1. UNCHANGED pipeVars
    BY DEF Connect, FetchFails, Drop, EndStream, Fetch, InitialFrame, Subscribe, SkipOtherLoan,
           SkipUntilResumed, Forward
  <2>2. UNCHANGED wrong \/ GoesWrong("fetch") \/ GoesWrong("connection")
    BY DEF Connect, FetchFails, Drop, Fetch, InitialFrame, Subscribe, SkipOtherLoan,
           SkipUntilResumed, Forward
  <2> QED
    BY <1>0, <2>1, <2>2, GoesWrongType DEF StreamStep, PipeType, Faults
<1>2. PipeType' /\ UNCHANGED <<history, log, channel>>
  BY <1>1, StreamKeepsPipe
<1>3. Len(history) \in Nat /\ Len(history) >= 1 /\ Len(log) \in Nat /\ Len(channel) \in Nat
  BY <1>0 DEF PipeType
<1>4. StreamType'
  <2> USE <1>0, <1>2, <1>3 DEF StreamType, StreamSteps, connVars, clientVars, NoId
  <2>1. CASE Connect
    BY <2>1 DEF Connect, Current
  <2>2. ASSUME EndStream PROVE StreamType'
    <3>1. seenResume' \in BOOLEAN
      BY <2>2 DEF EndStream
    <3>2. /\ at' = "closed" /\ fetched' = 0 /\ readTo' = 0 /\ since' = 0 /\ asked' = 0
          /\ UNCHANGED <<frames, shown, frameId, lastEventId>>
      BY <2>2 DEF EndStream
    <3> QED
      BY <3>1, <3>2
  <2>3. CASE FetchFails \/ Drop
    BY <2>2, <2>3 DEF FetchFails, Drop
  <2>4. CASE Fetch
    BY <2>4 DEF Fetch, RestStatus, Current
  <2>5. CASE InitialFrame
    <3>1. fetched \in 1..Len(history) /\ InitialId \in NoId..Len(log) /\ "subscribe" \in StreamSteps
      BY <2>5 DEF InitialFrame, PipeInv, InitialId
    <3>2. /\ frames' \in Seq(Versions) /\ shown' \subseteq Versions
          /\ frameId' \in NoId..Len(log) /\ at' \in StreamSteps
      BY <2>5, <3>1, FrameSent DEF InitialFrame
    <3> QED
      BY <2>5, <3>2 DEF InitialFrame
  <2>6. CASE Subscribe
    <3>1. seenResume' \in BOOLEAN
      BY <2>6 DEF Subscribe, ResumedFromStart
    <3>2. /\ at' = "loop" /\ since' = Len(channel) /\ readTo' = Len(channel)
          /\ fetched' = 0 /\ asked' = 0
          /\ UNCHANGED <<lastEventId, frames, shown, frameId>>
      BY <2>6 DEF Subscribe
    <3> QED
      BY <3>1, <3>2
  <2>7. CASE SkipOtherLoan
    BY <2>7 DEF SkipOtherLoan, MessageWaits
  <2>8. CASE SkipUntilResumed
    <3>1. seenResume' \in BOOLEAN
      BY <2>8 DEF SkipUntilResumed
    <3>2. /\ readTo' = readTo + 1 /\ readTo < Len(channel)
          /\ UNCHANGED <<at, fetched, frames, shown, frameId, lastEventId, since, asked>>
      BY <2>8 DEF SkipUntilResumed, MessageWaits
    <3> QED
      BY <3>1, <3>2
  <2>9. CASE Forward
    <3>1. MessageWaits /\ OfThisLoan(Message) /\ SendFrame(Status(Message), EventId(Message), "loop")
      BY <2>9 DEF Forward
    <3>2. /\ Status(Message) \in 1..Len(history) /\ EventId(Message) \in NoId..Len(log)
          /\ "loop" \in StreamSteps
      BY <3>1, NextMessage
    <3>3. /\ frames' \in Seq(Versions) /\ shown' \subseteq Versions
          /\ frameId' \in NoId..Len(log) /\ at' \in StreamSteps
      BY <3>1, <3>2, FrameSent
    <3> QED
      BY <2>9, <3>3 DEF Forward, MessageWaits
  <2> QED
    BY <2>1, <2>3, <2>4, <2>5, <2>6, <2>7, <2>8, <2>9
<1>5. TypeOK'
  BY <1>2, <1>4, Types, PTL
<1> QED
  BY <1>1, <1>5

\* What bears on the way of an event, and on the stream's REST read, in one step.
LEMMA PipeInvNext == PipeInv /\ [Next]_vars => PipeInv'
<1> SUFFICES ASSUME PipeInv, [Next]_vars PROVE PipeInv'
  OBVIOUS
<1>0. /\ PipeType /\ cursor[Here] <= Len(log) /\ kept[Here] <= Len(log) /\ Here \in Partitions
      /\ \A i \in DOMAIN channel : channel[i][1] = Here => channel[i][2] < Len(log)
      /\ at = "initial" => fetched >= 1
      /\ "restart" \notin wrong => ChannelInOrder
      /\ Len(log) \in Nat /\ Len(channel) \in Nat /\ Len(history) \in Nat /\ Len(history) >= 1
      /\ DOMAIN channel = 1..Len(channel)
  BY Types DEF PipeInv, PipeType, Partitions
\* A step that touches neither cursor nor channel.
<1>a. ASSUME TypeOK', UNCHANGED <<cursor, kept, channel>>, Len(log) <= Len(log'),
             wrong \subseteq wrong', at' = "initial" => fetched' >= 1
      PROVE  PipeInv'
  <2>1. Len(log') \in Nat
    BY <1>a DEF TypeOK
  <2>2. ChannelInOrder' <=> ChannelInOrder
    BY <1>a DEF ChannelInOrder
  <2>3. /\ cursor[Here] <= Len(log') /\ kept[Here] <= Len(log')
        /\ \A i \in DOMAIN channel : channel[i][1] = Here => channel[i][2] < Len(log')
    <3>1. /\ cursor[Here] \in Nat /\ kept[Here] \in Nat
          /\ \A i \in DOMAIN channel : channel[i][2] \in Nat
      BY <1>0 DEF PipeType
    <3> QED
      BY <1>0, <1>a, <2>1, <3>1
  <2> QED
    BY <1>0, <1>a, <2>2, <2>3 DEF PipeInv
\* A step of the worker on one record.
<1>b. ASSUME NEW p \in Partitions, Worker!Bridge(p) \/ Worker!Skip(p),
             UNCHANGED <<history, log, noise, streamVars>>, wrong \subseteq wrong', wrong' \subseteq Faults
      PROVE  PipeInv'
  <2>1. /\ PipeType' /\ PipeStep /\ UNCHANGED <<log, kept>>
        /\ cursor' = [cursor EXCEPT ![p] = cursor[p] + 1]
        /\ p = Here => cursor[p] < Len(log)
        /\ channel' = channel \/ channel' = Append(channel, <<p, cursor[p]>>)
    BY <1>b, WorkerSteps
  <2>2. TypeOK' /\ UNCHANGED <<at, fetched>>
    BY <1>b, <2>1, PipeKeepsStream DEF streamVars
  <2>3. /\ cursor'[Here] = (IF p = Here THEN cursor[Here] + 1 ELSE cursor[Here])
        /\ cursor[Here] \in Nat /\ cursor'[Here] <= Len(log)
    BY <1>0, <2>1 DEF PipeType
  <2>4. CASE channel' = channel
    <3>1. ChannelInOrder => ChannelInOrder'
      <4>1. ASSUME NEW i \in DOMAIN channel, channel[i][1] = Here, channel[i][2] < cursor[Here]
            PROVE  channel[i][2] < cursor'[Here]
        <5>1. channel[i][2] \in Nat
          BY <1>0, <4>1 DEF PipeType
        <5> QED
          BY <2>3, <4>1, <5>1
      <4> QED
        BY <2>4, <4>1 DEF ChannelInOrder
    <3> QED
      BY <1>0, <1>b, <2>1, <2>2, <2>3, <2>4, <3>1 DEF PipeInv
  <2>5. CASE channel' = Append(channel, <<p, cursor[p]>>)
    <3> DEFINE n == Len(channel)
    <3>1. /\ DOMAIN channel' = 1..(n + 1) /\ DOMAIN channel = 1..n /\ n \in Nat
          /\ \A i \in 1..n : channel'[i] = channel[i] /\ channel[i][2] \in Nat
          /\ channel'[n + 1] = <<p, cursor[p]>>
      <4>1. channel \in Seq(Partitions \X Nat) /\ <<p, cursor[p]>> \in Partitions \X Nat
        BY <1>0, <1>b DEF PipeType
      <4> QED
        BY <2>5, <4>1, SeqAppend
    <3>2. \A i \in DOMAIN channel' : channel'[i][1] = Here => channel'[i][2] < Len(log')
      BY <1>0, <2>1, <3>1
    <3>3. ChannelInOrder => ChannelInOrder'
      <4> SUFFICES ASSUME ChannelInOrder PROVE ChannelInOrder'
        OBVIOUS
      <4>1. \A i \in 1..n : channel[i][1] = Here => channel[i][2] < cursor[Here]
        BY <3>1 DEF ChannelInOrder
      <4>2. \A i \in DOMAIN channel' : channel'[i][1] = Here => channel'[i][2] < cursor'[Here]
        BY <2>3, <3>1, <4>1
      <4>3. ASSUME NEW i \in DOMAIN channel', NEW j \in DOMAIN channel', i < j,
                   channel'[i][1] = Here, channel'[j][1] = Here
            PROVE  channel'[i][2] < channel'[j][2]
        <5>1. i \in 1..n
          BY <3>1, <4>3
        <5>2. CASE j \in 1..n
          BY <3>1, <4>3, <5>1, <5>2 DEF ChannelInOrder
        <5>3. CASE j = n + 1
          BY <3>1, <4>1, <4>3, <5>1, <5>3
        <5> QED
          BY <3>1, <5>2, <5>3
      <4> QED
        BY <4>2, <4>3 DEF ChannelInOrder
    <3> QED
      BY <1>0, <1>b, <2>1, <2>2, <2>3, <3>2, <3>3 DEF PipeInv
  <2> QED
    BY <2>1, <2>4, <2>5
<1>1. CASE Update
  <2>1. PipeType' /\ PipeStep
    BY <1>1, UpdateSteps
  <2>2. TypeOK' /\ UNCHANGED <<at, fetched>>
    BY <2>1, PipeKeepsStream DEF PipeStep, streamVars
  <2>3. UNCHANGED <<cursor, kept, channel>> /\ Len(log) <= Len(log') /\ wrong \subseteq wrong'
    BY <1>1, <2>1 DEF PipeStep, Update, channelVars, Outbox!Deliver, Worker!Produce
  <2> QED
    BY <1>0, <1>a, <2>2, <2>3
<1>2. ASSUME NEW v \in Versions, OutboxAppends(v) PROVE PipeInv'
  <2>1. PipeType' /\ PipeStep
    BY <1>2, AppendSteps
  <2>2. TypeOK' /\ UNCHANGED <<at, fetched>>
    BY <2>1, PipeKeepsStream DEF PipeStep, streamVars
  <2>3. UNCHANGED <<cursor, kept, channel>> /\ Len(log) <= Len(log') /\ wrong \subseteq wrong'
    BY <1>2, <2>1 DEF PipeStep, OutboxAppends, channelVars, Outbox!Deliver, Worker!Produce
  <2> QED
    BY <1>0, <1>a, <2>2, <2>3
<1>3. CASE OtherLoanEvent
  <2>1. PipeType' /\ PipeStep
    BY <1>3, OtherSteps
  <2>2. TypeOK' /\ UNCHANGED <<at, fetched>>
    BY <2>1, PipeKeepsStream DEF PipeStep, streamVars
  <2>3. UNCHANGED <<cursor, kept, channel>> /\ Len(log) <= Len(log') /\ wrong \subseteq wrong'
    BY <1>3, <2>1 DEF PipeStep, OtherLoanEvent, channelVars, Outbox!Deliver, Worker!Produce
  <2> QED
    BY <1>0, <1>a, <2>2, <2>3
<1>4. CASE WorkerBridges
  BY <1>4, <1>0, <1>b DEF WorkerBridges, PipeType
<1>5. CASE WorkerSkips
  <2>1. wrong \subseteq wrong' /\ wrong' \subseteq Faults
    BY <1>5, <1>0, GoesWrongType DEF WorkerSkips, PipeType, Faults
  <2> QED
    BY <1>5, <1>b, <2>1 DEF WorkerSkips
<1>6. CASE WorkerKeeps
  <2>1. /\ UNCHANGED <<history, log, noise, channel, cursor, wrong>> /\ UNCHANGED streamVars
        /\ kept' = cursor
    BY <1>6 DEF WorkerKeeps, Worker!Keep
  <2>2. TypeOK' /\ UNCHANGED <<at, fetched>>
    BY <1>0, <2>1, KeepSteps, PipeKeepsStream DEF PipeType, streamVars
  <2>3. ChannelInOrder' <=> ChannelInOrder
    BY <2>1 DEF ChannelInOrder
  <2> QED
    BY <1>0, <2>1, <2>2, <2>3 DEF PipeInv
<1>7. CASE WorkerRestarts
  <2>1. /\ UNCHANGED <<history, log, noise, channel, kept>> /\ UNCHANGED streamVars
        /\ \E S \in SUBSET Partitions :
             cursor' = [p \in Partitions |-> IF p \in S THEN kept[p] ELSE cursor[p]]
    BY <1>7 DEF WorkerRestarts, Worker!Restart
  <2>2. /\ cursor' \in [Partitions -> Nat]
        /\ \A p \in Partitions : cursor'[p] \in {kept[p], cursor[p]}
    BY <1>0, <2>1 DEF PipeType
  <2>3. wrong \subseteq wrong' /\ wrong' \subseteq Faults /\ "restart" \in wrong'
    BY <1>7, <1>0 DEF WorkerRestarts, GoesWrong, PipeType, Faults
  <2>4. TypeOK' /\ UNCHANGED <<at, fetched>>
    BY <1>0, <2>1, <2>3, <2>2, KeepSteps, PipeKeepsStream DEF PipeType, streamVars
  <2> QED
    BY <1>0, <2>1, <2>3, <2>4, <2>2 DEF PipeInv
<1>8. CASE Connect
  <2>1. StreamStep /\ TypeOK'
    BY <1>8, StreamTypes
  <2>2. UNCHANGED <<log, cursor, kept, channel>> /\ wrong \subseteq wrong'
    BY <2>1, StreamKeepsPipe DEF StreamStep
  <2>3. at' = "initial" => fetched' >= 1
    BY <1>8, <1>0 DEF Connect, EndStream, SendFrame, RestStatus, Current
  <2> QED
    BY <1>0, <1>a, <2>1, <2>2, <2>3
<1>9. CASE FetchFails
  <2>1. StreamStep /\ TypeOK'
    BY <1>9, StreamTypes
  <2>2. UNCHANGED <<log, cursor, kept, channel>> /\ wrong \subseteq wrong'
    BY <2>1, StreamKeepsPipe DEF StreamStep
  <2>3. at' = "initial" => fetched' >= 1
    BY <1>9, <1>0 DEF FetchFails, EndStream, SendFrame, RestStatus, Current
  <2> QED
    BY <1>0, <1>a, <2>1, <2>2, <2>3
<1>10. CASE Drop
  <2>1. StreamStep /\ TypeOK'
    BY <1>10, StreamTypes
  <2>2. UNCHANGED <<log, cursor, kept, channel>> /\ wrong \subseteq wrong'
    BY <2>1, StreamKeepsPipe DEF StreamStep
  <2>3. at' = "initial" => fetched' >= 1
    BY <1>10, <1>0 DEF Drop, EndStream, SendFrame, RestStatus, Current
  <2> QED
    BY <1>0, <1>a, <2>1, <2>2, <2>3
<1>11. CASE Fetch
  <2>1. StreamStep /\ TypeOK'
    BY <1>11, StreamTypes
  <2>2. UNCHANGED <<log, cursor, kept, channel>> /\ wrong \subseteq wrong'
    BY <2>1, StreamKeepsPipe DEF StreamStep
  <2>3. at' = "initial" => fetched' >= 1
    BY <1>11, <1>0 DEF Fetch, EndStream, SendFrame, RestStatus, Current
  <2> QED
    BY <1>0, <1>a, <2>1, <2>2, <2>3
<1>12. CASE InitialFrame
  <2>1. StreamStep /\ TypeOK'
    BY <1>12, StreamTypes
  <2>2. UNCHANGED <<log, cursor, kept, channel>> /\ wrong \subseteq wrong'
    BY <2>1, StreamKeepsPipe DEF StreamStep
  <2>3. at' = "initial" => fetched' >= 1
    BY <1>12, <1>0 DEF InitialFrame, EndStream, SendFrame, RestStatus, Current
  <2> QED
    BY <1>0, <1>a, <2>1, <2>2, <2>3
<1>13. CASE Subscribe
  <2>1. StreamStep /\ TypeOK'
    BY <1>13, StreamTypes
  <2>2. UNCHANGED <<log, cursor, kept, channel>> /\ wrong \subseteq wrong'
    BY <2>1, StreamKeepsPipe DEF StreamStep
  <2>3. at' = "initial" => fetched' >= 1
    BY <1>13, <1>0 DEF Subscribe, EndStream, SendFrame, RestStatus, Current
  <2> QED
    BY <1>0, <1>a, <2>1, <2>2, <2>3
<1>14. CASE SkipOtherLoan
  <2>1. StreamStep /\ TypeOK'
    BY <1>14, StreamTypes
  <2>2. UNCHANGED <<log, cursor, kept, channel>> /\ wrong \subseteq wrong'
    BY <2>1, StreamKeepsPipe DEF StreamStep
  <2>3. at' = "initial" => fetched' >= 1
    BY <1>14, <1>0 DEF SkipOtherLoan, EndStream, SendFrame, RestStatus, Current
  <2> QED
    BY <1>0, <1>a, <2>1, <2>2, <2>3
<1>15. CASE SkipUntilResumed
  <2>1. StreamStep /\ TypeOK'
    BY <1>15, StreamTypes
  <2>2. UNCHANGED <<log, cursor, kept, channel>> /\ wrong \subseteq wrong'
    BY <2>1, StreamKeepsPipe DEF StreamStep
  <2>3. at' = "initial" => fetched' >= 1
    BY <1>15, <1>0 DEF SkipUntilResumed, EndStream, SendFrame, RestStatus, Current
  <2> QED
    BY <1>0, <1>a, <2>1, <2>2, <2>3
<1>16. CASE Forward
  <2>1. StreamStep /\ TypeOK'
    BY <1>16, StreamTypes
  <2>2. UNCHANGED <<log, cursor, kept, channel>> /\ wrong \subseteq wrong'
    BY <2>1, StreamKeepsPipe DEF StreamStep
  <2>3. at' = "initial" => fetched' >= 1
    BY <1>16, <1>0 DEF Forward, EndStream, SendFrame, RestStatus, Current
  <2> QED
    BY <1>0, <1>a, <2>1, <2>2, <2>3
<1>17. CASE UNCHANGED vars
  <2>1. /\ UNCHANGED <<history, log, noise, cursor, kept, channel, wrong>> /\ UNCHANGED streamVars
    BY <1>17 DEF vars, pipeVars, channelVars
  <2>2. TypeOK' /\ UNCHANGED <<at, fetched>>
    BY <1>0, <2>1, KeepSteps, PipeKeepsStream DEF PipeType, streamVars
  <2> QED
    BY <1>0, <1>a, <2>1, <2>2
<1> QED
  BY <1>1, <1>2, <1>3, <1>4, <1>5, <1>6, <1>7, <1>8, <1>9, <1>10, <1>11, <1>12, <1>13, <1>14, <1>15, <1>16, <1>17
  DEF Next, Stream

-----------------------------------------------------------------------------
StreamActions ==
  \/ Connect \/ FetchFails \/ Drop \/ Fetch \/ InitialFrame \/ Subscribe
  \/ SkipOtherLoan \/ SkipUntilResumed \/ Forward

\* Whatever happens, happens to the pipeline or to the stream.
LEMMA TwoKindsOfSteps == PipeInv /\ [Next]_vars => PipeStep \/ StreamActions
<1> SUFFICES ASSUME PipeInv, [Next]_vars, ~StreamActions PROVE PipeStep
  OBVIOUS
<1>0. PipeType
  BY Types DEF PipeInv
<1>1. CASE Update
  BY <1>1, UpdateSteps
<1>2. ASSUME NEW v \in Versions, OutboxAppends(v) PROVE PipeStep
  BY <1>2, AppendSteps
<1>3. CASE OtherLoanEvent
  BY <1>3, OtherSteps
<1>4. CASE WorkerBridges
  BY <1>0, <1>4, WorkerSteps DEF WorkerBridges, PipeType
<1>5. CASE WorkerSkips
  <2>1. wrong \subseteq wrong' /\ wrong' \subseteq Faults
    BY <1>5, <1>0, GoesWrongType DEF WorkerSkips, PipeType, Faults
  <2> QED
    BY <1>5, <2>1, WorkerSteps DEF WorkerSkips
<1>6. CASE WorkerKeeps
  <2>1. UNCHANGED <<history, log, noise, channel, cursor, wrong>> /\ UNCHANGED streamVars
    BY <1>6 DEF WorkerKeeps, Worker!Keep
  <2>2. kept' = cursor
    BY <1>6 DEF WorkerKeeps, Worker!Keep
  <2> QED
    BY <1>0, <2>1, <2>2, KeepSteps DEF PipeType
<1>7. CASE WorkerRestarts
  <2>1. /\ UNCHANGED <<history, log, noise, channel, kept>> /\ UNCHANGED streamVars
        /\ \E S \in SUBSET Partitions :
             cursor' = [p \in Partitions |-> IF p \in S THEN kept[p] ELSE cursor[p]]
    BY <1>7 DEF WorkerRestarts, Worker!Restart
  <2>2. /\ cursor' \in [Partitions -> Nat]
        /\ \A p \in Partitions : cursor'[p] \in {kept[p], cursor[p]}
    BY <1>0, <2>1 DEF PipeType
  <2>3. wrong \subseteq wrong' /\ wrong' \subseteq Faults
    BY <1>7, <1>0, GoesWrongType DEF WorkerRestarts, PipeType, Faults
  <2> QED
    BY <2>1, <2>3, <2>2, KeepSteps
<1>8. CASE UNCHANGED vars
  <2>1. /\ UNCHANGED <<history, log, noise, cursor, kept, channel, wrong>> /\ UNCHANGED streamVars
    BY <1>8 DEF vars, pipeVars, channelVars
  <2> QED
    BY <1>0, <2>1, KeepSteps DEF PipeType
<1> QED
  BY <1>1, <1>2, <1>3, <1>4, <1>5, <1>6, <1>7, <1>8 DEF Next, Stream, StreamActions

\* What is on the channel stays there, and means what it meant.
LEMMA ChannelStands ==
  ASSUME PipeInv, PipeInv', Len(history) <= Len(history'), Len(log) <= Len(log'),
         Len(channel) <= Len(channel'),
         \A i \in DOMAIN log : log'[i] = log[i],
         \A i \in DOMAIN channel : channel'[i] = channel[i],
         \A i \in DOMAIN history : history'[i] = history[i]
  PROVE  /\ \A i \in 1..Len(channel) : OfThisLoan(channel[i]) =>
              EventId(channel[i])' = EventId(channel[i]) /\ Status(channel[i])' = Status(channel[i])
         /\ \A v \in 1..Len(history) : Final(v)' <=> Final(v)
         /\ \A i \in 1..Len(channel) : channel'[i] = channel[i]
         /\ \A o : \A n \in 0..Len(channel) : Published(o, n) => Published(o, n)'
         /\ DOMAIN channel = 1..Len(channel) /\ Len(channel) \in Nat /\ Len(channel') \in Nat
<1>1. /\ DOMAIN channel = 1..Len(channel) /\ Len(channel) \in Nat /\ Len(channel') \in Nat
      /\ DOMAIN log = 1..Len(log) /\ Len(log) \in Nat
      /\ DOMAIN history = 1..Len(history)
  <2>1. /\ channel \in Seq(Partitions \X Nat) /\ channel' \in Seq(Partitions \X Nat)
        /\ log \in Seq(1..Len(history)) /\ history \in Seq(LoanStatus)
    BY DEF PipeInv, TypeOK
  <2> QED
    BY <2>1, LenProperties
<1>2. ASSUME NEW i \in 1..Len(channel), OfThisLoan(channel[i])
      PROVE  EventId(channel[i])' = EventId(channel[i]) /\ Status(channel[i])' = Status(channel[i])
  <2>1. channel[i][2] + 1 \in DOMAIN log /\ channel'[i] = channel[i]
    BY <1>1, <1>2, MessagesHaveStatuses
  <2> QED
    BY <2>1 DEF EventId, Status
<1>3. \A v \in 1..Len(history) : Final(v)' <=> Final(v)
  BY <1>1 DEF Final
<1>4. \A o : \A n \in 0..Len(channel) : Published(o, n) => Published(o, n)'
  BY <1>1 DEF Published
<1> QED
  BY <1>1, <1>2, <1>3, <1>4

\* The pipeline disturbs nothing that a stream has read.
LEMMA PipeKeepsReading ==
  ASSUME PipeInv, PipeInv', PipeStep
  PROVE  /\ UNCHANGED <<at, fetched, readTo, seenResume, frames, shown, frameId, lastEventId,
                        since, asked>>
         /\ (Fresh' <=> Fresh) /\ FirstFrames' = FirstFrames
         /\ Came' = Came /\ Served' = Served
         /\ \A i \in Came : /\ i \in 1..Len(channel)
                            /\ EventId(channel[i])' = EventId(channel[i])
                            /\ Status(channel[i])' = Status(channel[i])
         /\ \A i \in Served : i \in Came /\ Rank(i)' = Rank(i)
<1>1. /\ UNCHANGED <<at, fetched, readTo, seenResume, frames, shown, frameId, lastEventId,
                     since, asked>>
      /\ readTo \in 0..Len(channel) /\ since \in 0..readTo /\ Len(channel) \in Nat
  BY DEF PipeStep, streamVars, clientVars, connVars, PipeInv, TypeOK
<1>2. /\ \A i \in 1..Len(channel) : OfThisLoan(channel[i]) =>
           EventId(channel[i])' = EventId(channel[i]) /\ Status(channel[i])' = Status(channel[i])
      /\ \A i \in 1..Len(channel) : channel'[i] = channel[i]
  BY ChannelStands DEF PipeStep
<1>3. Came' = Came /\ \A i \in Came : i \in 1..Len(channel) /\ OfThisLoan(channel[i])
  BY <1>1, <1>2 DEF Came, OfThisLoan
<1>4. \A i \in Came : EventId(channel[i])' = EventId(channel[i])
  BY <1>2, <1>3
<1>5. (Fresh' <=> Fresh) /\ FirstFrames' = FirstFrames
  BY <1>1 DEF Fresh, FirstFrames
<1>6. Served' = Served
  BY <1>1, <1>3, <1>4, <1>5 DEF Served
<1>7. \A i \in Served : i \in Came /\ Rank(i)' = Rank(i)
  BY <1>6 DEF Rank, Served
<1> QED
  BY <1>1, <1>2, <1>3, <1>4, <1>5, <1>6, <1>7

\* How the pipeline and the stream keep each of the invariants.
LEMMA PipeKeepsStart ==
  ASSUME PipeInv, PipeInv', PipeStep, StartInv, ServedInv
  PROVE  StartInv'
<1>1. /\ UNCHANGED <<at, fetched, frames, shown, lastEventId, asked>>
      /\ (Fresh' <=> Fresh) /\ FirstFrames' = FirstFrames
  BY PipeKeepsReading
<1>2. \A v \in 1..Len(history) : Final(v)' <=> Final(v)
  BY ChannelStands DEF PipeStep
<1>3. \A i \in DOMAIN frames : frames[i] \in 1..Len(history)
  BY DEF ServedInv
<1> QED
  BY <1>1, <1>2, <1>3 DEF StartInv, StartsCurrent

LEMMA PipeKeepsKnown ==
  ASSUME PipeInv, PipeInv', PipeStep, KnownInv
  PROVE  KnownInv'
<1>1. UNCHANGED <<at, frameId, lastEventId, since>>
  BY PipeKeepsReading
<1>2. /\ \A o : \A n \in 0..Len(channel) : Published(o, n) => Published(o, n)'
      /\ Len(channel) \in Nat /\ Len(channel') \in Nat /\ Len(channel) <= Len(channel')
  BY ChannelStands DEF PipeStep
<1>3. ASSUME NEW o, Published(o, Len(channel)) PROVE Published(o, Len(channel))'
  BY <1>2, <1>3 DEF Published, PipeStep
<1>4. since \in 0..Len(channel)
  BY <1>2 DEF PipeInv, TypeOK
<1> QED
  BY <1>1, <1>2, <1>3, <1>4 DEF KnownInv

LEMMA PipeKeepsSeen ==
  ASSUME PipeInv, PipeInv', PipeStep, SeenInv
  PROVE  SeenInv'
BY PipeKeepsReading DEF SeenInv, EventCame

LEMMA PipeKeepsServed ==
  ASSUME PipeInv, PipeInv', PipeStep, ServedInv
  PROVE  ServedInv'
<1>1. /\ UNCHANGED <<at, frames>> /\ FirstFrames' = FirstFrames
      /\ Came' = Came /\ Served' = Served
      /\ \A i \in Came : Status(channel[i])' = Status(channel[i])
      /\ \A i \in Served : i \in Came /\ Rank(i)' = Rank(i)
  BY PipeKeepsReading
<1>2. /\ \A v \in 1..Len(history) : Final(v)' <=> Final(v)
      /\ Len(history) \in Nat /\ Len(history') \in Nat /\ Len(history) <= Len(history')
  <2>1. history \in Seq(LoanStatus) /\ history' \in Seq(LoanStatus)
    BY DEF PipeInv, TypeOK
  <2> QED
    BY <2>1, ChannelStands, LenProperties DEF PipeStep
<1>3. \A i \in DOMAIN frames : frames[i] \in 1..Len(history)
  BY DEF ServedInv
<1>4. \A i \in DOMAIN frames' : frames'[i] \in 1..Len(history')
  BY <1>1, <1>2, <1>3
<1>5. NothingMissed'
  BY <1>1, <1>2, <1>3 DEF NothingMissed, ServedInv
<1> QED
  BY <1>1, <1>4, <1>5 DEF ServedInv

-----------------------------------------------------------------------------
\* The stream's steps change nothing of what has been published.
LEMMA StreamFacts ==
  ASSUME PipeInv, StreamActions
  PROVE  /\ UNCHANGED <<history, log, channel>> /\ wrong \subseteq wrong'
         /\ readTo \in 0..Len(channel) /\ since \in 0..readTo
         /\ Len(channel) \in Nat /\ DOMAIN channel = 1..Len(channel)
         /\ lastEventId \in -1..Len(log) /\ frameId \in -1..Len(log) /\ Len(log) \in Nat
         /\ frames \in Seq(Versions) /\ Len(frames) \in Nat /\ DOMAIN frames = 1..Len(frames)
         /\ Len(history) \in Nat /\ seenResume \in BOOLEAN
<1>1. UNCHANGED <<history, log, channel>> /\ wrong \subseteq wrong'
  BY StreamTypes, StreamKeepsPipe DEF StreamActions, StreamStep
<1>2. /\ channel \in Seq(Partitions \X Nat) /\ log \in Seq(1..Len(history))
      /\ history \in Seq(LoanStatus) /\ frames \in Seq(Versions)
      /\ readTo \in 0..Len(channel) /\ since \in 0..readTo
      /\ lastEventId \in -1..Len(log) /\ frameId \in -1..Len(log)
      /\ seenResume \in BOOLEAN
  BY DEF PipeInv, TypeOK, NoId
<1> QED
  BY <1>1, <1>2, LenProperties

\* A stream begins with what the REST read returned, if it has nothing to resume.
LEMMA StreamKeepsStart ==
  ASSUME PipeInv, StreamActions, StartInv
  PROVE  StartInv'
<1>0. /\ UNCHANGED <<history, log, channel>> /\ Len(frames) \in Nat /\ Len(history) \in Nat
      /\ fetched \in 0..Len(history) /\ asked \in 0..Len(history)
  BY StreamFacts DEF PipeInv, TypeOK
<1> USE DEF StartInv, StartsCurrent, Fresh, FirstFrames
<1>1. CASE Connect
  BY <1>1 DEF Connect
<1>2. CASE FetchFails \/ Drop
  BY <1>2 DEF FetchFails, Drop, EndStream
<1>3. CASE Fetch
  <2>1. /\ at' = IF lastEventId = NoId THEN "initial" ELSE "subscribe"
        /\ fetched' = Len(history) /\ frames = <<>>
        /\ UNCHANGED <<frames, lastEventId, asked, shown>>
    BY <1>3 DEF Fetch, RestStatus, Current, clientVars, connVars
  <2> QED
    BY <1>0, <2>1
<1>4. CASE InitialFrame
  <2>1. /\ fetched \in 1..Len(history) /\ InitialId \in NoId..Len(log)
        /\ "subscribe" \in StreamSteps
    BY <1>4, <1>0, StreamFacts DEF InitialFrame, PipeInv, InitialId, NoId, StreamSteps
  <2>2. /\ at' = "finished" \/ (at' = "subscribe" /\ ~Final(fetched))
        /\ frames' = <<fetched>> /\ fetched \in shown'
        /\ lastEventId = NoId /\ UNCHANGED <<lastEventId, asked>> /\ fetched >= asked
    BY <1>4 DEF InitialFrame, SendFrame, connVars
  <2>3. Len(frames') = 1 /\ DOMAIN frames' = {1} /\ frames'[1] = fetched
    BY <2>2
  <2>4. fetched' = fetched /\ \A v : Final(v)' <=> Final(v)
    BY <1>0, <1>4 DEF InitialFrame, Final
  <2> QED
    BY <1>0, <2>2, <2>3, <2>4 DEF Final
<1>5. CASE Subscribe
  BY <1>5 DEF Subscribe
<1>6. CASE SkipOtherLoan \/ SkipUntilResumed
  BY <1>6 DEF SkipOtherLoan, SkipUntilResumed, MessageWaits
<1>7. CASE Forward
  BY <1>7 DEF Forward, SendFrame, MessageWaits
<1> QED
  BY <1>1, <1>2, <1>3, <1>4, <1>5, <1>6, <1>7 DEF StreamActions

\* The browser knows the ids of frames only, and frames are of published messages.
LEMMA StreamKeepsKnown ==
  ASSUME PipeInv, StreamActions, KnownInv
  PROVE  KnownInv'
<1>0. /\ channel' = channel /\ Len(channel) \in Nat /\ DOMAIN channel = 1..Len(channel)
      /\ \A o, n : Published(o, n)' <=> Published(o, n)
  BY StreamFacts DEF Published
<1>1. CASE Connect
  <2>1. at' = "fetch" /\ lastEventId' = frameId /\ frameId' = frameId
    BY <1>1 DEF Connect
  <2> QED
    BY <1>0, <2>1 DEF KnownInv
<1>2. CASE FetchFails \/ Drop
  <2>1. at' = "closed" /\ UNCHANGED <<lastEventId, frameId>>
    BY <1>2 DEF FetchFails, Drop, EndStream, clientVars
  <2> QED
    BY <1>0, <2>1 DEF KnownInv
<1>3. CASE Fetch
  <2>1. at' # "loop" /\ UNCHANGED <<lastEventId, frameId>>
    BY <1>3 DEF Fetch, clientVars, connVars
  <2> QED
    BY <1>0, <2>1 DEF KnownInv
<1>4. CASE InitialFrame
  <2>1. at' # "loop" /\ lastEventId' = lastEventId /\ frameId' = 0
    BY <1>4 DEF InitialFrame, SendFrame, connVars, InitialId
  <2> QED
    BY <1>0, <2>1 DEF KnownInv
<1>5. CASE Subscribe
  <2>1. UNCHANGED <<lastEventId, frameId>> /\ since' = Len(channel)
    BY <1>5 DEF Subscribe, clientVars
  <2> QED
    BY <1>0, <2>1 DEF KnownInv
<1>6. CASE SkipOtherLoan \/ SkipUntilResumed
  <2>1. UNCHANGED <<at, lastEventId, frameId, since>>
    BY <1>6 DEF SkipOtherLoan, SkipUntilResumed, clientVars, connVars
  <2> QED
    BY <1>0, <2>1 DEF KnownInv
<1>7. CASE Forward
  <2>1. /\ UNCHANGED <<lastEventId, since>> /\ frameId' = EventId(Message)
        /\ at = "loop" /\ MessageWaits /\ OfThisLoan(Message)
    BY <1>7 DEF Forward, SendFrame, connVars, MessageWaits
  <2>2. /\ readTo + 1 \in 1..Len(channel) /\ channel[readTo + 1] = <<Here, Message[2]>>
        /\ Message[2] \in Nat /\ frameId' - 1 = Message[2]
    BY <1>0, <2>1, NextMessage DEF Message, EventId
  <2>3. Published(frameId' - 1, Len(channel))
    BY <2>2 DEF Published
  <2> QED
    BY <1>0, <2>1, <2>3 DEF KnownInv
<1> QED
  BY <1>1, <1>2, <1>3, <1>4, <1>5, <1>6, <1>7 DEF StreamActions

\* What is read next is of this loan, and came, or is not.
LEMMA CameGrows ==
  ASSUME PipeInv, MessageWaits, readTo' = readTo + 1, since' = since, channel' = channel,
         lastEventId' = lastEventId
  PROVE  /\ Came' = IF OfThisLoan(Message) THEN Came \cup {readTo + 1} ELSE Came
         /\ \A i \in Came : i \in Nat /\ i <= readTo
         /\ readTo \in Nat /\ (Fresh' <=> Fresh) /\ FirstFrames' = FirstFrames
         /\ \A i : EventId(channel[i])' = EventId(channel[i])
<1>1. readTo \in Nat /\ since \in 0..readTo
  <2>1. readTo \in 0..Len(channel) /\ since \in 0..readTo /\ channel \in Seq(Partitions \X Nat)
    BY DEF PipeInv, TypeOK
  <2> QED
    BY <2>1
<1>2. (since' + 1)..readTo' = ((since + 1)..readTo) \cup {readTo + 1}
  BY <1>1
<1>3. \A i : OfThisLoan(channel[i])' <=> OfThisLoan(channel[i])
  BY DEF OfThisLoan
<1>4. Came' = {i \in ((since + 1)..readTo) \cup {readTo + 1} : OfThisLoan(channel[i])}
  BY <1>2, <1>3 DEF Came
<1>5. Came' = IF OfThisLoan(Message) THEN Came \cup {readTo + 1} ELSE Came
  BY <1>4 DEF Came, Message
<1>6. \A i \in Came : i \in Nat /\ i <= readTo
  BY <1>1 DEF Came
<1> QED
  BY <1>1, <1>5, <1>6 DEF Fresh, FirstFrames, EventId

\* A resumed subscription waits until its event comes by.
LEMMA StreamKeepsSeen ==
  ASSUME PipeInv, StreamActions, SeenInv
  PROVE  SeenInv'
<1>0. /\ UNCHANGED <<history, log, channel>> /\ Len(channel) \in Nat /\ seenResume \in BOOLEAN
  BY StreamFacts
<1>1. CASE Connect
  BY <1>1 DEF Connect, SeenInv
<1>2. CASE FetchFails \/ Drop
  BY <1>2 DEF FetchFails, Drop, EndStream, SeenInv
<1>3. CASE Fetch
  BY <1>3 DEF Fetch, SeenInv
<1>4. CASE InitialFrame
  BY <1>4 DEF InitialFrame, SendFrame, SeenInv
<1>5. CASE Subscribe
  <2>1. /\ at' = "loop" /\ (seenResume' <=> Fresh) /\ (Fresh' <=> Fresh)
        /\ since' = Len(channel) /\ readTo' = Len(channel)
    BY <1>5 DEF Subscribe, ResumedFromStart, Fresh
  <2>2. Came' = {}
    BY <1>0, <2>1 DEF Came
  <2> QED
    BY <2>1, <2>2 DEF SeenInv, EventCame
<1>6. CASE SkipOtherLoan
  <2>1. /\ MessageWaits /\ ~OfThisLoan(Message) /\ readTo' = readTo + 1
        /\ UNCHANGED <<at, seenResume, since, lastEventId, channel>>
    BY <1>0, <1>6 DEF SkipOtherLoan, connVars
  <2>2. /\ Came' = Came /\ (Fresh' <=> Fresh)
        /\ \A m : EventId(channel[m])' = EventId(channel[m])
    BY <2>1, CameGrows
  <2>3. EventCame' <=> EventCame
    BY <2>1, <2>2 DEF EventCame
  <2> QED
    BY <2>1, <2>2, <2>3 DEF SeenInv
<1>7. CASE SkipUntilResumed
  <2>1. /\ MessageWaits /\ OfThisLoan(Message) /\ ~seenResume /\ readTo' = readTo + 1
        /\ seenResume' <=> EventId(Message) = lastEventId
        /\ UNCHANGED <<at, since, lastEventId, channel>> /\ at = "loop"
    BY <1>0, <1>7 DEF SkipUntilResumed, connVars, MessageWaits
  <2>2. /\ Came' = Came \cup {readTo + 1} /\ (Fresh' <=> Fresh)
        /\ \A m : EventId(channel[m])' = EventId(channel[m])
    BY <2>1, CameGrows
  <2>3. ~Fresh /\ ~EventCame
    BY <2>1 DEF SeenInv
  <2>4. EventCame' <=> EventId(Message) = lastEventId
    BY <2>1, <2>2, <2>3 DEF EventCame, Message
  <2> QED
    BY <2>1, <2>2, <2>3, <2>4 DEF SeenInv
<1>8. CASE Forward
  <2>1. /\ MessageWaits /\ OfThisLoan(Message) /\ seenResume /\ readTo' = readTo + 1
        /\ UNCHANGED <<seenResume, since, lastEventId, channel>>
        /\ at = "loop" /\ at' \in {"loop", "finished"}
    BY <1>0, <1>8 DEF Forward, SendFrame, connVars, MessageWaits
  <2>2. /\ Came' = Came \cup {readTo + 1} /\ (Fresh' <=> Fresh)
        /\ \A m : EventId(channel[m])' = EventId(channel[m])
    BY <2>1, CameGrows
  <2>3. Fresh \/ EventCame
    BY <2>1 DEF SeenInv
  <2>4. EventCame => EventCame'
    BY <2>1, <2>2 DEF EventCame
  <2> QED
    BY <2>1, <2>2, <2>3, <2>4 DEF SeenInv
<1> QED
  BY <1>1, <1>2, <1>3, <1>4, <1>5, <1>6, <1>7, <1>8 DEF StreamActions

\* Frames are of statuses the loan has had.
LEMMA FramesKeepTheirStatuses ==
  ASSUME PipeInv, StreamActions, \A i \in DOMAIN frames : frames[i] \in 1..Len(history)
  PROVE  \A i \in DOMAIN frames' : frames'[i] \in 1..Len(history')
<1>0. /\ UNCHANGED <<history, log, channel>> /\ Len(frames) \in Nat
      /\ DOMAIN frames = 1..Len(frames) /\ Len(log) \in Nat
      /\ TypeOK'
  BY StreamFacts, StreamTypes DEF StreamActions
<1>1. DOMAIN frames' = 1..Len(frames')
  BY <1>0, LenProperties DEF TypeOK
<1>a. ASSUME NEW v \in 1..Len(history), NEW id \in NoId..Len(log), NEW next \in StreamSteps,
             SendFrame(v, id, next)
      PROVE  \A i \in DOMAIN frames' : frames'[i] \in 1..Len(history')
  <2>1. /\ Len(frames') = Len(frames) + 1 /\ frames'[Len(frames) + 1] = v
        /\ \A i \in 1..Len(frames) : frames'[i] = frames[i]
    BY <1>a, FrameSent
  <2> QED
    BY <1>0, <1>1, <1>a, <2>1
<1>2. CASE UNCHANGED frames
  BY <1>0, <1>2
<1>3. CASE Connect
  <2>1. DOMAIN frames' = {}
    BY <1>3 DEF Connect
  <2> QED
    BY <2>1
<1>4. CASE InitialFrame
  <2>1. /\ fetched \in 1..Len(history) /\ InitialId \in NoId..Len(log)
        /\ "subscribe" \in StreamSteps
    BY <1>0, <1>4 DEF InitialFrame, PipeInv, TypeOK, InitialId, NoId, StreamSteps
  <2> QED
    BY <1>4, <1>a, <2>1 DEF InitialFrame
<1>5. CASE Forward
  <2>1. MessageWaits /\ OfThisLoan(Message)
    BY <1>5 DEF Forward
  <2>2. /\ Status(Message) \in 1..Len(history) /\ EventId(Message) \in NoId..Len(log)
        /\ "loop" \in StreamSteps
    BY <1>0, <2>1, NextMessage DEF NoId, StreamSteps
  <2> QED
    BY <1>5, <1>a, <2>2 DEF Forward
<1> QED
  BY <1>2, <1>3, <1>4, <1>5
  DEF StreamActions, FetchFails, Drop, EndStream, Fetch, Subscribe, SkipOtherLoan,
      SkipUntilResumed, clientVars

\* One more message is served: its rank is the last, and the others keep theirs.
LEMMA ServedGrows ==
  ASSUME PipeInv, NEW n \in Nat, Served' = Served \cup {n}, \A i \in Served : i \in Nat /\ i < n
  PROVE  /\ \A i \in Served : Rank(i)' = Rank(i) /\ Rank(i) \in 1..Cardinality(Served)
         /\ Rank(n)' = Cardinality(Served) + 1 /\ Cardinality(Served)' = Cardinality(Served) + 1
         /\ Cardinality(Served) \in Nat
<1>1. ASSUME NEW i \in Served PROVE {j \in Served' : j <= i} = {j \in Served : j <= i}
  BY <1>1
<1>2. {j \in Served' : j <= n} = Served'
  OBVIOUS
<1>3. n \notin Served
  OBVIOUS
<1>4. IsFiniteSet(Served)
  <2>1. Served \subseteq 0..n /\ IsFiniteSet(0..n)
    BY FS_Interval
  <2> QED
    BY <2>1, FS_Subset
<1>5. Cardinality(Served \cup {n}) = Cardinality(Served) + 1 /\ Cardinality(Served) \in Nat
  BY <1>3, <1>4, FS_AddElement, FS_CardinalityType
<1>6. ASSUME NEW i \in Served PROVE Cardinality({j \in Served : j <= i}) \in 1..Cardinality(Served)
  <2> DEFINE R == {j \in Served : j <= i}
  <2>1. R \in SUBSET Served /\ R # {}
    BY <1>6
  <2> HIDE DEF R
  <2>2. IsFiniteSet(R) /\ Cardinality(R) <= Cardinality(Served)
    BY <1>4, <2>1, FS_Subset
  <2>3. Cardinality(R) \in Nat /\ Cardinality(R) # 0
    BY <2>1, <2>2, FS_CardinalityType, FS_EmptySet
  <2> QED
    BY <1>5, <2>2, <2>3 DEF R
<1> QED
  BY <1>1, <1>2, <1>5, <1>6 DEF Rank

\* What comes is passed on, or skipped while a resumed subscription waits.
LEMMA StreamKeepsServed ==
  ASSUME PipeInv, StreamActions, StartInv, SeenInv, ServedInv
  PROVE  ServedInv'
<1>0. /\ UNCHANGED <<history, log, channel>> /\ Len(channel) \in Nat
      /\ readTo \in Nat /\ since \in Nat /\ Len(frames) \in Nat
      /\ DOMAIN frames = 1..Len(frames) /\ Len(log) \in Nat
      /\ \A v : Final(v)' <=> Final(v)
      /\ \A i : Status(channel[i])' = Status(channel[i])
      /\ \A i : EventId(channel[i])' = EventId(channel[i])
  BY StreamFacts DEF Final, Status, EventId
<1>1. \A i \in DOMAIN frames' : frames'[i] \in 1..Len(history')
  BY FramesKeepTheirStatuses DEF ServedInv
<1>2. CASE at' # "loop"
  BY <1>1, <1>2 DEF ServedInv, NothingMissed
<1>3. CASE Subscribe
  <2>1. /\ at = "subscribe" /\ since' = Len(channel) /\ readTo' = Len(channel)
        /\ UNCHANGED <<lastEventId, frames>>
    BY <1>3 DEF Subscribe, clientVars
  <2>2. Came' = {} /\ Served' = {} /\ FirstFrames' = FirstFrames
    BY <1>0, <2>1 DEF Came, Served, FirstFrames, Fresh
  <2>3. /\ Len(frames) = FirstFrames /\ FirstFrames \in {0, 1}
        /\ \A i \in DOMAIN frames : ~Final(frames[i])
    BY <2>1 DEF StartInv, FirstFrames
  <2>4. Cardinality(Served') = 0
    BY <2>2, FS_EmptySet
  <2>5. NothingMissed'
    BY <1>0, <2>1, <2>2, <2>3, <2>4 DEF NothingMissed
  <2> QED
    BY <1>1, <2>1, <2>3, <2>5 DEF ServedInv
\* A message that is skipped.
<1>a. ASSUME at = "loop", Came' \in {Came, Came \cup {readTo + 1}}, Served' = Served, UNCHANGED frames,
             FirstFrames' = FirstFrames
      PROVE  ServedInv'
  <2>1. \A i \in Served : Rank(i)' = Rank(i)
    BY <1>a DEF Rank
  <2>2. NothingMissed'
    BY <1>0, <1>a, <2>1 DEF NothingMissed, ServedInv
  <2>3. Came \subseteq Came'
    BY <1>a
  <2> QED
    BY <1>0, <1>1, <1>a, <2>2, <2>3 DEF ServedInv
<1>4. CASE SkipOtherLoan
  <2>1. /\ MessageWaits /\ ~OfThisLoan(Message) /\ readTo' = readTo + 1 /\ at = "loop"
        /\ UNCHANGED <<since, lastEventId, channel, frames>>
    BY <1>0, <1>4 DEF SkipOtherLoan, connVars, clientVars, MessageWaits
  <2>2. Came' = Came /\ (Fresh' <=> Fresh) /\ FirstFrames' = FirstFrames
    BY <2>1, CameGrows
  <2>3. Served' = Served
    BY <1>0, <2>1, <2>2 DEF Served
  <2> QED
    BY <1>a, <2>1, <2>2, <2>3
<1>5. CASE SkipUntilResumed
  <2>1. /\ MessageWaits /\ OfThisLoan(Message) /\ ~seenResume /\ readTo' = readTo + 1
        /\ UNCHANGED <<since, lastEventId, channel, frames>> /\ at = "loop"
    BY <1>0, <1>5 DEF SkipUntilResumed, connVars, clientVars, MessageWaits
  <2>2. /\ Came' = Came \cup {readTo + 1} /\ (Fresh' <=> Fresh) /\ FirstFrames' = FirstFrames
        /\ \A i \in Came : i \in Nat /\ i <= readTo
    BY <2>1, CameGrows
  <2>3. ~Fresh /\ ~EventCame
    BY <2>1 DEF SeenInv
  <2>4. \A m \in Came : EventId(channel[m]) # lastEventId
    BY <2>3 DEF EventCame
  <2>5. Served = {}
    BY <2>3, <2>4 DEF Served
  <2>6. \A i, m \in Came' : m < i => m \in Came
    BY <1>0, <2>2
  <2>7. Served' = {}
    BY <1>0, <2>1, <2>2, <2>3, <2>4, <2>6 DEF Served
  <2> QED
    BY <1>a, <2>1, <2>2, <2>5, <2>7
<1>6. CASE Forward /\ at' = "loop"
  <2>1. /\ MessageWaits /\ OfThisLoan(Message) /\ seenResume /\ readTo' = readTo + 1
        /\ UNCHANGED <<since, lastEventId, channel>> /\ at = "loop"
        /\ SendFrame(Status(Message), EventId(Message), "loop")
    BY <1>0, <1>6 DEF Forward, connVars, MessageWaits
  <2>n. PICK n \in Nat : n = readTo + 1
    BY <1>0
  <2>m. Message = channel[n]
    BY <2>n DEF Message
  <2>2. /\ Came' = Came \cup {n} /\ (Fresh' <=> Fresh) /\ FirstFrames' = FirstFrames
        /\ \A i \in Came : i \in Nat /\ i < n
    <3>1. /\ Came' = Came \cup {readTo + 1} /\ (Fresh' <=> Fresh) /\ FirstFrames' = FirstFrames
          /\ \A i \in Came : i \in Nat /\ i <= readTo
      BY <2>1, CameGrows
    <3> QED
      BY <1>0, <2>n, <3>1
  <2>3. /\ Status(channel[n]) \in 1..Len(history) /\ EventId(channel[n]) \in NoId..Len(log)
        /\ "loop" \in StreamSteps
    BY <1>0, <2>1, <2>m, NextMessage DEF NoId, StreamSteps
  <2>4. /\ Len(frames') = Len(frames) + 1 /\ frames'[Len(frames) + 1] = Status(channel[n])
        /\ ~Final(Status(channel[n]))
        /\ \A i \in 1..Len(frames) : frames'[i] = frames[i]
    BY <1>6, <2>1, <2>m, <2>3, FrameSent
  <2>5. Fresh \/ \E m \in Came : m < n /\ EventId(channel[m]) = lastEventId
    BY <2>1, <2>2 DEF SeenInv, EventCame
  <2>6. Served' = Served \cup {n} /\ \A i \in Served : i \in Came
    <3>1. \A i \in Came : \A m \in Came' : m < i => m \in Came
      BY <2>2
    <3>2. ASSUME NEW i \in Came PROVE i \in Served' <=> i \in Served
      BY <1>0, <2>1, <2>2, <3>1, <3>2 DEF Served
    <3>3. n \in Served'
      BY <1>0, <2>1, <2>2, <2>5 DEF Served
    <3>4. Served' \subseteq Came' /\ Served \subseteq Came
      BY DEF Served
    <3> QED
      BY <2>2, <3>2, <3>3, <3>4
  <2>7. \A i \in Served : i \in Nat /\ i < n
    BY <2>2, <2>6
  <2>8. /\ \A i \in Served : Rank(i)' = Rank(i) /\ Rank(i) \in 1..Cardinality(Served)
        /\ Rank(n)' = Cardinality(Served) + 1 /\ Cardinality(Served)' = Cardinality(Served) + 1
        /\ Cardinality(Served) \in Nat
    BY <2>6, <2>7, ServedGrows
  <2>9. /\ Len(frames) = FirstFrames + Cardinality(Served)
        /\ \A i \in Served : frames[FirstFrames + Rank(i)] = Status(channel[i])
        /\ \A i \in DOMAIN frames : ~Final(frames[i])
        /\ FirstFrames \in {0, 1}
    BY <2>1 DEF ServedInv, NothingMissed, FirstFrames
  <2>10. NothingMissed'
    <3>1. Len(frames') = FirstFrames' + Cardinality(Served)'
      BY <2>2, <2>4, <2>8, <2>9
    <3>2. ASSUME NEW i \in Served' PROVE frames'[FirstFrames' + Rank(i)'] = Status(channel[i])'
      <4>1. CASE i \in Served
        <5>1. FirstFrames + Rank(i) \in 1..Len(frames)
          BY <2>8, <2>9, <4>1
        <5> QED
          BY <1>0, <2>2, <2>4, <2>8, <2>9, <4>1, <5>1
      <4>2. CASE i = n
        BY <1>0, <2>2, <2>4, <2>8, <2>9, <4>2
      <4> QED
        BY <2>6, <3>2, <4>1, <4>2
    <3>3. DOMAIN frames' = 1..(Len(frames) + 1)
      <4>1. frames' = Append(frames, Status(Message)) /\ frames \in Seq(Versions)
        BY <2>1 DEF SendFrame, PipeInv, TypeOK
      <4> QED
        BY <4>1
    <3>4. ASSUME NEW i \in DOMAIN frames' PROVE ~Final(frames[i])'
      <4>1. ~Final(frames'[i])
        <5>1. i \in 1..Len(frames) \/ i = Len(frames) + 1
          BY <1>0, <3>3
        <5>2. CASE i \in 1..Len(frames)
          BY <1>0, <2>4, <2>9, <5>2
        <5>3. CASE i = Len(frames) + 1
          BY <2>4, <5>3
        <5> QED
          BY <5>1, <5>2, <5>3
      <4> QED
        BY <1>0, <4>1 DEF Final
    <3> QED
      BY <3>1, <3>2, <3>4 DEF NothingMissed
  <2>11. ASSUME NEW i \in 2..Len(frames') PROVE \E k \in Came' : frames'[i] = Status(channel[k])'
    <3>1. CASE i = Len(frames) + 1
      BY <1>0, <2>2, <2>4, <3>1
    <3>2. CASE i # Len(frames) + 1
      <4>1. i \in 2..Len(frames) /\ i \in 1..Len(frames)
        BY <1>0, <2>4, <3>2
      <4>2. PICK k \in Came : frames[i] = Status(channel[k])
        BY <2>1, <4>1 DEF ServedInv
      <4> QED
        BY <1>0, <2>2, <2>4, <4>1, <4>2
    <3> QED
      BY <3>1, <3>2
  <2> QED
    BY <1>1, <2>10, <2>11 DEF ServedInv
<1> QED
  BY <1>2, <1>3, <1>4, <1>5, <1>6
  DEF StreamActions, Connect, FetchFails, Drop, EndStream, Fetch, InitialFrame, SendFrame

-----------------------------------------------------------------------------
\* The two properties that need no more than these invariants.

\* The log only grows, so its order is lost, never regained.
LEMMA PipeKeepsReplayAndOrder ==
  ASSUME PipeInv, PipeInv', PipeStep, ResumeTakesReplay, OrderIsKept
  PROVE  ResumeTakesReplay' /\ OrderIsKept'
<1>1. /\ UNCHANGED <<frames, lastEventId>> /\ (Fresh' <=> Fresh)
      /\ wrong \subseteq wrong'
  BY PipeKeepsReading DEF PipeStep
<1>2. ResumeTakesReplay'
  BY <1>1 DEF ResumeTakesReplay
<1>3. /\ \A i \in DOMAIN log : log'[i] = log[i]
      /\ DOMAIN log \subseteq DOMAIN log'
  <2>1. log \in Seq(1..Len(history)) /\ (log \in Seq(1..Len(history)))'
    BY DEF PipeInv, TypeOK
  <2>2. Len(log) <= Len(log') /\ \A i \in DOMAIN log : log'[i] = log[i]
    BY DEF PipeStep
  <2>3. DOMAIN log = 1..Len(log) /\ DOMAIN log' = 1..Len(log') /\ Len(log) \in Nat /\ Len(log') \in Nat
    BY <2>1, LenProperties
  <2> QED
    BY <2>2, <2>3
<1>4. OrderIsKept'
  BY <1>1, <1>3 DEF OrderIsKept
<1> QED
  BY <1>2, <1>4

\* The event a resumed stream waits for was published before it subscribed; when it
\* comes by again, the worker has gone back.
LEMMA ResumedByReplay ==
  ASSUME PipeInv, KnownInv, SeenInv, at = "loop", seenResume, ~Fresh
  PROVE  "restart" \in wrong /\ lastEventId # InitialId
<1>0. /\ channel \in Seq(Partitions \X Nat) /\ since \in Nat /\ readTo \in Nat
      /\ readTo <= Len(channel) /\ Len(channel) \in Nat /\ DOMAIN channel = 1..Len(channel)
  <2>1. /\ channel \in Seq(Partitions \X Nat) /\ readTo \in 0..Len(channel) /\ since \in 0..readTo
    BY DEF PipeInv, TypeOK
  <2> QED
    BY <2>1, LenProperties
<1>1. PICK m \in Came : EventId(channel[m]) = lastEventId
  BY DEF SeenInv, EventCame
<1>2. /\ m \in DOMAIN channel /\ since < m /\ m \in Nat /\ OfThisLoan(channel[m])
  BY <1>0 DEF Came
<1>3. /\ channel[m] = <<Here, channel[m][2]>> /\ channel[m][2] \in Nat
  BY <1>2, MessagesHaveStatuses
<1>4. lastEventId = channel[m][2] + 1 /\ lastEventId > 0 /\ lastEventId - 1 = channel[m][2]
  BY <1>1, <1>3 DEF EventId
<1>5. PICK i \in 1..since : channel[i] = <<Here, lastEventId - 1>>
  BY <1>4 DEF KnownInv, Published
<1>6. i \in DOMAIN channel /\ i < m /\ channel[i][1] = Here /\ channel[i][2] = channel[m][2]
  BY <1>0, <1>2, <1>4, <1>5
<1>7. ~ChannelInOrder
  BY <1>2, <1>3, <1>6 DEF ChannelInOrder, OfThisLoan
<1> QED
  BY <1>4, <1>7 DEF PipeInv, InitialId

\* A resumed stream sends its frames after its event came by again.
LEMMA StreamKeepsReplay ==
  ASSUME PipeInv, StreamActions, StartInv, KnownInv, SeenInv, ResumeTakesReplay
  PROVE  ResumeTakesReplay'
<1>0. wrong \subseteq wrong'
  BY StreamFacts
<1>1. CASE Connect
  BY <1>1 DEF Connect, ResumeTakesReplay
<1>2. CASE UNCHANGED <<frames, lastEventId>>
  BY <1>0, <1>2 DEF ResumeTakesReplay, Fresh
<1>3. CASE InitialFrame
  <2>1. Fresh /\ lastEventId' = lastEventId
    BY <1>3 DEF InitialFrame, StartInv, connVars
  <2> QED
    BY <2>1 DEF ResumeTakesReplay, Fresh
<1>4. CASE Forward
  <2>1. at = "loop" /\ seenResume /\ lastEventId' = lastEventId
    BY <1>4 DEF Forward, MessageWaits, connVars
  <2> QED
    BY <1>0, <2>1, ResumedByReplay DEF ResumeTakesReplay, Fresh, InitialId
<1> QED
  BY <1>1, <1>2, <1>3, <1>4
  DEF StreamActions, FetchFails, Drop, EndStream, Fetch, Subscribe, SkipOtherLoan,
      SkipUntilResumed, clientVars, connVars

\* A message that comes behind another announces a later status, if records are in
\* order on Kafka and on the channel.
LEMMA MessagesInOrder ==
  ASSUME PipeInv, "restart" \notin wrong, \A i, j \in DOMAIN log : i < j => log[i] < log[j],
         NEW k \in DOMAIN channel, NEW n \in DOMAIN channel, k < n,
         OfThisLoan(channel[k]), OfThisLoan(channel[n])
  PROVE  Status(channel[k]) < Status(channel[n])
<1>1. channel[k][2] < channel[n][2]
  BY DEF PipeInv, ChannelInOrder, OfThisLoan
<1>2. /\ EventId(channel[k]) \in 1..Len(log) /\ EventId(channel[n]) \in 1..Len(log)
      /\ channel[k][2] \in Nat /\ channel[n][2] \in Nat
  BY MessagesHaveStatuses
<1>3. DOMAIN log = 1..Len(log)
  <2>1. log \in Seq(1..Len(history))
    BY DEF PipeInv, TypeOK
  <2> QED
    BY <2>1, LenProperties
<1>4. channel[k][2] + 1 < channel[n][2] + 1
  BY <1>1, <1>2
<1> QED
  BY <1>2, <1>3, <1>4 DEF EventId, Status

\* A frame is of a message behind those of the frames before it.
LEMMA StreamKeepsOrder ==
  ASSUME PipeInv, StreamActions, StartInv, ServedInv, OrderIsKept
  PROVE  OrderIsKept'
<1>0. /\ UNCHANGED <<history, log, channel>> /\ wrong \subseteq wrong' /\ Len(frames) \in Nat
      /\ frames \in Seq(Versions) /\ DOMAIN channel = 1..Len(channel)
      /\ readTo \in Nat /\ since \in Nat /\ Len(channel) \in Nat /\ readTo <= Len(channel)
  BY StreamFacts
<1>1. CASE Connect
  <2>1. Len(frames') = 0
    BY <1>1 DEF Connect
  <2> QED
    BY <2>1 DEF OrderIsKept
<1>2. CASE UNCHANGED frames
  BY <1>0, <1>2 DEF OrderIsKept
<1>3. CASE InitialFrame
  <2>1. frames' = <<fetched>>
    BY <1>3 DEF InitialFrame, SendFrame, StartInv
  <2>2. Len(frames') = 1
    BY <2>1
  <2> QED
    BY <2>2 DEF OrderIsKept
<1>4. CASE Forward
  <2>1. /\ MessageWaits /\ OfThisLoan(Message) /\ at = "loop"
        /\ frames' = Append(frames, Status(Message))
    BY <1>4 DEF Forward, SendFrame, MessageWaits
  <2>n. PICK n \in Nat : n = readTo + 1
    BY <1>0
  <2>m. Message = channel[n] /\ n \in DOMAIN channel
    BY <2>1, <2>n, NextMessage DEF Message
  <2>2. /\ Len(frames') = Len(frames) + 1 /\ frames'[Len(frames) + 1] = Status(channel[n])
        /\ \A i \in 1..Len(frames) : frames'[i] = frames[i]
    <3>1. Status(Message) \in Versions
      <4>1. Status(Message) \in 1..Len(history) /\ Len(history) \in 1..MaxUpdates
        BY <2>1, NextMessage DEF PipeInv, TypeOK, Versions
      <4> QED
        BY <4>1, Bounds DEF Versions
    <3> QED
      BY <1>0, <2>1, <2>m, <3>1, SeqAppend
  <2> SUFFICES ASSUME "restart" \notin wrong, \A i, j \in DOMAIN log : i < j => log[i] < log[j],
                      NEW i \in 2..Len(frames'), NEW j \in 2..Len(frames'), i < j
               PROVE  frames'[i] < frames'[j]
    BY <1>0 DEF OrderIsKept
  <2>3. i \in 1..Len(frames) /\ i \in 2..Len(frames) /\ frames'[i] = frames[i]
    BY <1>0, <2>2
  <2>4. CASE j \in 2..Len(frames)
    <3>1. frames[i] < frames[j]
      BY <2>3, <2>4 DEF OrderIsKept
    <3> QED
      BY <1>0, <2>2, <2>3, <2>4, <3>1
  <2>5. CASE j = Len(frames) + 1
    <3>1. PICK k \in Came : frames[i] = Status(channel[k])
      BY <2>1, <2>3 DEF ServedInv
    <3>2. k \in DOMAIN channel /\ k < n /\ OfThisLoan(channel[k])
      BY <1>0, <2>n DEF Came
    <3>3. Status(channel[k]) < Status(channel[n])
      BY <2>1, <2>m, <3>2, MessagesInOrder
    <3> QED
      BY <2>2, <2>3, <2>5, <3>1, <3>3
  <2> QED
    BY <1>0, <2>2, <2>4, <2>5
<1> QED
  BY <1>1, <1>2, <1>3, <1>4
  DEF StreamActions, FetchFails, Drop, EndStream, Fetch, Subscribe, SkipOtherLoan,
      SkipUntilResumed, clientVars

-----------------------------------------------------------------------------
(***************************************************************************)
(* The theorems.                                                           *)
(***************************************************************************)
StreamInv == PipeInv /\ StartInv /\ KnownInv /\ SeenInv /\ ServedInv

\* The first state.
LEMMA StreamInvInit == Init => StreamInv /\ ResumeTakesReplay /\ OrderIsKept
<1> SUFFICES ASSUME Init PROVE StreamInv /\ ResumeTakesReplay /\ OrderIsKept
  OBVIOUS
<1>1. /\ at = "closed" /\ frameId = -1 /\ lastEventId = -1 /\ seenResume = FALSE
      /\ frames = <<>> /\ DOMAIN frames = {} /\ Len(frames) = 0
  BY DEF Init, NoId
<1>2. StartInv
  BY <1>1 DEF StartInv, StartsCurrent
<1>3. KnownInv
  BY <1>1 DEF KnownInv
<1>4. SeenInv
  BY <1>1 DEF SeenInv
<1>5. ServedInv
  BY <1>1 DEF ServedInv, NothingMissed
<1>6. ResumeTakesReplay
  BY <1>1 DEF ResumeTakesReplay
<1>7. OrderIsKept
  BY <1>1 DEF OrderIsKept
<1> QED
  BY PipeInvInit, <1>2, <1>3, <1>4, <1>5, <1>6, <1>7 DEF StreamInv

\* A step of either kind keeps the invariants.
LEMMA StreamInvNext == StreamInv /\ [Next]_vars => StreamInv'
<1> SUFFICES ASSUME StreamInv, [Next]_vars PROVE StreamInv'
  OBVIOUS
<1>1. PipeInv'
  BY PipeInvNext DEF StreamInv
<1>2. CASE PipeStep
  BY <1>1, <1>2, PipeKeepsStart, PipeKeepsKnown, PipeKeepsSeen, PipeKeepsServed DEF StreamInv
<1>3. CASE StreamActions
  BY <1>1, <1>3, StreamKeepsStart, StreamKeepsKnown, StreamKeepsSeen, StreamKeepsServed DEF StreamInv
<1> QED
  BY <1>2, <1>3, TwoKindsOfSteps DEF StreamInv

\* A step of either kind keeps the two that rest on the invariants.
LEMMA ReplayAndOrderNext ==
  StreamInv /\ StreamInv' /\ [Next]_vars /\ ResumeTakesReplay /\ OrderIsKept
    => ResumeTakesReplay' /\ OrderIsKept'
<1> SUFFICES ASSUME StreamInv, StreamInv', [Next]_vars, ResumeTakesReplay, OrderIsKept
             PROVE  ResumeTakesReplay' /\ OrderIsKept'
  OBVIOUS
<1>1. CASE PipeStep
  BY <1>1, PipeKeepsReplayAndOrder DEF StreamInv
<1>2. CASE StreamActions
  BY <1>2, StreamKeepsReplay, StreamKeepsOrder DEF StreamInv
<1> QED
  BY <1>1, <1>2, TwoKindsOfSteps DEF StreamInv

\* The invariants hold in every reachable state.
LEMMA StreamInvariant == Spec => []StreamInv
BY StreamInvInit, StreamInvNext, PTL DEF Spec

\* Every reachable state of the event stream, of the channel it follows and of the
\* outbox behind it is of the types they are declared with (event_stream, sse.py).
THEOREM TypeCorrect == Spec => []TypeOK
<1>1. StreamInv => TypeOK
  BY DEF StreamInv, PipeInv
<1> QED
  BY <1>1, StreamInvariant, PTL

\* event_stream reads the loan again after the ownership check and sends what it read
\* before it subscribes: a client that names no event is up to date with the moment
\* it asked, however the loan moves on meanwhile.
THEOREM FreshStartsCurrent == Spec => []StartsCurrent
<1>1. StreamInv => StartsCurrent
  BY DEF StreamInv, StartInv
<1> QED
  BY <1>1, StreamInvariant, PTL

\* The loop of event_stream forwards each message of the loan once and in the order
\* of the channel, and nothing else: for any number of statuses, of other loans'
\* records between them, of copies and replays, and of reconnections.
THEOREM NothingIsMissed == Spec => []NothingMissed
<1>1. StreamInv => NothingMissed
  BY DEF StreamInv, ServedInv
<1> QED
  BY <1>1, StreamInvariant, PTL

\* seen_resume_id becomes true for a client with a Last-Event-ID only when the
\* notification worker publishes an old record again: in a stream without a replay a
\* client that reconnects gets no frame at all.
THEOREM ResumptionTakesReplay == Spec => []ResumeTakesReplay
<1>1. Spec => [](ResumeTakesReplay /\ OrderIsKept)
  BY StreamInvariant, StreamInvInit, ReplayAndOrderNext, PTL DEF Spec
<1> QED
  BY <1>1, PTL

\* With the outbox and the notification worker in order, the frames behind the first
\* are in the order of the loan's statuses: the stream itself reorders nothing.
THEOREM OrderIsKeptUnlessFaulty == Spec => []OrderIsKept
<1>1. Spec => [](ResumeTakesReplay /\ OrderIsKept)
  BY StreamInvariant, StreamInvInit, ReplayAndOrderNext, PTL DEF Spec
<1> QED
  BY <1>1, PTL

-----------------------------------------------------------------------------
\* A step of the way of an event is one of the outbox's promise and of the worker's.
LEMMA WayStep ==
  PipeInv /\ [Next]_vars => /\ [Outbox!FeedNext]_(Outbox!feedVars)
                            /\ [Worker!ChannelNext]_(Worker!channelVars)
<1> SUFFICES ASSUME PipeInv, [Next]_vars
             PROVE  /\ [Outbox!FeedNext]_(Outbox!feedVars)
                    /\ [Worker!ChannelNext]_(Worker!channelVars)
  OBVIOUS
<1>0. Here \in Partitions /\ Elsewhere \in Partitions
  BY DEF Partitions
<1>1. CASE Update
  <2>1. /\ UNCHANGED <<log, noise, cursor, kept, channel>>
        /\ Len(history) \in Nat /\ Len(history) >= 1 /\ Len(history) < MaxUpdates
        /\ Len(history') = Len(history) + 1
    <3>1. history \in Seq(LoanStatus) /\ Len(history) \in 1..MaxUpdates
      BY DEF PipeInv, TypeOK, Versions
    <3>2. PICK x : history' = Append(history, x)
      BY <1>1 DEF Update
    <3> QED
      BY <1>1, <3>1, <3>2 DEF Update, Current, channelVars
  <2>2. /\ 1..Current' = (1..Current) \cup {Len(history) + 1}
        /\ {Len(history) + 1} \cap (1..Current) = {}
        /\ {Len(history) + 1} \in SUBSET Versions
    BY <2>1, Bounds DEF Current, Versions
  <2>3. Outbox!Store({Len(history) + 1})
    BY <2>1, <2>2 DEF Outbox!Store
  <2>4. UNCHANGED Worker!channelVars
    BY <2>1 DEF Worker!channelVars
  <2> QED
    BY <2>2, <2>3, <2>4 DEF Outbox!FeedNext
<1>2. ASSUME NEW v \in Versions, OutboxAppends(v)
      PROVE  Outbox!FeedNext /\ Worker!ChannelNext
  BY <1>0, <1>2 DEF OutboxAppends, Outbox!FeedNext, Worker!ChannelNext
<1>a. ASSUME UNCHANGED <<history, log>> PROVE UNCHANGED Outbox!feedVars
  BY <1>a DEF Outbox!feedVars, Current
<1>3. CASE OtherLoanEvent
  BY <1>0, <1>3, <1>a DEF OtherLoanEvent, Worker!ChannelNext
<1>4. CASE WorkerBridges \/ WorkerSkips \/ WorkerKeeps \/ WorkerRestarts
  BY <1>4, <1>a DEF WorkerBridges, WorkerSkips, WorkerKeeps, WorkerRestarts, Worker!ChannelNext
<1>5. CASE StreamActions
  <2>1. UNCHANGED <<history, log, noise, cursor, kept, channel>>
    BY <1>5, StreamTypes, StreamKeepsPipe DEF StreamActions
  <2> QED
    BY <1>a, <2>1 DEF Worker!channelVars
<1>6. CASE UNCHANGED vars
  BY <1>6, <1>a DEF vars, pipeVars, channelVars, Worker!channelVars
<1> QED
  BY <1>1, <1>2, <1>3, <1>4, <1>5, <1>6 DEF Next, Stream, StreamActions

\* What the stream follows is what OutboxWorker and NotificationWorker are proved to
\* implement: a feed of the loan's events, whose first is stored when the stream's
\* history begins, and a channel that carries the feed on.
THEOREM EventsTravelAsPromised ==
  Spec => Worker!ChannelSpec /\ [][Outbox!FeedNext]_(Outbox!feedVars)
<1>1. Init => Worker!ChannelInit
  BY DEF Init, Worker!ChannelInit, Worker!Nowhere
<1>2. StreamInv => PipeInv
  BY DEF StreamInv
<1> QED
  BY <1>1, <1>2, StreamInvariant, WayStep, PTL DEF Spec, Worker!ChannelSpec
=============================================================================
