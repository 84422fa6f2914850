----------------------------- MODULE SseStream -----------------------------
(***************************************************************************)
(* One client that follows one loan through the gateway's event stream,    *)
(* with everything a status change passes on its way to it.                *)
(*                                                                         *)
(* A status change is committed with an outbox event; the outbox worker    *)
(* appends the event to Kafka at least once, in any order (EventFeed); the *)
(* notification worker copies the records to the applicant's Redis channel *)
(* (StatusChannel), between those of the applicant's other loans.          *)
(* event_stream reads the current status over REST, sends it as the first  *)
(* frame, subscribes, and forwards what the channel brings.  Pub/Sub keeps *)
(* nothing: what was published before the subscription is not delivered.   *)
(*                                                                         *)
(* The statuses of the loan are numbered; the event that announces the     *)
(* n-th has the number n.  Each append to Kafka makes a new envelope with  *)
(* a new event id, so the id of a record is its place in the partition.    *)
(* The browser is an EventSource: when the stream breaks it connects again *)
(* with the id of the last frame it got, and it closes the stream once it  *)
(* was shown a final status.                                               *)
(***************************************************************************)
EXTENDS LoanDomain, Integers, Sequences, FiniteSets

CONSTANTS
  Here,         \* the partition of this loan's records
  Elsewhere,    \* the partition of the applicant's other loans
  MaxUpdates,   \* statuses of the loan
  MaxNoise,     \* records of the applicant's other loans
  MaxFaults     \* how many of the Faults there are, each once

ASSUME PartitionsAssumption == Here # Elsewhere
ASSUME BoundsAssumption == {MaxNoise, MaxFaults} \subseteq Nat
ASSUME UpdatesAssumption == MaxUpdates \in Nat \ {0}   \* the loan has a status

VARIABLES
  history,     \* the statuses the loan has had, the current one last
  log,         \* Kafka: the numbers of the events in the loan's partition
  noise,       \* Kafka: how many records the other loans have
  cursor, kept, channel,   \* the notification worker (StatusChannel)
  at,          \* where event_stream is
  lastEventId, \* the Last-Event-ID header of this connection
  fetched,     \* the status REST returned (its number)
  readTo,      \* how much of the channel the subscription has read
  seenResume,  \* seen_resume_id
  frames,      \* statuses sent on this connection
  shown,       \* all statuses the client was ever shown
  frameId,     \* id of the last frame the client got
  since,       \* history: how much of the channel preceded the subscription
  asked,       \* history: the status of the loan when this client connected
  wrong        \* history: what has gone wrong

channelVars == <<cursor, kept, channel>>
pipeVars == <<history, log, noise, channelVars>>
clientVars == <<frames, shown, frameId>>
connVars == <<lastEventId, since, asked>>
streamVars == <<at, fetched, readTo, seenResume, clientVars, connVars>>
vars == <<pipeVars, streamVars, wrong>>

Partitions == {Here, Elsewhere}
Versions == 1..MaxUpdates

NoId == -1        \* no Last-Event-ID
InitialId == 0    \* the id initial-<uuid4> of a first frame

\* Faulty: the event id is that of the outbox row.
EventId_OfRow(message) == log[message[2] + 1]

\* What a message of the channel carries: event_id and new_status.
EventId(message) == message[2] + 1
Status(message) == log[message[2] + 1]

\* An event is appended to Kafka out of turn or again; the notification worker fails
\* to publish a record, or restarts; a REST read gets no 200; the connection breaks.
Faults == {"append", "publish", "restart", "fetch", "connection"}

StreamSteps == {"closed", "fetch", "initial", "subscribe", "loop", "finished"}

TypeOK ==
  /\ history \in Seq(LoanStatus) /\ Len(history) \in Versions
  /\ log \in Seq(1..Len(history)) /\ noise \in 0..MaxNoise
  /\ cursor \in [Partitions -> Nat] /\ kept \in [Partitions -> Nat]
  /\ channel \in Seq(Partitions \X Nat)
  /\ at \in StreamSteps
  /\ lastEventId \in NoId..Len(log) /\ frameId \in NoId..Len(log)
  /\ fetched \in 0..Len(history) /\ asked \in 0..Len(history)
  /\ since \in 0..readTo /\ readTo \in 0..Len(channel)
  /\ seenResume \in BOOLEAN
  /\ frames \in Seq(Versions) /\ shown \subseteq Versions
  /\ wrong \subseteq Faults

Init ==
  /\ history = <<"SUBMITTED">>
  /\ log = <<>> /\ noise = 0
  /\ cursor = [p \in Partitions |-> 0] /\ kept = cursor /\ channel = <<>>
  /\ at = "closed"
  /\ lastEventId = NoId
  /\ fetched = 0 /\ readTo = 0
  /\ seenResume = FALSE
  /\ frames = <<>> /\ shown = {} /\ frameId = NoId
  /\ since = 0 /\ asked = 0
  /\ wrong = {}

-----------------------------------------------------------------------------
Current == Len(history)
Final(v) == history[v] \in TerminalStatuses

\* The marks of the outbox rows are left to OutboxWorker: here no event is ever retired,
\* and none needs a broken outbox to be delivered again.
Outbox == INSTANCE EventFeed
          WITH Rows <- Versions, stored <- 1..Current, delivered <- log, retired <- {},
               broken <- FALSE

Worker == INSTANCE StatusChannel
          WITH produced <- [p \in Partitions |-> IF p = Here THEN Len(log) ELSE noise]

-----------------------------------------------------------------------------
\* The way of an event to the channel.

\* Faulty: a status outside the enumeration.
NextStatuses_Unknown == {"CANCELLED"}

NextStatuses == {s \in LoanStatus : <<history[Current], s>> \in VALID_TRANSITIONS}

\* The later stages change the status of the loan, with an event in the outbox.
Update ==
  /\ Current < MaxUpdates
  /\ \E s \in NextStatuses : history' = Append(history, s)
  /\ UNCHANGED <<log, noise, channelVars, streamVars, wrong>>

\* One more thing goes wrong.
GoesWrong(fault) ==
  /\ fault \notin wrong /\ Cardinality(wrong) < MaxFaults
  /\ wrong' = wrong \cup {fault}

\* The oldest event that has not been appended.
NextEvent == CHOOSE v \in 1..(MaxUpdates + 1) :
               v \notin Outbox!Delivered /\ 1..(v - 1) \subseteq Outbox!Delivered

\* The outbox worker appends an event to Kafka; out of turn when it failed on an
\* earlier one or a second replica was faster, and perhaps once more.
OutboxAppends(v) ==
  /\ IF v = NextEvent THEN UNCHANGED wrong ELSE GoesWrong("append")
  /\ UNCHANGED <<history, noise, streamVars>>
  /\ Outbox!Deliver(v)
  /\ Worker!Produce(Here)

\* A status change of another loan of the applicant (an earlier one would be on the
\* channel before this subscription).
OtherLoanEvent ==
  /\ noise < MaxNoise
  /\ at = "loop"
  /\ noise' = noise + 1
  /\ UNCHANGED <<history, log, streamVars, wrong>>
  /\ Worker!Produce(Elsewhere)

\* The notification worker publishes a record, ...
WorkerBridges ==
  /\ UNCHANGED <<history, log, noise, streamVars, wrong>>
  /\ \E p \in Partitions : Worker!Bridge(p)

\* ... fails to, ...
WorkerSkips ==
  /\ GoesWrong("publish")
  /\ UNCHANGED <<history, log, noise, streamVars>>
  /\ \E p \in Partitions : Worker!Skip(p)

\* ... commits its offsets (which shows only if it may still restart), ...
WorkerKeeps ==
  /\ Cardinality(wrong) < MaxFaults
  /\ UNCHANGED <<history, log, noise, streamVars, wrong>>
  /\ Worker!Keep

\* ... and begins again at the committed ones, started anew or back in its group.
WorkerRestarts ==
  /\ kept # cursor
  /\ GoesWrong("restart")
  /\ UNCHANGED <<history, log, noise, streamVars>>
  /\ \E S \in SUBSET Partitions : Worker!Restart(S)

-----------------------------------------------------------------------------
\* event_stream.

\* The next message get_message returns; the channel is the applicant's.
MessageWaits == at = "loop" /\ readTo < Len(channel)
Message == channel[readTo + 1]
OfThisLoan(message) == message[1] = Here

\* Sends a frame.  The browser closes the stream once it shows a final status; the
\* handler leaves its loop after a final status too.
SendFrame(v, id, next) ==
  /\ frames' = Append(frames, v)
  /\ shown' = shown \cup {v}
  /\ frameId' = id
  /\ at' = IF Final(v) THEN "finished" ELSE next

\* loan_events: the ownership check reads the loan once, then the stream starts.  (A
\* check that gets no 200 is answered 404, after which an EventSource does not reconnect:
\* that client is shown nothing more, and is not followed here.)
Connect ==
  /\ at = "closed"
  /\ at' = "fetch"
  /\ lastEventId' = frameId
  /\ asked' = Current
  /\ frames' = <<>>
  /\ UNCHANGED <<pipeVars, fetched, readTo, seenResume, shown, frameId, since, wrong>>

\* Faulty: the status of the last event published.
RestStatus_LastEvent ==
  LET own == SelectSeq(channel, OfThisLoan)
  IN  IF own = <<>> THEN 1 ELSE Status(own[Len(own)])

\* What GET /loans/{id} returns.
RestStatus == Current

\* event_stream reads the loan again.
Fetch ==
  /\ at = "fetch"
  /\ fetched' = RestStatus
  /\ at' = IF lastEventId = NoId THEN "initial" ELSE "subscribe"
  /\ UNCHANGED <<pipeVars, readTo, seenResume, clientVars, connVars, wrong>>

\* The generator is over: the finally block drops the subscription.
EndStream ==
  /\ at' = "closed"
  /\ fetched' = 0 /\ readTo' = 0 /\ since' = 0 /\ seenResume' = FALSE /\ asked' = 0
  /\ UNCHANGED <<pipeVars, lastEventId, clientVars>>

\* No loan: the stream ends without a frame.
FetchFails ==
  /\ at = "fetch"
  /\ GoesWrong("fetch")
  /\ EndStream

InitialFrame ==
  /\ at = "initial"
  /\ SendFrame(fetched, InitialId, "subscribe")
  /\ UNCHANGED <<pipeVars, fetched, readTo, seenResume, connVars, wrong>>

\* Faulty: a fresh client waits for a resume id too.
ResumedFromStart_Never == FALSE

ResumedFromStart == lastEventId = NoId

\* What is on the channel by now does not reach this subscription.
Subscribe ==
  /\ at = "subscribe"
  /\ at' = "loop"
  /\ since' = Len(channel)
  /\ readTo' = Len(channel)
  /\ seenResume' = ResumedFromStart
  /\ fetched' = 0 /\ asked' = 0
  /\ UNCHANGED <<pipeVars, lastEventId, clientVars, wrong>>

\* Faulty: everything that has come so far is skipped.
SkipOtherLoan_Flush ==
  /\ MessageWaits
  /\ ~OfThisLoan(Message)
  /\ readTo' = Len(channel)
  /\ UNCHANGED <<pipeVars, at, fetched, seenResume, clientVars, connVars, wrong>>

\* A message about some other loan.
SkipOtherLoan ==
  /\ MessageWaits
  /\ ~OfThisLoan(Message)
  /\ readTo' = readTo + 1
  /\ UNCHANGED <<pipeVars, at, fetched, seenResume, clientVars, connVars, wrong>>

\* Until the event with the resume id has gone by, events are skipped.
SkipUntilResumed ==
  /\ MessageWaits
  /\ OfThisLoan(Message)
  /\ ~seenResume
  /\ seenResume' = (EventId(Message) = lastEventId)
  /\ readTo' = readTo + 1
  /\ UNCHANGED <<pipeVars, at, fetched, clientVars, connVars, wrong>>

\* Faulty: the message is not taken off the subscription.
Forward_Again ==
  /\ MessageWaits
  /\ OfThisLoan(Message)
  /\ seenResume
  /\ SendFrame(Status(Message), EventId(Message), "loop")
  /\ UNCHANGED <<pipeVars, fetched, readTo, seenResume, connVars, wrong>>

Forward ==
  /\ MessageWaits
  /\ OfThisLoan(Message)
  /\ seenResume
  /\ SendFrame(Status(Message), EventId(Message), "loop")
  /\ readTo' = readTo + 1
  /\ UNCHANGED <<pipeVars, fetched, seenResume, connVars, wrong>>

\* The connection breaks.
Drop ==
  /\ at \notin {"closed", "finished"}
  /\ GoesWrong("connection")
  /\ EndStream

Stream ==
  \/ Fetch \/ InitialFrame \/ Subscribe
  \/ SkipOtherLoan \/ SkipUntilResumed \/ Forward

\* A client that was shown a decision is gone, and the instance ends.
Next ==
  /\ at # "finished"
  /\ \/ Update
     \/ \E v \in Versions : OutboxAppends(v)
     \/ OtherLoanEvent
     \/ WorkerBridges \/ WorkerSkips \/ WorkerKeeps \/ WorkerRestarts
     \/ Connect \/ FetchFails \/ Drop
     \/ Stream

\* The event loop runs the stream, the EventSource reconnects, the outbox worker gets
\* to every event (OutboxWorker, EventuallySent: as long as rows of missing topics do not
\* fill its batch of ten) and the notification worker to every record (NotificationWorker,
\* EventuallyBridged).  Nothing makes the loan change.
Fairness ==
  /\ WF_vars(Stream \/ Connect)
  /\ WF_vars(OutboxAppends(NextEvent))
  /\ WF_vars(WorkerBridges \/ WorkerSkips)

Spec == Init /\ [][Next]_vars
FairSpec == Spec /\ Fairness

-----------------------------------------------------------------------------
(***************************************************************************)
(* Properties.                                                             *)
(***************************************************************************)

Fresh == lastEventId = NoId

\* A client without a Last-Event-ID is up to date with the moment it asked: when
\* it subscribes it was shown the status of that moment, or a later one.
StartsCurrent ==
  at = "subscribe" /\ Fresh => \E v \in shown : v >= asked

\* The places on the channel of this loan's messages among those the subscription has
\* read, and of those a client is served: all, or those behind its event.
Came == {i \in (since + 1)..readTo : OfThisLoan(channel[i])}
Served ==
  {i \in Came : Fresh \/ \E m \in Came : m < i /\ EventId(channel[m]) = lastEventId}
Rank(i) == Cardinality({j \in Served : j <= i})
FirstFrames == IF Fresh THEN 1 ELSE 0

\* An open stream has passed on, in their order, exactly the loan's messages that
\* came since it subscribed - for a client that resumes, those behind the event it
\* names - whatever other loans, copies and replays came between; and no decision.
NothingMissed ==
  at = "loop" =>
    /\ Len(frames) = FirstFrames + Cardinality(Served)
    /\ \A i \in Served : frames[FirstFrames + Rank(i)] = Status(channel[i])
    /\ \A i \in DOMAIN frames : ~Final(frames[i])

\* A client that reconnects is served only if the worker has gone back in its
\* partition: nothing else ever repeats the event it waits for, a second copy of
\* the outbox worker included; and the id of a first frame never comes at all.
ResumeTakesReplay ==
  ~Fresh /\ frames # <<>> => "restart" \in wrong /\ lastEventId # InitialId

\* While the outbox has neither repeated an event nor let one overtake another and
\* the notification worker has not gone back, a stream shows the statuses that follow
\* its first frame in the order in which the loan had them.
OrderIsKept ==
  /\ "restart" \notin wrong
  /\ \A i, j \in DOMAIN log : i < j => log[i] < log[j]
  => \A i, j \in 2..Len(frames) : i < j => frames[i] < frames[j]

\* The worker has passed a record of the event by.
GivenUp(v) ==
  \E o \in 0..(cursor[Here] - 1) :
    log[o + 1] = v /\ \A i \in DOMAIN channel : channel[i] # <<Here, o>>

\* What a fresh client has yet to be shown: the statuses whose events were not on the
\* channel before it subscribed, wherever on their way they are.
Owed ==
  {v \in 1..Current :
     /\ v \notin shown /\ ~GivenUp(v)
     /\ \A i \in 1..since : OfThisLoan(channel[i]) => Status(channel[i]) # v}

\* A fresh client that stays subscribed is shown, again and again, all it is owed:
\* no event stays on its way for ever, however the outbox and the notification worker
\* fail on others, repeat or restart.
LiveUpdatesArrive == at = "loop" /\ Fresh ~> Owed = {} \/ at \in {"closed", "finished"}

\* A client that opens the stream does not hang: when the loan is decided it
\* learns so.
LateSubscriberSettles ==
  Final(Current) /\ at # "closed" ~> at \in {"finished", "closed"}
=============================================================================

