---------------------------- MODULE OutboxWorker ----------------------------
(***************************************************************************)
(* The OutboxWorker of the loan-application service: one asyncio task per  *)
(* replica that moves rows of outbox_events to Kafka.                      *)
(*                                                                         *)
(* poll_once is one transaction.  It locks the oldest PENDING rows that no *)
(* other worker has locked, publishes them one after the other, marks each *)
(* published row SENT inside the transaction, and commits once at the end. *)
(* An exception while publishing or marking is logged and the loop goes on *)
(* with the next row.  A transaction in which a statement failed, or whose *)
(* connection was lost, is aborted: Postgres undoes it and frees its row   *)
(* locks at once, refuses every later statement and turns its COMMIT into  *)
(* a ROLLBACK, while the publishing, which is not part of it, goes on with *)
(* rows another replica may lock by then.                                  *)
(*                                                                         *)
(* Requests store the two rows of an application at once (see LoanService, *)
(* OutboxAtomic).  Each row was stamped when its event was made, before    *)
(* the commit: the stamps of concurrent requests interleave, and rows may  *)
(* become visible in another order than that of their stamps.              *)
(***************************************************************************)
EXTENDS Naturals, Sequences, FiniteSets

CONSTANTS
  Loans,        \* applications
  Workers,      \* one per replica of the service
  BatchLimit,   \* LIMIT of the poll (10 in the code)
  Stampings,    \* the orders of created_at the rows may have got, as [Rows -> Nat]
  Outages,      \* the sets of event types whose topics may be missing for good
  MaxFaults,    \* failing statements and publications per behaviour
  MaxCrashes    \* crashes and shutdowns of a replica per behaviour

ASSUME LoansAssumption == IsFiniteSet(Loans)
ASSUME WorkersAssumption == IsFiniteSet(Workers)
ASSUME LimitAssumption == BatchLimit \in Nat \ {0}
ASSUME BoundsAssumption == MaxFaults \in Nat /\ MaxCrashes \in Nat

EventTypes == {"submitted", "status_changed"}
Rows == Loans \X EventTypes

ASSUME OutagesAssumption == Outages \subseteq SUBSET EventTypes

\* The two events of a request are stamped one after the other.  Rows with equal stamps
\* come in either order, and each order is a stamping of its own.
ASSUME StampingsAssumption ==
  \A stamp \in Stampings :
    /\ stamp \in [Rows -> Nat]
    /\ \A x, y \in Rows : stamp[x] = stamp[y] => x = y
    /\ \A l \in Loans : stamp[<<l, "submitted">>] < stamp[<<l, "status_changed">>]

VARIABLES
  status,    \* outbox_events.status of each row, "absent" before its commit
  created,   \* outbox_events.created_at of each row, set before its commit
  step,      \* where each worker is
  locked,    \* rows the worker's open transaction holds FOR UPDATE
  todo,      \* rows of the batch the loop has yet to reach
  sent,      \* rows marked SENT by the open transaction
  aborted,   \* the transaction of the batch was aborted
  log,       \* Kafka: the rows whose records were appended, in that order
  missing,   \* event types whose topic refuses every publication
  faults, crashes

workerVars == <<step, locked, todo, sent, aborted>>
vars == <<status, created, step, locked, todo, sent, aborted, log, missing, faults, crashes>>

RowStatus == {"absent", "PENDING", "SENT"}
WorkerSteps == {"sleep", "publish", "mark", "commit"}

TypeOK ==
  /\ status \in [Rows -> RowStatus]
  /\ created \in Stampings
  /\ step \in [Workers -> WorkerSteps]
  /\ locked \in [Workers -> SUBSET Rows]
  /\ todo \in [Workers -> SUBSET Rows]
  /\ sent \in [Workers -> SUBSET Rows]
  /\ aborted \in [Workers -> BOOLEAN]
  /\ log \in Seq(Rows)
  /\ missing \in Outages
  /\ faults \in 0..MaxFaults
  /\ crashes \in 0..MaxCrashes

Init ==
  /\ status = [row \in Rows |-> "absent"]
  /\ created \in Stampings
  /\ step = [w \in Workers |-> "sleep"]
  /\ locked = [w \in Workers |-> {}]
  /\ todo = [w \in Workers |-> {}]
  /\ sent = [w \in Workers |-> {}]
  /\ aborted = [w \in Workers |-> FALSE]
  /\ log = <<>>
  /\ missing \in Outages
  /\ faults = 0 /\ crashes = 0

-----------------------------------------------------------------------------
Older(x, y) == created[x] < created[y]

Oldest(S) == CHOOSE x \in S : \A y \in S \ {x} : Older(x, y)

\* ORDER BY created_at LIMIT BatchLimit.
IsBatch(T, S) ==
  /\ \A x \in T : \A y \in S \ T : Older(x, y)
  /\ Cardinality(T) = IF Cardinality(S) < BatchLimit THEN Cardinality(S) ELSE BatchLimit

\* Faulty: no FOR UPDATE.
Selectable_NoLock == {row \in Rows : status[row] = "PENDING"}

\* FOR UPDATE SKIP LOCKED.
Selectable == {row \in Rows : /\ status[row] = "PENDING"
                              /\ \A w \in Workers : row \notin locked[w]}

Published == {log[i] : i \in DOMAIN log}

\* Faulty: the session is not closed, its transaction stays open.
Release_KeepsLocks(w) ==
  /\ step' = [step EXCEPT ![w] = "sleep"]
  /\ todo' = [todo EXCEPT ![w] = {}]
  /\ sent' = [sent EXCEPT ![w] = {}]
  /\ aborted' = [aborted EXCEPT ![w] = FALSE]
  /\ UNCHANGED locked

\* The transaction of w is over: its locks go, and the loop sleeps.
Release(w) ==
  /\ step' = [step EXCEPT ![w] = "sleep"]
  /\ locked' = [locked EXCEPT ![w] = {}]
  /\ todo' = [todo EXCEPT ![w] = {}]
  /\ sent' = [sent EXCEPT ![w] = {}]
  /\ aborted' = [aborted EXCEPT ![w] = FALSE]

\* Postgres undoes the transaction of w and frees its locks; the loop knows nothing of it.
Abort(w) ==
  /\ locked' = [locked EXCEPT ![w] = {}]
  /\ sent' = [sent EXCEPT ![w] = {}]
  /\ aborted' = [aborted EXCEPT ![w] = TRUE]

\* The for loop goes on with the next row, or leaves for the commit.
NextRow(w) ==
  /\ todo' = [todo EXCEPT ![w] = @ \ {Oldest(@)}]
  /\ step' = [step EXCEPT ![w] = IF todo[w] = {Oldest(todo[w])} THEN "commit" ELSE "publish"]

-----------------------------------------------------------------------------
\* A request commits: both events of its application become visible.
StoreLoan(l) ==
  /\ status[<<l, "submitted">>] = "absent"
  /\ status' = [row \in Rows |-> IF row[1] = l THEN "PENDING" ELSE status[row]]
  /\ UNCHANGED <<workerVars, created, log, faults, crashes, missing>>

\* The SELECT of poll_once.  With no row to take, the poll changes nothing.
Poll(w) ==
  /\ step[w] = "sleep"
  /\ Selectable # {}
  /\ \E T \in SUBSET Selectable :
       /\ IsBatch(T, Selectable)
       /\ locked' = [locked EXCEPT ![w] = T]
       /\ todo' = [todo EXCEPT ![w] = T]
  /\ step' = [step EXCEPT ![w] = "publish"]
  /\ UNCHANGED <<status, created, sent, aborted, log, faults, crashes, missing>>

\* _publish_event returns: the broker has acknowledged the record.  (It returns without
\* publishing for a type EVENT_SCHEMAS does not have; execute writes only the two it has.)
Publish(w) ==
  /\ step[w] = "publish"
  /\ Oldest(todo[w])[2] \notin missing
  /\ log' = Append(log, Oldest(todo[w]))
  /\ step' = [step EXCEPT ![w] = "mark"]
  /\ UNCHANGED <<status, created, locked, todo, sent, aborted, faults, crashes, missing>>

\* _publish_event raises: logged, and the loop goes on.
PublishRefused(w) ==
  /\ step[w] = "publish"
  /\ Oldest(todo[w])[2] \in missing
  /\ NextRow(w)
  /\ UNCHANGED <<status, created, locked, sent, aborted, log, faults, crashes, missing>>

\* Faulty: the exception is swallowed in _publish_event, the row is marked.
PublishFails_Swallowed(w) ==
  /\ faults < MaxFaults
  /\ step[w] = "publish"
  /\ step' = [step EXCEPT ![w] = "mark"]
  /\ faults' = faults + 1
  /\ UNCHANGED <<status, created, locked, todo, sent, aborted, log, crashes, missing>>

PublishFails(w) ==
  /\ faults < MaxFaults
  /\ step[w] = "publish"
  /\ NextRow(w)
  /\ faults' = faults + 1
  /\ UNCHANGED <<status, created, locked, sent, aborted, log, crashes, missing>>

\* The record is appended, but the acknowledgement does not come back in time.
PublishUnconfirmed(w) ==
  /\ faults < MaxFaults
  /\ step[w] = "publish"
  /\ Oldest(todo[w])[2] \notin missing
  /\ log' = Append(log, Oldest(todo[w]))
  /\ NextRow(w)
  /\ faults' = faults + 1
  /\ UNCHANGED <<status, created, locked, sent, aborted, crashes, missing>>

\* UPDATE ... SET status = 'SENT'; in an aborted transaction it raises.
Mark(w) ==
  /\ step[w] = "mark"
  /\ sent' = [sent EXCEPT ![w] = IF aborted[w] THEN @ ELSE @ \cup {Oldest(todo[w])}]
  /\ NextRow(w)
  /\ UNCHANGED <<status, created, locked, aborted, log, faults, crashes, missing>>

\* The UPDATE raises: logged, and the loop goes on, with a transaction that is undone.
MarkFails(w) ==
  /\ faults < MaxFaults
  /\ step[w] = "mark"
  /\ Abort(w)
  /\ NextRow(w)
  /\ faults' = faults + 1
  /\ UNCHANGED <<status, created, log, crashes, missing>>

\* The connection to Postgres is lost while the loop is busy with Kafka.
ConnectionLost(w) ==
  /\ faults < MaxFaults
  /\ step[w] \in {"publish", "mark"}
  /\ Abort(w)
  /\ faults' = faults + 1
  /\ UNCHANGED <<status, created, step, todo, log, crashes, missing>>

\* Faulty: every row of the batch.
ToSend_WholeBatch(w) == locked[w]

\* Faulty: the session is closed without its commit.
ToSend_Nothing(w) == {}

\* The rows whose UPDATE the COMMIT makes durable: none in an aborted transaction.
ToSend(w) == sent[w]

\* Faulty: a status the poll does not know.
SentStatus_Misspelt == "PUBLISHED"

SentStatus == "SENT"

CommitRows(S) == status' = [row \in Rows |-> IF row \in S THEN SentStatus ELSE status[row]]

\* The one commit of poll_once.
Commit(w) ==
  /\ step[w] = "commit"
  /\ CommitRows(ToSend(w))
  /\ Release(w)
  /\ UNCHANGED <<created, log, faults, crashes, missing>>

\* The commit raises, whether Postgres made it or not: run logs it and polls again.
CommitFails(w) ==
  /\ faults < MaxFaults
  /\ step[w] = "commit"
  /\ \E S \in {{}, ToSend(w)} : CommitRows(S)
  /\ Release(w)
  /\ faults' = faults + 1
  /\ UNCHANGED <<created, log, crashes, missing>>

\* The replica dies, or the lifespan cancels the task on shutdown; when it is up
\* again the lifespan starts a worker that polls from the table.
Crash(w) ==
  /\ crashes < MaxCrashes
  /\ step[w] # "sleep"
  /\ Release(w)
  /\ crashes' = crashes + 1
  /\ UNCHANGED <<status, created, log, faults, missing>>

Work(w) == Poll(w) \/ Publish(w) \/ PublishRefused(w) \/ Mark(w) \/ Commit(w)

Fail(w) ==
  \/ PublishFails(w) \/ PublishUnconfirmed(w) \/ MarkFails(w) \/ ConnectionLost(w)
  \/ CommitFails(w) \/ Crash(w)

Next ==
  \/ \E l \in Loans : StoreLoan(l)
  \/ \E w \in Workers : Work(w) \/ Fail(w)

\* run: every 500 ms, for as long as the service is up.
Fairness == \A w \in Workers : WF_vars(Work(w))

Spec == Init /\ [][Next]_vars
FairSpec == Spec /\ Fairness

-----------------------------------------------------------------------------
(***************************************************************************)
(* Properties.                                                             *)
(***************************************************************************)

\* No event is lost: whatever fails between publishing, marking and the commit,
\* a row is recorded as SENT only if its record is in the topic.
SentIsPublished == \A row \in Rows : status[row] = "SENT" => row \in Published

\* Replicas whose transactions stand never work on the same row (FOR UPDATE SKIP LOCKED
\* held to the commit), whatever those do that lost theirs.
WorkersDisjoint ==
  \A v, w \in Workers :
    v # w /\ ~aborted[v] /\ ~aborted[w] =>
      (todo[v] \cup sent[v]) \cap (todo[w] \cup sent[w]) = {}

Copies(row) == Cardinality({i \in DOMAIN log : log[i] = row})

\* A consumer sees an event again only if something failed: each failure or crash
\* costs a row at most one extra copy, replicas alone cost none.
CopiesAreExplained == \A row \in Rows : Copies(row) <= 1 + faults + crashes

\* The rows no poll can get rid of.
Stuck == {row \in Rows : status[row] = "PENDING" /\ row[2] \in missing}

\* A stored event whose topic is there is eventually published and marked, unless rows
\* of missing topics come to fill a batch: these are never marked, and while they are
\* the oldest a poll may take nothing else.
EventuallySent ==
  \A row \in Rows :
    row[2] \notin missing =>
      (status[row] = "PENDING"
         ~> status[row] = "SENT" \/ Cardinality(Stuck) >= BatchLimit)

\* The loop implements the at-least-once feed its consumers rely on: it publishes
\* only stored rows, one whose SENT is committed only if something failed (a replica
\* that lost its transaction goes on with its batch), and commits SENT only for rows
\* it published.
Feed == INSTANCE EventFeed WITH
          stored <- {row \in Rows : status[row] # "absent"},
          delivered <- log,
          retired <- {row \in Rows : status[row] = "SENT"},
          broken <- faults > 0
ImplementsFeed == Feed!FeedSpec

\* The status change of an application follows its submission into Kafka.
SubmittedFirst ==
  \A l \in Loans : <<l, "status_changed">> \in Published => <<l, "submitted">> \in Published
=============================================================================
