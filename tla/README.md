# Verification of CreditGuard

TLA+ specifications of the CreditGuard back end: a gateway, an applicant service, a
loan-application service with a transactional outbox, and a notification worker, written in
Python (FastAPI, SQLAlchemy, aiokafka, redis-py) and talking to Postgres, Redis and Kafka.
Every definition is a translation of the code under `src/`; `PROJECT.json` maps each one to the
lines it stands for. TLC checks small instances. TLAPS proves every safety property that holds on
them, of every component, for all instances; liveness stays with TLC.

## 1. The system

| Component | State it keeps | Operations | Talks to |
|---|---|---|---|
| loan-application: intake (`api/routes/loans.py`, `use_cases/create_loan_application.py`, `infrastructure/persistence`, `infrastructure/redis`) | tables `loan_applications` (unique `idempotency_key`) and `outbox_events`; Redis `idempotency:{key}` with a TTL | `POST /loans`, `GET /loans/{id}` | Postgres and Redis at every `await`; called by the gateway |
| loan-application: domain (`domain/`) | status of a loan, `VALID_TRANSITIONS` | `submit`, `reject`, ... | used by the intake; the later transitions have no caller yet |
| loan-application: outbox worker (`infrastructure/kafka/producer.py`, started by `main.py`) | row status PENDING / SENT, the open transaction with its row locks | `poll_once` every 500 ms on each replica | Postgres, Kafka |
| notification worker (`services/notification`) | in-memory and committed offsets, the stop event | the consumer loop, signal handlers | Kafka in, Redis Pub/Sub out |
| gateway: SSE (`api/sse.py`) | per connection: resume state, subscription | `GET /loans/{id}/events` | REST read of the loan, Redis Pub/Sub, the browser |
| gateway: proxy (`api/proxy_router.py`, `api/routing.py`, `services/`) | none of its own; the browser's two cookies | one catch-all endpoint: match, authenticate, limit, forward, translate | all services, the limiter |
| gateway: rate limiter (`infrastructure/rate_limit.py`) | one Redis sorted set per key | `allowed` | Redis, the clock |
| applicant service (`services/applicant`) | tables `applicants` (unique e-mail), `refresh_tokens` | register, login, refresh, me | Postgres; called by the gateway |
| libs (`libs/events`, `libs/observability`) | none | schemas, logging | - |

An application travels `gateway -> intake -> (one transaction) loan + two outbox rows -> outbox
worker -> Kafka -> notification worker -> Redis channel of the applicant -> SSE -> browser`.

**What is hard here.** Requests interleave at every `await` and across replicas, with a check in
Redis, a guard that is a SELECT, and a commit in a dependency's teardown, before or after the response. The outbox worker
publishes inside a transaction that commits once per batch, so a record and the mark of its row
can part, and Postgres may undo that transaction while the publishing goes on. The notification worker's commit covers everything its iterator has passed, and a
consumer dropped from its group goes back while the loop has a record in hand. Pub/Sub
keeps nothing, so the SSE stream has to join a REST read to a subscription. Refresh tokens are
rotated by overlapping requests whose answers meet in one cookie jar. The limiter runs on several
clocks.

**What makes each part correct**

* domain: a status never recurs, money moves only after an approval, and the places that say what is
  over agree.
* intake: one application per idempotency key; successful answers with one key name one stored
  application, except for answers that went ahead of their commit; an application is stored exactly
  with its events; a retry is replayed; one active application per applicant.
* outbox: no event is lost, replicas do not share rows, an extra copy has a failure behind it,
  everything is sent in the end - together, an at-least-once feed.
* notification worker: offsets and the channel agree; losses and replays each have a cause; a
  signal is heeded - together, a channel that works partitions off in order.
* SSE: the client starts current, is sent exactly what it is owed, in order, is shown nothing after
  a decision, and does not hang.
* applicant: one account per address; rotation is atomic; refreshes that come one after the other
  exchange a string no more often than rows bear it; sessions do not disturb each other.
* limiter: the limit holds over a window of real time, and a refusal has a cause.
* proxy: the cookies stay usable and of one sign-in; budgets are shared the way `_rate_key` says.

## 2. Modules

| Module | Models | State and actions |
|---|---|---|
| `LoanDomain` | `value_objects.py`, the active statuses of the entity and of the repository, the terminal ones and the steps of the SSE stream | constants only |
| `LoanLifecycle` | the entity `LoanApplication` | `status`, whether there are `decision_reasons`, history `passed`; one action per method, all through `Transition` |
| `LoanLifecycle_proofs` | theorems about `LoanLifecycle` | - |
| `Intake` | the promise of `POST /loans`: an application and its events stored in one step, each client told once, of its own application or of the one with its key, and ahead of the commit of its own only | `Ask`, `StoreNew`, `Tell` |
| `LoanService` | `POST /loans` | `pc[r]` is the `await` a request is at. `redis`, `loan`, `outbox` are what other requests see, `txn[r]` what the request has flushed, `first` whether the commit or the response comes first. One action per `await`: `RedisGet`, `GetByIdFound/Missing`, `NoActive/ActiveFound`, `Save/SaveConflict`, `SaveSubmitted`, `SaveChanged`, `Acquire` (SET NX), `Commit`, `Respond`. Environment: `Fault`, `CommitUnconfirmed`, `Crash`, `Expire`, `Decide` |
| `LoanService_proofs` | theorems about `LoanService`, and that it implements `Intake` | - |
| `EventFeed` | the promise of the outbox: an at-least-once feed | `Store`, `Deliver`, `Retire` |
| `OutboxWorker` | `poll_once`, several replicas | `step[w]`, the rows it has `locked`, those still `todo`, those marked `sent`, whether its transaction is `aborted`; `log` is Kafka. `created` the stamps that order the rows. `Poll`, `Publish`, `Mark`, `Commit`, each with its ways to fail, `ConnectionLost` and `Crash` |
| `OutboxWorker_proofs` | theorems about `OutboxWorker`, and that it implements `EventFeed` | - |
| `StatusChannel` | the promise of the notification worker: partitions worked off in order, a place kept, restarts of some or all partitions that go back to it | `Produce`, `Bridge`, `Skip`, `Keep`, `Restart` |
| `NotificationWorker` | `main.run`, `handle_message` | `position` and `committed` per partition, `record` in hand, `channel`, whether the consumer is in its `group`. `Iterate`, `BreakLoop`, `HandleMessage(Raises)`, `Publish(Fails)`, `Commit(Refused, Fails)`, `Signal`, `Crash`, `Start`, `Lapse`, `Rejoin` |
| `NotificationWorker_proofs` | theorems about `NotificationWorker`, and that it implements `StatusChannel` | - |
| `SseStream` | `loan_events`, `event_stream`, one client, one loan, and the whole way of its events | `history` of the loan; `log`, `cursor`, `kept` and `channel` are the variables of `EventFeed` and `StatusChannel`; of the connection, how far the subscription has `readTo`, its resume state, its `frames`. `Update`, `OutboxAppends`, `OtherLoanEvent`, `WorkerBridges/Skips/Keeps/Restarts`; `Connect`, `Fetch`, `InitialFrame`, `Subscribe`, `SkipOtherLoan`, `SkipUntilResumed`, `Forward`, `FetchFails`, `Drop` |
| `SseStream_proofs` | theorems about `SseStream`, and that the way of its events is what the two workers promise | - |
| `AuthSessions` | register, login, refresh for one address | rows of `refresh_tokens`, a token string being the second it was made in and its `expires` a later reading; row locks and the unique address as guards; `first`, as in the intake; `clock`, several readings to a second |
| `AuthSessions_proofs` | theorems about `AuthSessions` | - |
| `RateLimiter` | `allowed` for one key | `zset` and its `expiry`, `reading` of each request; `Read`, `Execute` (the MULTI), `ExecuteFails`, `Tick` |
| `RateLimiter_proofs` | theorems about `RateLimiter` | - |
| `Gateway` | `proxy_endpoint`, cookies, route table | the table and the prefix match as operators; `jar` is the browser, `txn` the applicant service's transaction of a request; `Receive`, `CheckLimit`, `Forward`, `Commit`, `Respond`, `Deliver` and their failures |
| `Gateway_proofs` | theorems about `Gateway` | - |

How they fit. Each stage of the way of an event is shown to implement a small specification, and the
next stage is built on that instead of on the code:

* `LoanService` implements `Intake` (proved); `OutboxWorker` takes from it that both rows of an
  application appear at once (`OutboxAtomic`, proved).
* `OutboxWorker` implements `EventFeed` (proved): every stored event is delivered, perhaps again,
  perhaps out of turn, and after a failure even one that was retired.
* `NotificationWorker` implements `StatusChannel` (proved): a place is kept only behind what was worked
  off, and only a restart or a rejoin goes back to it.
* `SseStream` composes `EventFeed`, `StatusChannel` and the stream of the gateway: its actions
  `OutboxAppends` and `Worker...` conjoin `Outbox!Deliver` and `Worker!Produce`, `Bridge`, `Skip`,
  `Keep`, `Restart`. The loan's records are in the partition `Here`, those of the applicant's other
  loans in `Elsewhere`, and a worker that restarts goes back in both. That the composition does follow the
  two promises, and adds no step of its own to them, is proved as well (`EventsTravelAsPromised`).

`Gateway` uses `AuthSessions` reduced to tokens and the transactions that write them, and `RateLimiter` reduced to a
queue that attempts leave in order. Operators named `X_Something` with a comment that begins
"Faulty" are the broken variants of `X` that the properties are tested with.

## 3. Runs

Every configuration says `CHECK_DEADLOCK FALSE`: requests, records, time and failures are finite
in an instance, and a system in which all of them are used up rightly stops.

| Run | Instance | What it shows |
|---|---|---|
| `loan` | 3 requests, 2 applicants who may send the same key, an empty one or none, either order of commit and response, 1 I/O error, 1 crash, 1 expiry (257 761 states up to symmetry) | `UniqueKey`, `SameKeySameLoan`, `AnsweredIsStored`, `OutboxAtomic`, `StoreAgrees`, `WaitsForRunner`; retries are replayed as long as nothing fails (`RetryReplaysWhenCalm`); the service is an `Intake` (`ImplementsIntake`) |
| `loan_retry` | 3 requests, 1 crash | finding 1 |
| `loan_oneactive` | 2 requests, nothing fails | finding 2 |
| `outbox` | 2 replicas, 4 rows, those of one loan stamped before those of the other or in turn with them, batches of 2, 1 failure, 1 crash, the submission topic there or missing for good (275 637) | `SentIsPublished`, `WorkersDisjoint`, `CopiesAreExplained`, `ImplementsFeed`, `EventuallySent` |
| `outbox_order` | 1 replica, the code's LIMIT, 1 failure | finding 3 |
| `notify` | 2 partitions of 2 records, the first of one unreadable, 2 failing calls, 1 crash, 1 signal, 1 lost membership (271 067) | `LossesAreExplained`, `ReplaysAreExplained`, `EventuallyBridged`, `StopIsHeeded`, and that the worker is a `StatusChannel` (`ImplementsChannel`) |
| `notify_lost` | 2 partitions, 1 failing call | finding 4 |
| `sse` | a loan with two statuses, one event of another loan, at most three of the five faults: an event appended out of turn or again, a failed publication, a restart of the worker, a failed read, a broken connection (1 379 999) | `StartsCurrent`, `NothingMissed`, `ResumeTakesReplay`, `OrderIsKept`, `LiveUpdatesArrive` |
| `sse_late` | 3 statuses, nothing breaks | finding 5 |
| `auth` | 4 requests, 3 readings of a clock with 2 to a second, a token living 2 readings, either order of commit and response, 2 errors or crashes (2 128 486) | `RegisteredOnce`, `RotationAtomic`, `OneExchangePerRow`, `SessionsIndependent`, `EveryRequestEnds` |
| `limiter` | 4 requests, 2 replicas one tick apart, pipelines up to one tick late or lost, limit 2, window 4, 9 readings of the clock (7 962 935 up to symmetry) | `AtMostLimit`, `RefusedHadAttempts` |
| `gateway` | 3 requests, 2 applicants, sign-in, refresh, logout, profile, loans, either order of commit and response, one lost call or answer or failed commit (2 102 495 up to symmetry) | `CookieIsLive`, `OneSession`, `SharedBudgets` |

**Why the bounds are enough.** Three requests are the smallest number in which one request fails,
a second repairs and a third retries, which is what the retry and convergence properties are
about; what is proved (section 5) holds for any number. Two replicas with a backlog larger than a
batch make every pair of polls overlap; a third would only repeat the pairs. With a missing topic the two
submissions fill a batch of two, and the status changes starve behind them, as those of ten loans do
behind the code's batch of ten: `EventuallySent` says that nothing else keeps an event back. (That the stamps of one loan enclose the
other's is left to the proofs, which take any stamps.) Two records
per partition put a failure at a record and one before and behind it, two failures let a publication and
a commit fail, and a second partition is committed along. In `sse` a status and its
successor, which may be a decision, can each fall before, between and after the read and the
subscription, be copied, overtaken, lost or replayed; every three of the five faults occur together.
Four authentication requests allow register, login and two refreshes of one token, tokens of the
same and of different seconds, and one whose time is over. The limiter's nine ticks hold two whole windows,
with four requests against a limit of two. One failure or crash of each kind suffices for
every property here except those that count failures, which are stated with the counters
(`CopiesAreExplained`, `LossesAreExplained`, `ReplaysAreExplained`), so that they say the same for each
further one.

**Symmetry** is used over requests (in `loan`, applicants as well), which no definition tells apart, and
only in runs without liveness (`ImplementsIntake` of `loan` is a safety property). In `AuthSessions`,
which has liveness, the requests are numbered in the order they arrive instead.

**Fairness.** `OutboxWorker`: weak fairness of a worker's steps; `run` polls every 500 ms for as
long as the service is up, and every `await` returns or raises. `NotificationWorker`: weak fairness
of the loop and of `Start`, the restart policy of the container; a dropped consumer is not assumed to
rejoin. `SseStream`: weak fairness of
the stream together with the browser's reconnect, which an EventSource does by itself when a stream breaks; of the
outbox worker's next event, which is `EventuallySent` of `OutboxWorker` and holds while the rows of missing
topics do not fill a batch; and of the notification worker's next
record, bridged or skipped, which is `EventuallyBridged` of that worker. Nothing makes the loan change.
`AuthSessions`: weak fairness of each request's steps - a request waiting for a row lock is not enabled, so nothing is assumed
of it. No failure, crash, signal, new request or new event is ever assumed to happen.

**Commit and response.** `get_session` of both services commits after its `yield`. Up to FastAPI 0.117
that code runs before the response is sent, from 0.118 after it, and `pyproject.toml` allows both
(`>=0.115.0`, no lock file). `LoanService`, `AuthSessions` and `Gateway` therefore have a variable
`first` that is chosen in `Init` and never changes: every property of theirs is checked, and
proved, in either order. Where the order matters, the property says how: `AnsweredIsStored`,
`SessionsIndependent` and `CookieIsLive` excuse an answer ahead of a commit that is still to come or has
failed, `SameKeySameLoan` an answer whose application is not stored, and nothing else.

## 4. Where the code and its documents disagree

Each of the first five is a run that must find its property violated.

1. **A lost request spoils its idempotency key** (`loan_retry`, `RetryReplays`).
   `acquire` runs before the commit and SET NX never replaces a value. A request that dies between
   the two leaves Redis naming an application that does not exist; the next request stores
   another one, which its key never leads to, and a further retry gets
   `DuplicateActiveApplication` although the specification promises the stored answer. Without a
   failure, crash or expiry the retry is replayed (theorem `CalmRetriesReplay`).
2. **Two active applications** (`loan_oneactive`, `OneActivePerApplicant`). The guard is a SELECT
   before the INSERT without a constraint behind it. Once there are two,
   `scalar_one_or_none` raises on every later request of the applicant. Requests under way together
   are the only cause: while no applicant has two, the guard holds (theorem `GuardHoldsOneAtATime`).
3. **Status change before submission** (`outbox_order`, `SubmittedFirst`). One failed publication is
   enough. So are two replicas without any failure, when the end of one batch falls between
   the two rows of an application. One replica whose calls do not fail keeps the order, crashes or
   not (theorem `OneCalmWorkerKeepsOrder`).
4. **A failed publication is not redelivered** (`notify_lost`, `CommittedIsBridged`). The iterator
   goes on, and the next record's `commit()` covers the failed one; the comment in the loop says
   "No commit => redelivery". Where every record is readable and no call fails, nothing is lost, crashes
   or not (theorem `CalmWorkerLosesNothing`).
5. **A late subscriber can hang** (`sse_late`, `LateSubscriberSettles`). The status is read before
   the subscription; a decision published in between is in neither.

The same mechanism as in 4 makes the worker skip an unreadable record for good, where
`docs/notification-service-guide.md` (lines 1984, 2056, 2763 and 2772) has it come again for ever and
block the records N+1, N+2, ... of its partition: the iterator has moved on, and the next record that is
bridged commits the offset behind it. `EventuallyBridged` states what the code does, that the records
behind an unreadable one are bridged, which is the opposite of that passage; `LossesAreExplained` counts
the unreadable record among the lost.

Further disagreements met while modelling. The models contain the behaviour, but no run is spent
on it:

* From FastAPI 0.118 the answer precedes the commit, contrary to the order of the guides
  (`docs/loan-application-service-guide.md:2842`, `docs/applicant-service-guide.md:3760`): a 202 may name an
  application whose commit then fails, a retry is told of another one, and a browser may be
  given a refresh cookie whose row was rolled back (`first = "respond"` in three modules).
* An idempotency key is not tied to an applicant. `idempotency:{key}` has no applicant in it, and the
  replay (`create_loan_application.py:36-38`) answers without the owner check of
  `get_loan_application.py:20`: whoever sends a key another applicant has used is told of that
  applicant's application (`LoanService.Receive`, `GetByIdFound`). The guide has the client make a UUID for
  each form (`docs/loan-application-service-guide.md:3074`).
* An empty `Idempotency-Key` is stored as `''` in the unique column although Redis is not asked: from
  the second request with one on, the INSERT fails (`KeyTaken`).
* Once the Redis key has expired, the same key does not make a new application, as the guide says
  (`docs/loan-application-service-guide.md:3075`): the unique column refuses it (`SaveConflict`).
* A failed UPDATE or a lost connection aborts the batch's transaction and frees its row locks, while
  `poll_once` goes on publishing; another replica may take and publish the same rows meanwhile
  (`OutboxWorker.Abort`), where the guide has the locks held to the commit
  (`docs/loan-application-service-guide.md:2029`).
* An event of a type the registry does not know would be marked SENT, since `_publish_event` only returns; the
  guide (`docs/loan-application-service-guide.md:2083`) has it stay PENDING. The service writes no
  such row, so the models have none.
* Records are keyed by the loan (`producer.py:137`), while `services/notification/src/main.py:3` and
  `docs/notification-service-guide.md` (lines 73, 166, 654) say by the applicant and derive the order of an
  applicant's events from it. `NotificationWorker` and `SseStream` have an applicant's loans in
  several partitions.
* A row published twice carries two `event_id`s, since `_publish_event` builds a new envelope each
  time; the guide has consumers filter by `event_id` (`docs/loan-application-service-guide.md:2032`).
* A signalled notification worker on a silent topic does not stop: the stop event is looked at
  only once a record has come (`NotificationWorker.BreakLoop`; `StopIsHeeded` has that condition).
* A client that reconnects with a `Last-Event-ID` skips events until that id comes by, and
  Pub/Sub does not repeat it (`SseStream.SkipUntilResumed`): it is silent for good, not "until
  the next status change" (`docs/notification-service-guide.md:2768`). `ResumeTakesReplay` states
  it: only a restart of the notification worker that goes back far enough ever serves such a client,
  and never one whose last frame was a first frame. The liveness of `SseStream` is therefore
  about clients without a `Last-Event-ID`.
* Two overlapping refreshes with one token both succeed (`AuthSessions.Refresh`, `Update`), and a string
  made twice in one second is exchanged twice, while the guide has each token used once
  (`docs/applicant-service-guide.md:1024`); `OneExchangePerRow` says that these are the only ways. A refresh in the second of
  the login returns the same string, contrary to what
  `services/applicant/tests/integration/test_auth_flow.py:84` asserts.
* Attempts with equal clock readings are one member of the sorted set and count once; `AtMostLimit`
  therefore bounds the number of distinct readings, and says nothing of attempts that share one.
* Routes with a literal `{id}` never match: reading a loan takes the budget of the applications, and
  documents go to the loan service (`Gateway.Routes`, `Match`).
* `GET /me` is always refused with 401: the gateway strips `Authorization`, which the applicant
  service asks for (`Gateway.RewriteHeaders`, `KnowsCaller`).

## 5. Proofs

Every invariant, action property and refinement of a run that passes is stated by a theorem. Each
`X_proofs` follows one plan: the assumptions as bounds, lemmas about the operators, then layers of
invariants, each used in the induction of the next (an `...Init` and a `...Next` lemma, with a step for
every action), then the theorems.

**Intake.** `LoanService_proofs` proves, for any sets of requests, applicants and keys and any bounds on faults:
`TypeCorrect`, `OutboxIsAtomic`, `WaitersAreServed`, `KeyIsUnique`, `StoreIsFaithful`, `AnswersAreStored`,
`RetriesConverge`, `CalmRetriesReplay`, `GuardHoldsOneAtATime` and `ServiceIsAnIntake`, whoever sends a key and
in either order of commit and response. The assumptions are those `LoanService` states: the empty key and
the "none" values are no real ones, and the bounds are natural numbers.

None of the properties is inductive by itself. The invariant is built in layers, each of them used
in the induction of the next:

* `TypeInv`: the types, and that steps which use a key or a found id have one.
* `TxnInv`: what a transaction has flushed is a function of where its request is (`Flushed`). Without
  it a commit could make any set of rows visible. It gives `OutboxAtomic`, and
  `WaitsForRunner`, because a finished request has flushed nothing.
* `KeyInv`: at most one row, committed or flushed, holds a key. `UniqueKey` speaks of committed rows
  only, which two open transactions with one key would satisfy until they commit; the lock of
  the unique index excludes them. It also says that Redis and every id read from it name requests
  of that key that have arrived, which survives crashes since a crashed request keeps its key.
* `AnswerInv`: `AnsweredIsStored`, and that a request which commits first and is about to respond is
  stored. It needs `TxnInv` (what such a request has committed is the loan) and `KeyInv` (a
  replayed id is of the key). `SameKeySameLoan` follows from it and `KeyInv`.
* `CalmInv`: while nothing has failed, every flushed or committed application past `acquire` is the one
  Redis names for its key, and a retry sent after the commit is at the lookup, at the read of what it
  found, or over with a replay. While no I/O has failed and no replica has crashed, expiries or not, the id
  Redis names is stored or under way, which with `KeyInv` gives `StoreAgrees`.
* `GuardInv`: the applicant of a request that is behind the guard (`BehindGuard`) and has not committed has no
  active application. It is inductive as long as `OneAtATime` holds, which the theorem therefore takes
  as a second temporal hypothesis; an operator of the proofs, not a guard of the model.

`ServiceIsAnIntake` says that the service implements `Intake`. `Commit`,
also one the service never hears of, is `StoreNew` or a stutter: with `TxnInv` the transaction holds
an application with all its events or nothing, with `KeyInv` no stored application has its key.
`Respond` and a replay are `Tell`, with `AnswerInv` and `KeyInv`; a client is told once because, by `StageInv`, a
request that has not ended has no answer. Everything else, on Redis or in the environment, leaves
the intake unchanged.

**Outbox.** `OutboxWorker_proofs` proves, for any finite sets of applications and of replicas, any stamps, batch
size, outages and numbers of failures: `TypeCorrect`, `ReplicasAreDisjoint` (`WorkersDisjoint`),
`NoEventIsLost` (`SentIsPublished`), `CopiesAreBounded` (`CopiesAreExplained`), `OutboxIsAFeed`
(`ImplementsFeed`) and, for one replica without failures, `OneCalmWorkerKeepsOrder`. That the two
sets are finite is needed because the size of a batch and the debts of a row are cardinalities. The layers:

* `TypeInv`: the types, and that a worker which publishes or marks has a row in hand. A poll takes
  at least one row (`BatchIsNotEmpty`), and among any rows one has the oldest `created_at`
  (`OldestIsMember`, by well-foundedness of the stamps).
* `LockInv`: what a worker whose transaction stands has yet to publish or has marked is locked by it, a
  locked row is PENDING, no row is locked twice, and an aborted transaction holds no lock, has
  marked nothing, and has a failure behind it. `WorkersDisjoint` does not say what keeps a row PENDING
  until its worker commits, so it does not survive a poll by itself.
* `SentInv`: what is marked, also in a transaction that is still open, is in Kafka. `SentIsPublished`
  speaks of committed marks only, and a commit would break it.
* `PairInv`: the rows of an application are stored together.
* `CopyInv`: a row that is neither SENT nor published in a transaction that may still commit
  (`Claimed`) has no more records than something failed, one that is has at most one more, and each
  worker that lost its transaction and has yet to publish the row (`InDebt`) is counted as a copy
  already, to be paid for by the failure that aborted it. The bound alone is not inductive: it does not say
  that a row which has reached it is never published again before the next failure.
* `OrderInv`, for one replica: a status change in a worker's batch has its submission there as well or
  in Kafka; it uses that `Oldest` is the only oldest row.

The refinement maps `StoreLoan` to `Store` (with `PairInv`: neither row was stored before),
`Publish` and `PublishUnconfirmed` to `Deliver` (with `LockInv`: the row is stored, and not retired unless
the transaction is aborted, after a failure), `Commit` to `Retire` (with `SentInv`: the rows were
delivered), what fails to `Break`, everything else to a stutter.

**Notification worker.** `NotificationWorker_proofs` proves, for any finite set of partitions, any
records and unreadable ones, and any numbers of failures, crashes, signals and lost memberships:
`TypeCorrect`, `WorkerIsAChannel` (`ImplementsChannel`), `LossIsBounded`, `ReplayIsBounded` and
`CalmWorkerLosesNothing`. The partitions are finite because the losses are counted over all of them.

* `HandInv`: the record in hand is not committed yet and is the one just before the position, unless it
  is `Stale`: the consumer has gone back meanwhile, and then all positions are the committed offsets.
  With it a commit is `Keep`, a publication `Bridge`, a failed one or an unreadable record `Skip`, going
  down a `Restart` of all partitions, and a rejoin one of all but that of the record in hand, which
  follows when that record is done with.
* `LossInv`: the records dropped by the loop (`Dropped`), committed or not, are at most as many as the
  failed calls. `LossesAreExplained` speaks of committed records only, and a commit would break it.
* `ReplayInv`: a record the worker has yet to reach is on the channel at most as often as its partition
  went back, one it is done with at most once more. `Returns` counts how often that was, leaving out a
  signal not heeded yet, a membership not won back yet, and the part of a rejoin still to come.

**Stream.** `SseStream_proofs` proves, for any number of statuses (at least one, a loan has one), other
loans' records and faults: `TypeCorrect`, `FreshStartsCurrent`, `NothingIsMissed`,
`ResumptionTakesReplay`, `OrderIsKeptUnlessFaulty`, and `EventsTravelAsPromised`.

* `PipeInv`: cursors and offsets name records of the log; without a restart the channel has the
  loan's records in the order of the log, each once, all in front of the cursor.
* `StartInv`: how the frames begin, and that what was read is at least as new as what was asked.
* `KnownInv`: an event id a client knows was on the channel, and when it reconnected already was. So
  only a second publication can match it: `ResumeTakesReplay` follows with `PipeInv`.
* `SeenInv`: `seen_resume_id` says exactly that the event came since the subscription.
* `ServedInv`: `NothingMissed`, with the frames behind the first being messages that came. `NothingMissed`
  states by ranks (the n-th message served is the n-th frame) what a filter of the sequence would say,
  since a rank is a cardinality, of which the prover has lemmas, and a filter is recursive.
* `ResumeTakesReplay` and `OrderIsKept` are inductive relative to these.

**Sessions.** `AuthSessions_proofs` proves, for any numbers of requests, readings, readings to a second and
failures, any lifetime of a token and either order of commit and response: `TypeCorrect`,
`AddressIsRegisteredOnce`, `StringsAreExchangedOnce` (`OneExchangePerRow`), `RotationIsAtomic`,
`SessionsAreIndependent`.

* `PhaseInv`: what each request holds at each of its steps: its row is stored with its commit and not
  before, it is answered where `first` says, and the row it used is stored and of the string it presented.
* `AccountInv`: a registration that is behind its insert holds the lock on the address and meets no
  account; one with a token owns the account.
* `SeenInv`: the exchanges of a string that were stored when a request arrived used other rows than it
  does. So exchanges that come one after the other use different rows of the string, and there are no more of
  them than rows: `OneExchangePerRow`, an injection between finite sets.
* `RotationAtomic` is inductive relative to `PhaseInv`; `SessionsIndependent` follows from both.

**Limiter.** `RateLimiter_proofs` proves, for any replicas of which one has the clock furthest ahead, any
limit, window and delay, and whichever pipelines raise: `TypeCorrect`, `LimitHolds`, `RefusalHasCause`. A
pipeline that raised either ran (`Runs`, as one whose verdict is known) or did not (`Loses`).

* `TimeInv`: an attempt runs between its reading and `MaxDelay` later, and its reading is ahead of real
  time by no more than the furthest clock.
* `KeptInv`: the reading of an attempt of the last window less the slack is still in the sorted set, which
  has not expired: neither a later cutoff nor the TTL reaches it.
* `LimitInv`: the limit holds at every earlier moment, not only now. An attempt that is let through found
  fewer than `limit` readings, all of `KeptInv` among them.
* `CauseInv`: every member of the set is the reading of an attempt that ran.

The proof found that the window of `RefusedHadAttempts` also took in attempts that had not run
(`RanWithin` compared their unset time); it now asks that they ran.

**Gateway.** `Gateway_proofs` proves, for any offers of requests and any numbers of requests, applicants,
failures and budgets: `TypeCorrect`, `CookiesAreOfOneSession` (`OneSession`), `CookieStaysLive`
(`CookieIsLive`), `BudgetsHold` (`SharedBudgets`).

* `PhaseInv`: what a request carries at each of its steps, and how far its transaction is; only the refresh
  path presents a cookie, and a sign-in that is answered with success has a transaction, a committed one
  where commits come first.
* `JarInv`: the jar holds what a successful answer set, and both cookies of it.
* `LiveInv`: a revoked token has a successor, whoever asked for it, and the jar has moved on from a token
  once the answer to the request that presented it has arrived.
* `BudgetInv`: every attempt in the window of a key counts for that key, by the route table
  (`Match`, `RateKey`), and those let through are within its limit.

**Life of an application.** `LoanLifecycle_proofs` has no parameters and no assumptions. One order carries it: each move of
`VALID_TRANSITIONS` goes to a status of higher `Rank` (lemma `Moves`). `NoReturn` is not inductive,
since it says nothing of the order of the statuses passed; `RankInv`, that all of them are of a lower
rank, is. `PaidOnlyIfApproved` needs what lies `Behind` every status, not only behind the last ones.
`AllAgreeOnTheEnd` compares the four lists of statuses and the two tables of steps that three
files keep. (`LoanLifecycle` has no run: it has thirteen states.)

Only model-checked: liveness, since fairness and ENABLED are out of the prover's reach. That is
`EventuallySent`, `EventuallyBridged`, `StopIsHeeded`, `LiveUpdatesArrive` and `EveryRequestEnds`. What the
proofs give of them is that nobody waits in a circle in the intake (`WaitersAreServed`).

**What the proofs assume** is what the modules state as `ASSUME`, which TLC evaluates on every run. Beyond
numbers being natural numbers and the "none" values not being real ones: `LoansAssumption`,
`WorkersAssumption` and `PartitionsAssumption` (finitely many rows, replicas and partitions),
`StampingsAssumption` (rows have different stamps, a submission before its status change),
`LimitAssumption` (a batch takes a row), `PerSecondAssumption` (a second has a reading),
`AheadAssumption` (of the replicas' clocks one is furthest ahead), `OffersAssumption` (a request is a method
and a path), `UpdatesAssumption` (the loan has a status).

## 6. Not modelled

* The 400, 502 and 503 answers of the proxy for malformed requests and unconfigured services, and the
  wording and headers of answers; the SSE heartbeat and the Origin check: they change no state.
* Hashing and signatures. `AuthSessions` uses only that a hash verifies its own string and that a
  signature is deterministic.
* `SQLAlchemyProcessedEventRepository`, `get_pending`, `mark_sent`, `get_by_idempotency_key`,
  `get_by_hash`, `revoke_all_for_applicant`, `monthly_payment`: nothing calls them.
* The 404 of a stream for a loan that is not the caller's or cannot be read: it changes nothing. The
  end of the access token during a stream, which the code does not look at.
* Logging, correlation ids, migrations other than their unique constraints, containers.
* Several notification workers that share the partitions: the deployment has one. That it is dropped from
  its group and joins again is modelled.
* Retries of the limiter's MULTI inside redis-py: the client is made by `from_url` without a retry policy
  (`gateway/src/infrastructure/redis.py:13`), and is taken to have none. (One that ran
  a pipeline again would find the attempt's own entry in the count.)
* Postgres's deadlock detection: no request holds a lock when it begins to wait for one.
* The document, underwriting and disbursement services: the repository has their
  specification only. Their effect on a loan is `LoanService.Decide` and `SseStream.Update`.

## 7. Plan

Done: the modules above; the promises `Intake`, `EventFeed` and `StatusChannel`, with the stream composed
over the last two; the proofs of all safety properties and of all three refinements.

Next, in this order:

1. Consequences of the promises alone, proved of `Intake`, `EventFeed` and `StatusChannel`: a client is
   told once and only of what is stored; what is retired was delivered; what is kept was bridged or
   skipped. Each would then hold of its implementation by the refinement.
2. The safety half of the liveness properties: that `EveryRequestEnds` has no circle of waiting
   (row locks of `AuthSessions`), as `WaitersAreServed` shows of the intake.
3. Shared lemmas: `OutboxWorker_proofs`, `RateLimiter_proofs` and `Gateway_proofs` each count with
   cardinalities of growing sets.
