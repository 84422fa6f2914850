---------------------------- MODULE LoanService ----------------------------
(***************************************************************************)
(* POST /loans of the loan-application service: concurrent requests        *)
(* against one Postgres database and one Redis.                            *)
(*                                                                         *)
(* A request runs CreateLoanApplicationUseCase.execute inside the          *)
(* transaction that get_session opens; every await (a Redis command, a     *)
(* SELECT, a flush, the commit) is a step of its own, so requests          *)
(* interleave exactly where the event loop or another replica lets them.   *)
(* The loan a request creates is identified with the request: its id is a  *)
(* fresh uuid4.  A client that retries sends another request with the key  *)
(* of the first.                                                           *)
(*                                                                         *)
(* Postgres runs at its default isolation, READ COMMITTED: a SELECT sees   *)
(* the rows committed when it starts, and an INSERT that collides on a     *)
(* unique column with an uncommitted row waits for that transaction.       *)
(*                                                                         *)
(* The requirement fastapi>=0.115.0 leaves open whether get_session        *)
(* commits before the response is sent (up to 0.117) or after it (from     *)
(* 0.118): a behaviour has either order, the one its image was built with. *)
(***************************************************************************)
EXTENDS Naturals, LoanDomain, FiniteSets

CONSTANTS
  Requests,       \* POST requests, and the loans they may create
  Applicants,
  Keys,           \* values of the Idempotency-Key header, whoever sends them
  EmptyKey,       \* the header is there, with nothing in it
  NoKey,          \* the header is absent
  NoApplicant,    \* a request that has not arrived
  NoLoan,         \* Redis holds no value
  MaxFaults,      \* I/O errors per behaviour
  MaxCrashes,     \* replica crashes per behaviour
  MaxExpiries     \* TTL expiries of a Redis key per behaviour

ASSUME NoKeyAssumption == EmptyKey \notin Keys /\ NoKey \notin Keys \cup {EmptyKey}
ASSUME NoLoanAssumption == NoLoan \notin Requests
ASSUME NoApplicantAssumption == NoApplicant \notin Applicants
ASSUME BoundsAssumption == /\ MaxFaults \in Nat
                           /\ MaxCrashes \in Nat
                           /\ MaxExpiries \in Nat

Absent == "absent"

\* What a transaction may have flushed: the application row and two outbox rows.
Rows == {"loan", "submitted", "status_changed"}
EventRows == Rows \ {"loan"}

Steps == {"idle", "redis_get", "get_by_id", "check_active", "save",
          "save_submitted", "save_changed", "acquire", "commit", "respond", "done"}
Outcomes == {"pending", "accepted", "replayed", "duplicate", "error", "lost"}

VARIABLES
  pc,         \* the await each request is at
  applicant,  \* X-User-ID of the request
  key,        \* Idempotency-Key of the request
  found,      \* what Redis GET returned
  redis,      \* idempotency:{key} -> loan id
  loan,       \* loan_applications: status of each committed row, or Absent
  txn,        \* rows flushed by the request's open transaction
  outbox,     \* outbox_events: committed <<loan, event type>> rows
  outcome,    \* what the client was answered
  answered,   \* the loan named by a successful answer
  repeat,     \* history: a loan with this key was committed on arrival
  first,      \* what comes first, the commit or the response; never changes
  faults, crashes, expiries

reqVars == <<applicant, key, repeat, first>>
dbVars == <<loan, outbox>>
boundVars == <<faults, crashes, expiries>>
vars == <<pc, applicant, key, found, redis, loan, txn, outbox, outcome, answered,
          repeat, first, faults, crashes, expiries>>

TypeOK ==
  /\ pc \in [Requests -> Steps]
  /\ applicant \in [Requests -> Applicants \cup {NoApplicant}]
  /\ key \in [Requests -> Keys \cup {EmptyKey, NoKey}]
  /\ found \in [Requests -> Requests \cup {NoLoan}]
  /\ redis \in [Keys -> Requests \cup {NoLoan}]
  /\ loan \in [Requests -> LoanStatus \cup {Absent}]
  /\ txn \in [Requests -> SUBSET Rows]
  /\ outbox \in SUBSET (Requests \X EventRows)
  /\ outcome \in [Requests -> Outcomes]
  /\ answered \in [Requests -> Requests \cup {NoLoan}]
  /\ repeat \in [Requests -> BOOLEAN]
  /\ first \in {"commit", "respond"}
  /\ faults \in 0..MaxFaults
  /\ crashes \in 0..MaxCrashes
  /\ expiries \in 0..MaxExpiries

Init ==
  /\ pc = [r \in Requests |-> "idle"]
  /\ applicant = [r \in Requests |-> NoApplicant]
  /\ key = [r \in Requests |-> NoKey]
  /\ found = [r \in Requests |-> NoLoan]
  /\ redis = [k \in Keys |-> NoLoan]
  /\ loan = [r \in Requests |-> Absent]
  /\ txn = [r \in Requests |-> {}]
  /\ outbox = {}
  /\ outcome = [r \in Requests |-> "pending"]
  /\ answered = [r \in Requests |-> NoLoan]
  /\ repeat = [r \in Requests |-> FALSE]
  /\ first \in {"commit", "respond"}
  /\ faults = 0 /\ crashes = 0 /\ expiries = 0

-----------------------------------------------------------------------------
Committed == {l \in Requests : loan[l] # Absent}

\* The rows exists_active_for_applicant selects.
ActiveLoans(a) == {l \in Requests : applicant[l] = a /\ loan[l] \in ActiveStatuses}

\* Faulty: the column is not unique.
KeyTaken_NotUnique(r) == FALSE

\* UNIQUE(idempotency_key): an equal committed value is an IntegrityError, an
\* equal value in another open transaction makes the INSERT wait (NULLs differ).
KeyTaken(r) == key[r] # NoKey /\ \E l \in Committed : key[l] = key[r]
\* The insert of the key blocks while another transaction that inserted it is open.
KeyLocked(r) ==
  key[r] # NoKey /\ \E q \in Requests \ {r} : key[q] = key[r] /\ "loan" \in txn[q]

Goto(r, step) == pc' = [pc EXCEPT ![r] = step]

\* The handler's result travels back through get_session: an exception rolls
\* the transaction back, and the client gets the error.
Raise(r, result) ==
  /\ Goto(r, "done")
  /\ txn' = [txn EXCEPT ![r] = {}]
  /\ outcome' = [outcome EXCEPT ![r] = result]

-----------------------------------------------------------------------------
\* The gateway forwards a POST with X-User-ID and perhaps an Idempotency-Key, which
\* is whatever the client wrote.  An empty one is no reason to ask Redis.
Receive(r) ==
  /\ pc[r] = "idle"
  /\ \E a \in Applicants : \E k \in Keys \cup {EmptyKey, NoKey} :
       /\ applicant' = [applicant EXCEPT ![r] = a]
       /\ key' = [key EXCEPT ![r] = k]
       /\ repeat' = [repeat EXCEPT ![r] = k \in Keys /\ \E l \in Committed : key[l] = k]
       /\ Goto(r, IF k \in Keys THEN "redis_get" ELSE "check_active")
  /\ UNCHANGED <<first, found, redis, txn, outcome, answered, dbVars, boundVars>>

\* Faulty: the key is acquired at the lookup.
RedisGet_Acquires(r) ==
  /\ pc[r] = "redis_get"
  /\ found' = [found EXCEPT ![r] = redis[key[r]]]
  /\ redis' = IF redis[key[r]] = NoLoan THEN [redis EXCEPT ![key[r]] = r] ELSE redis
  /\ Goto(r, IF redis[key[r]] = NoLoan THEN "check_active" ELSE "get_by_id")
  /\ UNCHANGED <<txn, outcome, answered, reqVars, dbVars, boundVars>>

RedisGet(r) ==
  /\ pc[r] = "redis_get"
  /\ found' = [found EXCEPT ![r] = redis[key[r]]]
  /\ Goto(r, IF redis[key[r]] = NoLoan THEN "check_active" ELSE "get_by_id")
  /\ UNCHANGED <<redis, txn, outcome, answered, reqVars, dbVars, boundVars>>

\* Faulty: the stored id is believed without looking for its row.
GetByIdFound_Believed(r) ==
  /\ pc[r] = "get_by_id"
  /\ Goto(r, "done")
  /\ outcome' = [outcome EXCEPT ![r] = "replayed"]
  /\ answered' = [answered EXCEPT ![r] = found[r]]
  /\ UNCHANGED <<found, redis, txn, reqVars, dbVars, boundVars>>

\* The replay: the loan of the stored id, when its row is there, whoever asks.
GetByIdFound(r) ==
  /\ pc[r] = "get_by_id"
  /\ found[r] \in Committed
  /\ Goto(r, "done")
  /\ outcome' = [outcome EXCEPT ![r] = "replayed"]
  /\ answered' = [answered EXCEPT ![r] = found[r]]
  /\ UNCHANGED <<found, redis, txn, reqVars, dbVars, boundVars>>

\* The stored id has no row: fall through and create.
GetByIdMissing(r) ==
  /\ pc[r] = "get_by_id"
  /\ found[r] \notin Committed
  /\ Goto(r, "check_active")
  /\ UNCHANGED <<found, redis, txn, outcome, answered, reqVars, dbVars, boundVars>>

NoActive(r) ==
  /\ pc[r] = "check_active"
  /\ ActiveLoans(applicant[r]) = {}
  /\ Goto(r, "save")
  /\ UNCHANGED <<found, redis, txn, outcome, answered, reqVars, dbVars, boundVars>>

\* One active row: DuplicateActiveApplication.  Several: scalar_one_or_none
\* itself raises MultipleResultsFound.
ActiveFound(r) ==
  /\ pc[r] = "check_active"
  /\ ActiveLoans(applicant[r]) # {}
  /\ Raise(r, IF \E l \in Requests : ActiveLoans(applicant[r]) = {l}
              THEN "duplicate" ELSE "error")
  /\ UNCHANGED <<found, redis, answered, reqVars, dbVars, boundVars>>

\* INSERT of the submitted loan (flush).
Save(r) ==
  /\ pc[r] = "save"
  /\ ~KeyLocked(r)
  /\ ~KeyTaken(r)
  /\ txn' = [txn EXCEPT ![r] = @ \cup {"loan"}]
  /\ Goto(r, "save_submitted")
  /\ UNCHANGED <<found, redis, outcome, answered, reqVars, dbVars, boundVars>>

\* Faulty: the IntegrityError gets an answer of its own.
SaveConflict_Caught(r) ==
  /\ pc[r] = "save"
  /\ ~KeyLocked(r)
  /\ KeyTaken(r)
  /\ Raise(r, "conflict")
  /\ UNCHANGED <<found, redis, answered, reqVars, dbVars, boundVars>>

SaveConflict(r) ==
  /\ pc[r] = "save"
  /\ ~KeyLocked(r)
  /\ KeyTaken(r)
  /\ Raise(r, "error")
  /\ UNCHANGED <<found, redis, answered, reqVars, dbVars, boundVars>>

\* Faulty: the outbox repository commits a session of its own.
SaveSubmitted_OwnSession(r) ==
  /\ pc[r] = "save_submitted"
  /\ outbox' = outbox \cup {<<r, "submitted">>}
  /\ Goto(r, "save_changed")
  /\ UNCHANGED <<found, redis, txn, loan, outcome, answered, reqVars, boundVars>>

SaveSubmitted(r) ==
  /\ pc[r] = "save_submitted"
  /\ txn' = [txn EXCEPT ![r] = @ \cup {"submitted"}]
  /\ Goto(r, "save_changed")
  /\ UNCHANGED <<found, redis, outcome, answered, reqVars, dbVars, boundVars>>

SaveChanged(r) ==
  /\ pc[r] = "save_changed"
  /\ txn' = [txn EXCEPT ![r] = @ \cup {"status_changed"}]
  /\ Goto(r, IF key[r] \in Keys THEN "acquire" ELSE first)
  /\ UNCHANGED <<found, redis, outcome, answered, reqVars, dbVars, boundVars>>

\* Faulty: the key is never stored.
SetNX_Never(r) == redis

\* SET key loan NX; whether it was set is ignored.
SetNX(r) == IF redis[key[r]] = NoLoan THEN [redis EXCEPT ![key[r]] = r] ELSE redis

Acquire(r) ==
  /\ pc[r] = "acquire"
  /\ redis' = SetNX(r)
  /\ Goto(r, first)
  /\ UNCHANGED <<found, txn, outcome, answered, reqVars, dbVars, boundVars>>

\* All the rows of the transaction become visible at once.
ApplyTxn(r) ==
  /\ loan' = IF "loan" \in txn[r] THEN [loan EXCEPT ![r] = "SUBMITTED"] ELSE loan
  /\ outbox' = outbox \cup {<<r, e>> : e \in txn[r] \cap EventRows}
  /\ txn' = [txn EXCEPT ![r] = {}]

\* get_session resumes after its yield.
Commit(r) ==
  /\ pc[r] = "commit"
  /\ ApplyTxn(r)
  /\ Goto(r, IF first = "commit" THEN "respond" ELSE "done")
  /\ UNCHANGED <<found, redis, outcome, answered, reqVars, boundVars>>

\* 202 Accepted with the new loan.
Respond(r) ==
  /\ pc[r] = "respond"
  /\ outcome' = [outcome EXCEPT ![r] = "accepted"]
  /\ answered' = [answered EXCEPT ![r] = r]
  /\ Goto(r, IF first = "commit" THEN "done" ELSE "commit")
  /\ UNCHANGED <<found, redis, txn, reqVars, dbVars, boundVars>>

-----------------------------------------------------------------------------
\* The environment: failing I/O, crashing replicas, the TTL, the back office.

\* Faulty: what was flushed before the error is committed.
CommitUnconfirmed_Partial(r) ==
  /\ faults < MaxFaults
  /\ pc[r] \in {"save_submitted", "save_changed", "commit"}
  /\ faults' = faults + 1
  /\ ApplyTxn(r)
  /\ Goto(r, "done")
  /\ outcome' = [outcome EXCEPT ![r] = IF @ = "pending" THEN "error" ELSE @]
  /\ UNCHANGED <<found, redis, answered, reqVars, crashes, expiries>>

\* Faulty: no rollback.
Fault_KeepsTxn(r) ==
  /\ faults < MaxFaults
  /\ pc[r] \notin {"idle", "respond", "done"}
  /\ faults' = faults + 1
  /\ Goto(r, "done")
  /\ outcome' = [outcome EXCEPT ![r] = "error"]
  /\ UNCHANGED <<found, redis, txn, answered, reqVars, dbVars, crashes, expiries>>

\* An await raises.  A SET whose reply was lost may have been applied; a commit
\* that fails after the response was sent no longer reaches the client.
Fault(r) ==
  /\ faults < MaxFaults
  /\ pc[r] \notin {"idle", "respond", "done"}
  /\ faults' = faults + 1
  /\ Goto(r, "done")
  /\ txn' = [txn EXCEPT ![r] = {}]
  /\ outcome' = [outcome EXCEPT ![r] = IF @ = "pending" THEN "error" ELSE @]
  /\ redis' \in {redis} \cup (IF pc[r] = "acquire" THEN {SetNX(r)} ELSE {})
  /\ UNCHANGED <<found, answered, reqVars, dbVars, crashes, expiries>>

\* Postgres commits, but the connection breaks before it says so.
CommitUnconfirmed(r) ==
  /\ faults < MaxFaults
  /\ pc[r] = "commit"
  /\ faults' = faults + 1
  /\ ApplyTxn(r)
  /\ Goto(r, "done")
  /\ outcome' = [outcome EXCEPT ![r] = IF @ = "pending" THEN "error" ELSE @]
  /\ UNCHANGED <<found, redis, answered, reqVars, crashes, expiries>>

InFlight == {r \in Requests : pc[r] \notin {"idle", "done"}}

\* A replica dies with the requests it serves; Postgres rolls them back.
Crash ==
  /\ crashes < MaxCrashes
  /\ \E S \in SUBSET InFlight :
       /\ S # {}
       /\ pc' = [r \in Requests |-> IF r \in S THEN "done" ELSE pc[r]]
       /\ txn' = [r \in Requests |-> IF r \in S THEN {} ELSE txn[r]]
       /\ outcome' = [r \in Requests |-> IF r \in S /\ outcome[r] = "pending"
                                         THEN "lost" ELSE outcome[r]]
  /\ crashes' = crashes + 1
  /\ UNCHANGED <<found, redis, answered, reqVars, dbVars, faults, expiries>>

\* EX 86400 elapses.
Expire(k) ==
  /\ expiries < MaxExpiries
  /\ redis[k] # NoLoan
  /\ redis' = [redis EXCEPT ![k] = NoLoan]
  /\ expiries' = expiries + 1
  /\ UNCHANGED <<pc, found, txn, outcome, answered, reqVars, dbVars, faults, crashes>>

\* The later stages (not in this repository) decide a loan; SUBMITTED -> REJECTED
\* is the shortest way in VALID_TRANSITIONS out of the active statuses.
Decide(l) ==
  /\ loan[l] = "SUBMITTED"
  /\ loan' = [loan EXCEPT ![l] = "REJECTED"]
  /\ UNCHANGED <<pc, found, redis, txn, outbox, outcome, answered, reqVars, boundVars>>

Step(r) ==
  \/ RedisGet(r) \/ GetByIdFound(r) \/ GetByIdMissing(r)
  \/ NoActive(r) \/ ActiveFound(r)
  \/ Save(r) \/ SaveConflict(r) \/ SaveSubmitted(r) \/ SaveChanged(r)
  \/ Acquire(r) \/ Commit(r) \/ Respond(r)

Next ==
  \/ \E r \in Requests : Receive(r) \/ Step(r) \/ Fault(r) \/ CommitUnconfirmed(r) \/ Decide(r)
  \/ Crash
  \/ \E k \in Keys : Expire(k)

Spec == Init /\ [][Next]_vars

-----------------------------------------------------------------------------
(***************************************************************************)
(* Properties.                                                             *)
(***************************************************************************)

Successful == {r \in Requests : outcome[r] \in {"accepted", "replayed"}}

\* However many requests carry a key, at whatever points they crash, fail or
\* find the Redis key expired, at most one application with it is ever stored
\* (the check in Redis races; the unique column has the last word).
UniqueKey ==
  \A l, m \in Committed : key[l] # NoKey /\ key[l] = key[m] => l = m

\* A client was told of its own application, which is not stored.
Unkept(r) == answered[r] = r /\ r \notin Committed

\* All successful answers to requests with one key, whoever sent it, name the same
\* application: retries converge (execute: replay, guard, insert and SET NX together).
\* The one way out is an answer that went ahead of its commit (AnsweredIsStored says
\* when): the application a retry is told of then is another.
SameKeySameLoan ==
  \A r, q \in Successful :
     key[r] # NoKey /\ key[r] = key[q] =>
       answered[r] = answered[q] \/ Unkept(r) \/ Unkept(q)

\* A client that was told an id finds that application stored (the answer comes from
\* the entity in memory or from Redis and get_by_id, never from the committed row
\* itself), unless the answer precedes the commit and that one is still to come or
\* something failed.  The application is the one it asked for, or bears its key.
AnsweredIsStored ==
  \A r \in Successful :
     /\ answered[r] = r \/ (key[r] \in Keys /\ key[answered[r]] = key[r])
     /\ answered[r] \notin Committed =>
          first = "respond" /\ answered[r] = r /\ (pc[r] = "commit" \/ faults + crashes > 0)

\* Transactional outbox: an application is stored exactly when both of its
\* events are, whatever step of the request failed.
OutboxAtomic ==
  \A l \in Requests : \A e \in EventRows : l \in Committed <=> <<l, e>> \in outbox

\* Redis is written before the commit and by nobody's leave; still, unless some I/O
\* failed or a replica crashed, the id it keeps for a key is of an application that is
\* stored or being stored, and of the stored one that bears the key.
StoreAgrees ==
  faults + crashes = 0 =>
    \A k \in Keys : redis[k] # NoLoan =>
      /\ redis[k] \in Committed \cup InFlight
      /\ \A l \in Committed : key[l] = k => redis[k] = l

\* A retry sent once its application is stored is not refused as a second
\* application and does not create one: it is replayed, or it fails.
RetryReplays ==
  \A r \in Requests : repeat[r] => outcome[r] \in {"pending", "replayed", "error", "lost"}

\* Concurrency alone does not break that: as long as no I/O has failed, no replica
\* has crashed and no Redis key has expired, retries are replayed.
RetryReplaysWhenCalm == faults = 0 /\ crashes = 0 /\ expiries = 0 => RetryReplays

\* The business guard of exists_active_for_applicant: one active application
\* per applicant.
OneActivePerApplicant ==
  \A a \in Applicants : \A l, m \in ActiveLoans(a) : l = m

\* An insert that waits for a key waits for a request that is past its own insert
\* and will release the key: no two requests wait for each other, and none waits
\* for a request that is over, however it ended.
WaitsForRunner ==
  \A r, q \in Requests :
     pc[r] = "save" /\ KeyLocked(r) /\ q # r /\ key[q] = key[r] /\ "loan" \in txn[q]
       => pc[q] \notin {"idle", "save", "done"}

\* A request implements Intake, whatever it shares with others on its way: its one
\* transaction stores an application with its events under an unused key or nothing at
\* all, and an answer, from memory or through Redis, is about such an application, or
\* ahead of the commit about the one the request is storing.
Promise == INSTANCE Intake WITH
             Keys <- Keys \cup {EmptyKey}, EventTypes <- EventRows,
             stored <- Committed, events <- outbox, told <- answered
ImplementsIntake == Promise!IntakeSpec
=============================================================================
