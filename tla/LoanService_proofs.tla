------------------------ MODULE LoanService_proofs ------------------------
(***************************************************************************)
(* Proofs about LoanService, for any number of requests, applicants and    *)
(* keys and any bounds on the faults.                                      *)
(*                                                                         *)
(* The argument goes in layers, each invariant using those before it:      *)
(*   TypeInv    TypeOK, and the steps that talk to Redis have a key        *)
(*   TxnInv     what a transaction has flushed is determined by where its  *)
(*              request stands, and a request that has not arrived has     *)
(*              stored nothing;  this gives OutboxAtomic                   *)
(*   KeyInv     at most one open or committed row holds a key, and Redis   *)
(*              only names rows of its own key;  this gives UniqueKey      *)
(*   CalmInv    until something fails, Redis only names holders of a key;   *)
(*              until the key expires either, whoever holds a key and is   *)
(*              past acquire is the one Redis names, and a retry of a      *)
(*              stored application is on the way of a replay;  this gives  *)
(*              StoreAgrees and RetryReplaysWhenCalm                       *)
(*   GuardInv   (if an applicant's requests come one at a time) one that   *)
(*              is past the guard still is the only one;  this gives       *)
(*              OneActivePerApplicant                                      *)
(*   AnswerInv  a request that responds after its commit is stored, and    *)
(*              AnsweredIsStored;  with KeyInv it gives SameKeySameLoan    *)
(*   StageInv   where a request stands tells what it has done;  with       *)
(*              AnswerInv it gives ImplementsIntake                        *)
(***************************************************************************)
EXTENDS LoanService, TLAPS

KeyedSteps ==
  \A r \in Requests :
    /\ pc[r] \in {"redis_get", "get_by_id", "acquire"} => key[r] \in Keys
    /\ pc[r] = "get_by_id" => found[r] \in Requests

TypeInv == TypeOK /\ KeyedSteps

\* The transaction of a request that stands at the given step.
Flushed(step) ==
  {row \in Rows : \/ step = "save_submitted" /\ row = "loan"
                  \/ step = "save_changed" /\ row # "status_changed"
                  \/ step \in {"acquire", "commit"}
                  \/ step = "respond" /\ first = "respond"}

TxnInv ==
  /\ \A r \in Requests : txn[r] = Flushed(pc[r])
  /\ \A r \in Requests : pc[r] = "idle" => loan[r] = Absent
  /\ OutboxAtomic

\* The rows that hold a key: committed, or flushed by an open transaction.
Holds(r) == loan[r] # Absent \/ "loan" \in txn[r]

KeyInv ==
  /\ \A l, m \in Requests :
       Holds(l) /\ Holds(m) /\ key[l] # NoKey /\ key[l] = key[m] => l = m
  /\ \A k \in Keys : redis[k] # NoLoan => key[redis[k]] = k /\ pc[redis[k]] # "idle"
  /\ \A r \in Requests :
       pc[r] = "get_by_id" => key[found[r]] = key[r] /\ pc[found[r]] # "idle"

AnswerInv ==
  /\ \A r \in Requests : pc[r] = "idle" => outcome[r] = "pending"
  /\ \A r \in Requests : pc[r] = "respond" /\ first = "commit" => r \in Committed
  /\ AnsweredIsStored

-----------------------------------------------------------------------------
\* Nothing has been stored before the first request: every variable has its type.
LEMMA TypeInvInit == Init => TypeInv
BY BoundsAssumption
   DEF Init, TypeInv, TypeOK, KeyedSteps, Steps, Outcomes, Absent

\* No step of create_loan, nor a fault, takes a variable out of its type.
LEMMA TypeInvNext == TypeInv /\ [Next]_vars => TypeInv'
<1> SUFFICES ASSUME TypeInv, [Next]_vars PROVE TypeInv'
  OBVIOUS
<1> USE DEF TypeInv, TypeOK, KeyedSteps, Steps, Outcomes, Rows, EventRows, Goto, Raise,
            SetNX, ApplyTxn, LoanStatus, reqVars, dbVars, boundVars
<1>1. ASSUME NEW r \in Requests, Receive(r) PROVE TypeInv'
  BY <1>1 DEF Receive
<1>2. ASSUME NEW r \in Requests, RedisGet(r) PROVE TypeInv'
  BY <1>2 DEF RedisGet
<1>3. ASSUME NEW r \in Requests, GetByIdFound(r) PROVE TypeInv'
  BY <1>3 DEF GetByIdFound
<1>4. ASSUME NEW r \in Requests, GetByIdMissing(r) PROVE TypeInv'
  BY <1>4 DEF GetByIdMissing
<1>5. ASSUME NEW r \in Requests, NoActive(r) PROVE TypeInv'
  BY <1>5 DEF NoActive
<1>6. ASSUME NEW r \in Requests, ActiveFound(r) PROVE TypeInv'
  BY <1>6 DEF ActiveFound
<1>7. ASSUME NEW r \in Requests, Save(r) PROVE TypeInv'
  BY <1>7 DEF Save
<1>8. ASSUME NEW r \in Requests, SaveConflict(r) PROVE TypeInv'
  BY <1>8 DEF SaveConflict
<1>9. ASSUME NEW r \in Requests, SaveSubmitted(r) PROVE TypeInv'
  BY <1>9 DEF SaveSubmitted
<1>10. ASSUME NEW r \in Requests, SaveChanged(r) PROVE TypeInv'
  BY <1>10 DEF SaveChanged
<1>11. ASSUME NEW r \in Requests, Acquire(r) PROVE TypeInv'
  BY <1>11 DEF Acquire
<1>12. ASSUME NEW r \in Requests, Commit(r) PROVE TypeInv'
  BY <1>12 DEF Commit
<1>13. ASSUME NEW r \in Requests, Respond(r) PROVE TypeInv'
  BY <1>13 DEF Respond
<1>14. ASSUME NEW r \in Requests, Fault(r) PROVE TypeInv'
  BY <1>14, BoundsAssumption DEF Fault
<1>15. ASSUME NEW r \in Requests, CommitUnconfirmed(r) PROVE TypeInv'
  BY <1>15, BoundsAssumption DEF CommitUnconfirmed
<1>16. ASSUME NEW r \in Requests, Decide(r) PROVE TypeInv'
  BY <1>16 DEF Decide
<1>17. ASSUME Crash PROVE TypeInv'
  BY <1>17, BoundsAssumption DEF Crash, InFlight
<1>18. ASSUME NEW k \in Keys, Expire(k) PROVE TypeInv'
  BY <1>18, BoundsAssumption DEF Expire
<1>19. CASE UNCHANGED vars
  BY <1>19 DEF vars
<1> QED
  BY <1>1, <1>2, <1>3, <1>4, <1>5, <1>6, <1>7, <1>8, <1>9, <1>10,
     <1>11, <1>12, <1>13, <1>14, <1>15, <1>16, <1>17, <1>18, <1>19
  DEF Next, Step

\* Every reachable state is well typed: no request reaches Redis without a key,
\* and a client only ever sees one of the six outcomes.
THEOREM TypeCorrect == Spec => []TypeOK
<1>1. TypeInv => TypeOK
  BY DEF TypeInv
<1> QED
  BY <1>1, TypeInvInit, TypeInvNext, PTL DEF Spec

-----------------------------------------------------------------------------
\* Before the first request no transaction has written anything.
LEMMA TxnInvInit == Init => TxnInv
BY DEF Init, TxnInv, Flushed, OutboxAtomic, Committed

\* A loan row and its two outbox rows are flushed in one order and become visible
\* together, whatever step is taken.
LEMMA TxnInvNext == TypeInv /\ TxnInv /\ [Next]_vars => TxnInv'
<1> SUFFICES ASSUME TypeInv, TxnInv, [Next]_vars PROVE TxnInv'
  OBVIOUS
<1> USE DEF TypeInv, TypeOK, Steps, TxnInv, Flushed, OutboxAtomic, Committed, Rows, EventRows,
        Goto, Raise, ApplyTxn, LoanStatus, Absent, reqVars, dbVars, boundVars
<1>1. ASSUME NEW r \in Requests, Receive(r) PROVE TxnInv'
  BY <1>1 DEF Receive
<1>2. ASSUME NEW r \in Requests, RedisGet(r) PROVE TxnInv'
  BY <1>2 DEF RedisGet
<1>3. ASSUME NEW r \in Requests, GetByIdFound(r) PROVE TxnInv'
  BY <1>3 DEF GetByIdFound
<1>4. ASSUME NEW r \in Requests, GetByIdMissing(r) PROVE TxnInv'
  BY <1>4 DEF GetByIdMissing
<1>5. ASSUME NEW r \in Requests, NoActive(r) PROVE TxnInv'
  BY <1>5 DEF NoActive
<1>6. ASSUME NEW r \in Requests, ActiveFound(r) PROVE TxnInv'
  BY <1>6 DEF ActiveFound
<1>7. ASSUME NEW r \in Requests, Save(r) PROVE TxnInv'
  BY <1>7 DEF Save
<1>8. ASSUME NEW r \in Requests, SaveConflict(r) PROVE TxnInv'
  BY <1>8 DEF SaveConflict
<1>9. ASSUME NEW r \in Requests, SaveSubmitted(r) PROVE TxnInv'
  BY <1>9 DEF SaveSubmitted
<1>10. ASSUME NEW r \in Requests, SaveChanged(r) PROVE TxnInv'
  BY <1>10 DEF SaveChanged
<1>11. ASSUME NEW r \in Requests, Acquire(r) PROVE TxnInv'
  BY <1>11 DEF Acquire
<1>12. ASSUME NEW r \in Requests, Commit(r) PROVE TxnInv'
  BY <1>12 DEF Commit
<1>13. ASSUME NEW r \in Requests, Respond(r) PROVE TxnInv'
  BY <1>13 DEF Respond
<1>14. ASSUME NEW r \in Requests, Fault(r) PROVE TxnInv'
  BY <1>14 DEF Fault
<1>15. ASSUME NEW r \in Requests, CommitUnconfirmed(r) PROVE TxnInv'
  BY <1>15 DEF CommitUnconfirmed
<1>16. ASSUME NEW r \in Requests, Decide(r) PROVE TxnInv'
  BY <1>16 DEF Decide
<1>17. ASSUME Crash PROVE TxnInv'
  <2>1. PICK S \in SUBSET InFlight :
          /\ pc' = [r \in Requests |-> IF r \in S THEN "done" ELSE pc[r]]
          /\ txn' = [r \in Requests |-> IF r \in S THEN {} ELSE txn[r]]
    BY <1>17 DEF Crash
  <2>2. loan' = loan /\ outbox' = outbox /\ first' = first
    BY <1>17 DEF Crash
  <2>3. ASSUME NEW r \in Requests PROVE txn'[r] = Flushed(pc[r])'
    BY <2>1, <2>2
  <2>4. ASSUME NEW r \in Requests, pc'[r] = "idle" PROVE loan'[r] = Absent
    BY <2>1, <2>2, <2>4
  <2> QED
    BY <2>2, <2>3, <2>4
<1>18. ASSUME NEW k \in Keys, Expire(k) PROVE TxnInv'
  BY <1>18 DEF Expire
<1>19. CASE UNCHANGED vars
  BY <1>19 DEF vars
<1> QED
  BY <1>1, <1>2, <1>3, <1>4, <1>5, <1>6, <1>7, <1>8, <1>9, <1>10,
     <1>11, <1>12, <1>13, <1>14, <1>15, <1>16, <1>17, <1>18, <1>19
  DEF Next, Step

\* The outbox is atomic: whatever step of a request fails or crashes, an
\* application is stored exactly when both of its events are.
THEOREM OutboxIsAtomic == Spec => []OutboxAtomic
<1>1. TxnInv => OutboxAtomic
  BY DEF TxnInv
<1> QED
  BY <1>1, TypeInvInit, TypeInvNext, TxnInvInit, TxnInvNext, PTL DEF Spec

\* Nobody waits for a waiter: the request that holds an idempotency key has its
\* insert behind it and is not over.
THEOREM WaitersAreServed == Spec => []WaitsForRunner
<1>1. TxnInv => WaitsForRunner
  BY DEF TxnInv, Flushed, WaitsForRunner
<1> QED
  BY <1>1, TypeInvInit, TypeInvNext, TxnInvInit, TxnInvNext, PTL DEF Spec

-----------------------------------------------------------------------------
\* Before the first request no row and no Redis key holds an idempotency key.
LEMMA KeyInvInit == Init => KeyInv
BY NoKeyAssumption DEF Init, KeyInv, Holds

\* The unique index admits one writer per key, and SETNX stores the loan of a
\* request that carries the key: every step keeps this.
LEMMA KeyInvNext == TypeInv /\ TxnInv /\ KeyInv /\ [Next]_vars => KeyInv'
<1> SUFFICES ASSUME TypeInv, TxnInv, KeyInv, [Next]_vars PROVE KeyInv'
  OBVIOUS
<1> USE NoKeyAssumption, NoLoanAssumption
    DEF TypeInv, TypeOK, KeyedSteps, Steps, KeyInv, Holds, Committed, Rows, Goto, Raise, ApplyTxn, LoanStatus, Absent, reqVars, dbVars, boundVars
<1>1. ASSUME NEW r \in Requests, Receive(r) PROVE KeyInv'
  BY <1>1 DEF Receive, TxnInv, Flushed
<1>2. ASSUME NEW r \in Requests, RedisGet(r) PROVE KeyInv'
  BY <1>2 DEF RedisGet
<1>3. ASSUME NEW r \in Requests, GetByIdFound(r) PROVE KeyInv'
  BY <1>3 DEF GetByIdFound
<1>4. ASSUME NEW r \in Requests, GetByIdMissing(r) PROVE KeyInv'
  BY <1>4 DEF GetByIdMissing
<1>5. ASSUME NEW r \in Requests, NoActive(r) PROVE KeyInv'
  BY <1>5 DEF NoActive
<1>6. ASSUME NEW r \in Requests, ActiveFound(r) PROVE KeyInv'
  BY <1>6 DEF ActiveFound
<1>7. ASSUME NEW r \in Requests, Save(r) PROVE KeyInv'
  BY <1>7 DEF Save, KeyLocked, KeyTaken
<1>8. ASSUME NEW r \in Requests, SaveConflict(r) PROVE KeyInv'
  BY <1>8 DEF SaveConflict
<1>9. ASSUME NEW r \in Requests, SaveSubmitted(r) PROVE KeyInv'
  BY <1>9 DEF SaveSubmitted
<1>10. ASSUME NEW r \in Requests, SaveChanged(r) PROVE KeyInv'
  BY <1>10 DEF SaveChanged
<1>11. ASSUME NEW r \in Requests, Acquire(r) PROVE KeyInv'
  BY <1>11 DEF Acquire, SetNX
<1>12. ASSUME NEW r \in Requests, Commit(r) PROVE KeyInv'
  BY <1>12 DEF Commit
<1>13. ASSUME NEW r \in Requests, Respond(r) PROVE KeyInv'
  BY <1>13 DEF Respond
<1>14. ASSUME NEW r \in Requests, Fault(r) PROVE KeyInv'
  BY <1>14 DEF Fault, SetNX
<1>15. ASSUME NEW r \in Requests, CommitUnconfirmed(r) PROVE KeyInv'
  BY <1>15 DEF CommitUnconfirmed
<1>16. ASSUME NEW r \in Requests, Decide(r) PROVE KeyInv'
  BY <1>16 DEF Decide
<1>17. ASSUME Crash PROVE KeyInv'
  BY <1>17 DEF Crash, InFlight
<1>18. ASSUME NEW k \in Keys, Expire(k) PROVE KeyInv'
  BY <1>18 DEF Expire
<1>19. CASE UNCHANGED vars
  BY <1>19 DEF vars
<1> QED
  BY <1>1, <1>2, <1>3, <1>4, <1>5, <1>6, <1>7, <1>8, <1>9, <1>10,
     <1>11, <1>12, <1>13, <1>14, <1>15, <1>16, <1>17, <1>18, <1>19
  DEF Next, Step

\* However requests interleave, crash, fail or outlive the Redis key, no two
\* stored applications share an idempotency key.
THEOREM KeyIsUnique == Spec => []UniqueKey
<1>1. KeyInv => UniqueKey
  BY DEF KeyInv, UniqueKey, Holds, Committed
<1> QED
  BY <1>1, TypeInvInit, TypeInvNext, TxnInvInit, TxnInvNext, KeyInvInit, KeyInvNext,
     PTL DEF Spec

-----------------------------------------------------------------------------
Unfailed == faults = 0 /\ crashes = 0
Calm == Unfailed /\ expiries = 0

\* Only Redis may still lack the key of a request that stands at these.
BeforeAcquire == {"save_submitted", "save_changed", "acquire"}

CalmInv ==
  /\ \A r \in Requests : pc[r] = "idle" => outcome[r] = "pending"
  /\ \A l \in Committed : pc[l] = "done" \/ (pc[l] = "respond" /\ first = "commit")
  /\ \A r \in Requests : repeat[r] => /\ pc[r] # "idle"
                                      /\ \E l \in Committed : key[l] = key[r] /\ key[l] \in Keys
  /\ Unfailed => \A k \in Keys : redis[k] # NoLoan => Holds(redis[k])
  /\ Calm =>
       /\ \A l \in Requests : Holds(l) /\ key[l] \in Keys /\ pc[l] \notin BeforeAcquire
                                => redis[key[l]] = l
       /\ \A r \in Requests : repeat[r] =>
            /\ pc[r] \in {"redis_get", "get_by_id", "done"}
            /\ pc[r] = "get_by_id" => found[r] \in Committed
            /\ outcome[r] \in {"pending", "replayed"}

\* Before the first request Redis is empty.
LEMMA CalmInvInit == Init => CalmInv
BY DEF Init, CalmInv, Committed, Holds

\* The holder of a key gives it to Redis before it commits, and keeps it for good
\* unless something fails: a retry that comes after the commit finds both.
LEMMA CalmInvNext == TypeInv /\ TxnInv /\ KeyInv /\ CalmInv /\ [Next]_vars => CalmInv'
<1> SUFFICES ASSUME TypeInv, TxnInv, KeyInv, CalmInv, [Next]_vars PROVE CalmInv'
  OBVIOUS
<1>a. faults \in Nat /\ crashes \in Nat /\ expiries \in Nat
  BY BoundsAssumption DEF TypeInv, TypeOK
<1> USE NoKeyAssumption, NoLoanAssumption
    DEF TypeInv, TypeOK, KeyedSteps, Steps, CalmInv, Unfailed, Calm, BeforeAcquire, Holds, Committed, Rows,
        Goto, Raise, ApplyTxn, LoanStatus, Absent, reqVars, dbVars, boundVars
<1>1. ASSUME NEW r \in Requests, Receive(r) PROVE CalmInv'
  BY <1>1 DEF Receive, TxnInv, Flushed
<1>2. ASSUME NEW r \in Requests, RedisGet(r) PROVE CalmInv'
  BY <1>2 DEF RedisGet
<1>3. ASSUME NEW r \in Requests, GetByIdFound(r) PROVE CalmInv'
  BY <1>3 DEF GetByIdFound
<1>4. ASSUME NEW r \in Requests, GetByIdMissing(r) PROVE CalmInv'
  BY <1>4 DEF GetByIdMissing
<1>5. ASSUME NEW r \in Requests, NoActive(r) PROVE CalmInv'
  BY <1>5 DEF NoActive
<1>6. ASSUME NEW r \in Requests, ActiveFound(r) PROVE CalmInv'
  BY <1>6 DEF ActiveFound, TxnInv, Flushed
<1>7. ASSUME NEW r \in Requests, Save(r) PROVE CalmInv'
  BY <1>7 DEF Save, TxnInv, Flushed
<1>8. ASSUME NEW r \in Requests, SaveConflict(r) PROVE CalmInv'
  BY <1>8 DEF SaveConflict, TxnInv, Flushed
<1>9. ASSUME NEW r \in Requests, SaveSubmitted(r) PROVE CalmInv'
  BY <1>9 DEF SaveSubmitted, TxnInv, Flushed
<1>10. ASSUME NEW r \in Requests, SaveChanged(r) PROVE CalmInv'
  BY <1>10 DEF SaveChanged, TxnInv, Flushed
<1>11. ASSUME NEW r \in Requests, Acquire(r) PROVE CalmInv'
  BY <1>11 DEF Acquire, SetNX, TxnInv, Flushed, KeyInv
<1>12. ASSUME NEW r \in Requests, Commit(r) PROVE CalmInv'
  BY <1>12 DEF Commit, TxnInv, Flushed
<1>13. ASSUME NEW r \in Requests, Respond(r) PROVE CalmInv'
  BY <1>13 DEF Respond, TxnInv, Flushed
<1>14. ASSUME NEW r \in Requests, Fault(r) PROVE CalmInv'
  BY <1>14, <1>a DEF Fault, SetNX
<1>15. ASSUME NEW r \in Requests, CommitUnconfirmed(r) PROVE CalmInv'
  BY <1>15, <1>a DEF CommitUnconfirmed, TxnInv, Flushed
<1>16. ASSUME NEW r \in Requests, Decide(r) PROVE CalmInv'
  BY <1>16 DEF Decide
<1>17. ASSUME Crash PROVE CalmInv'
  BY <1>17, <1>a DEF Crash, InFlight
<1>18. ASSUME NEW k \in Keys, Expire(k) PROVE CalmInv'
  BY <1>18, <1>a DEF Expire
<1>19. CASE UNCHANGED vars
  BY <1>19 DEF vars
<1> QED
  BY <1>1, <1>2, <1>3, <1>4, <1>5, <1>6, <1>7, <1>8, <1>9, <1>10,
     <1>11, <1>12, <1>13, <1>14, <1>15, <1>16, <1>17, <1>18, <1>19
  DEF Next, Step

\* Redis and the table agree: unless some I/O fails or a replica crashes, the id stored for
\* a key is of an application that is stored or under way, and of no other than the one
\* stored with the key, however requests race and whenever the Redis key expires.
THEOREM StoreIsFaithful == Spec => []StoreAgrees
<1>1. TypeInv /\ TxnInv /\ KeyInv /\ CalmInv => StoreAgrees
  <2> SUFFICES ASSUME TypeInv, TxnInv, KeyInv, CalmInv, faults + crashes = 0,
                      NEW k \in Keys, redis[k] # NoLoan
               PROVE  /\ redis[k] \in Committed \cup InFlight
                      /\ \A l \in Committed : key[l] = k => redis[k] = l
    BY DEF StoreAgrees
  <2>1. redis[k] \in Requests /\ key[redis[k]] = k /\ k # NoKey
    BY NoKeyAssumption DEF TypeInv, TypeOK, KeyInv
  <2>2. faults = 0 /\ crashes = 0
    BY BoundsAssumption DEF TypeInv, TypeOK
  <2>3. Holds(redis[k])
    BY <2>2 DEF CalmInv, Unfailed
  <2>4. redis[k] \in Committed \cup InFlight
    BY <2>1, <2>3 DEF Holds, Committed, InFlight, TxnInv, Flushed
  <2>5. \A l \in Committed : key[l] = k => redis[k] = l
    BY <2>1, <2>3 DEF KeyInv, Holds, Committed
  <2> QED
    BY <2>4, <2>5
<1> QED
  BY <1>1, TypeInvInit, TypeInvNext, TxnInvInit, TxnInvNext, KeyInvInit, KeyInvNext,
     CalmInvInit, CalmInvNext, PTL DEF Spec

\* A retry that is sent once its application is stored is replayed and not refused as a
\* second application, however many requests race with it - as long as no I/O fails, no
\* replica crashes and no Redis key expires (what a crash does is a finding).
THEOREM CalmRetriesReplay == Spec => []RetryReplaysWhenCalm
<1>1. CalmInv => RetryReplaysWhenCalm
  BY DEF CalmInv, Unfailed, Calm, RetryReplaysWhenCalm, RetryReplays
<1> QED
  BY <1>1, TypeInvInit, TypeInvNext, TxnInvInit, TxnInvNext, KeyInvInit, KeyInvNext,
     CalmInvInit, CalmInvNext, PTL DEF Spec

-----------------------------------------------------------------------------
\* No applicant has two requests under way.
OneAtATime == \A r, q \in InFlight : applicant[r] = applicant[q] => r = q

\* The guard of check_active is behind these, and what it found out still counts.
BehindGuard == {"save", "save_submitted", "save_changed", "acquire", "commit", "respond"}

GuardInv ==
  /\ OneActivePerApplicant
  /\ \A r \in Requests :
       pc[r] \in BehindGuard /\ loan[r] = Absent => ActiveLoans(applicant[r]) = {}

\* Before the first request nobody is behind the guard.
LEMMA GuardInvInit == Init => GuardInv
BY DEF Init, GuardInv, OneActivePerApplicant, ActiveLoans, BehindGuard, ActiveStatuses,
       LoanStatus, TerminalStatuses, Absent

\* What a transaction that commits does to the guard: the applicant had no active
\* application when it was checked, and nobody else could store one since.
LEMMA CommitKeepsGuard ==
  ASSUME TypeInv, TxnInv, GuardInv, OneAtATime,
         NEW r \in Requests, pc[r] = "commit", ApplyTxn(r), applicant' = applicant,
         pc' \in [Requests -> Steps], \A q \in Requests : q # r => pc'[q] = pc[q],
         loan[r] = Absent
  PROVE  GuardInv'
<1>1. /\ loan'[r] # Absent /\ \A q \in Requests : q # r => loan'[q] = loan[q]
      /\ r \in InFlight
  BY DEF ApplyTxn, TxnInv, Flushed, Rows, TypeInv, TypeOK, Absent, InFlight
<1>2. \A a : ActiveLoans(a)' \subseteq ActiveLoans(a) \cup {r}
  BY <1>1 DEF ActiveLoans
<1>3. \A a : a # applicant[r] => ActiveLoans(a)' = ActiveLoans(a)
  BY <1>1 DEF ActiveLoans
<1>4. ActiveLoans(applicant[r]) = {}
  BY DEF GuardInv, BehindGuard
<1>5. OneActivePerApplicant'
  BY <1>2, <1>3, <1>4 DEF GuardInv, OneActivePerApplicant
<1>6. ASSUME NEW q \in Requests, pc'[q] \in BehindGuard, loan'[q] = Absent
      PROVE  ActiveLoans(applicant[q])' = {}
  <2>1. q # r /\ pc[q] \in BehindGuard /\ loan[q] = Absent
    BY <1>1, <1>6
  <2>2. applicant[q] # applicant[r]
    BY <1>1, <2>1 DEF OneAtATime, InFlight, BehindGuard
  <2> QED
    BY <1>3, <2>1, <2>2 DEF GuardInv
<1> QED
  BY <1>5, <1>6 DEF GuardInv

\* Only NoActive takes a request past the guard, and then nobody is.
LEMMA GuardInvNext ==
  TypeInv /\ TxnInv /\ CalmInv /\ GuardInv /\ OneAtATime /\ [Next]_vars => GuardInv'
<1> SUFFICES ASSUME TypeInv, TxnInv, CalmInv, GuardInv, OneAtATime, [Next]_vars PROVE GuardInv'
  OBVIOUS
\* A step that stores nothing, and takes nobody past the guard.
<1>a. ASSUME NEW r \in Requests, UNCHANGED <<loan, applicant>>,
             \A q \in Requests : pc'[q] \in BehindGuard => pc[q] \in BehindGuard
      PROVE  GuardInv'
  BY <1>a DEF GuardInv, OneActivePerApplicant, ActiveLoans
<1> USE DEF TypeInv, TypeOK, Steps, BehindGuard, Goto, Raise, reqVars, dbVars, boundVars
<1>1. ASSUME NEW r \in Requests, Receive(r) PROVE GuardInv'
  <2>1. /\ loan' = loan /\ loan[r] = Absent /\ pc'[r] \notin BehindGuard
        /\ \A q \in Requests : q # r => pc'[q] = pc[q] /\ applicant'[q] = applicant[q]
    BY <1>1 DEF Receive, TxnInv
  <2>2. \A a : ActiveLoans(a)' = ActiveLoans(a)
    BY <2>1 DEF ActiveLoans, ActiveStatuses, LoanStatus, TerminalStatuses, Absent
  <2> QED
    BY <2>1, <2>2 DEF GuardInv, OneActivePerApplicant
<1>2. ASSUME NEW r \in Requests, NoActive(r) PROVE GuardInv'
  <2>1. /\ UNCHANGED <<loan, applicant>> /\ ActiveLoans(applicant[r]) = {}
        /\ \A q \in Requests : q # r => pc'[q] = pc[q]
    BY <1>2 DEF NoActive
  <2>2. \A a : ActiveLoans(a)' = ActiveLoans(a)
    BY <2>1 DEF ActiveLoans
  <2> QED
    BY <2>1, <2>2 DEF GuardInv, OneActivePerApplicant
<1>3. ASSUME NEW r \in Requests, Commit(r) \/ CommitUnconfirmed(r) PROVE GuardInv'
  <2>1. /\ pc[r] = "commit" /\ ApplyTxn(r) /\ applicant' = applicant
        /\ pc' \in [Requests -> Steps] /\ \A q \in Requests : q # r => pc'[q] = pc[q]
    BY <1>3 DEF Commit, CommitUnconfirmed
  <2>2. loan[r] = Absent
    BY <2>1 DEF CalmInv, Committed
  <2> QED
    BY <2>1, <2>2, CommitKeepsGuard
<1>4. ASSUME NEW r \in Requests, Decide(r) PROVE GuardInv'
  <2>1. \A a : ActiveLoans(a)' \subseteq ActiveLoans(a)
    BY <1>4 DEF Decide, ActiveLoans, ActiveStatuses, LoanStatus, TerminalStatuses
  <2>2. \A q \in Requests : loan'[q] = Absent => loan[q] = Absent
    BY <1>4 DEF Decide, Absent
  <2> QED
    BY <1>4, <2>1, <2>2 DEF Decide, GuardInv, OneActivePerApplicant
<1>5. CASE Crash
  <2>1. PICK S \in SUBSET InFlight :
          /\ S # {}
          /\ pc' = [r \in Requests |-> IF r \in S THEN "done" ELSE pc[r]]
    BY <1>5 DEF Crash
  <2>2. PICK r \in Requests : r \in S
    BY <2>1 DEF InFlight
  <2>3. UNCHANGED <<loan, applicant>>
    BY <1>5 DEF Crash
  <2>4. \A q \in Requests : pc'[q] \in BehindGuard => pc[q] \in BehindGuard
    BY <2>1
  <2> QED
    BY <1>a, <2>2, <2>3, <2>4
<1>6. ASSUME NEW k \in Keys, Expire(k) PROVE GuardInv'
  BY <1>6 DEF Expire, GuardInv, OneActivePerApplicant, ActiveLoans
<1>7. CASE UNCHANGED vars
  BY <1>7 DEF vars, GuardInv, OneActivePerApplicant, ActiveLoans
<1>8. ASSUME NEW r \in Requests,
             \/ RedisGet(r) \/ GetByIdFound(r) \/ GetByIdMissing(r) \/ ActiveFound(r)
             \/ Save(r) \/ SaveConflict(r) \/ SaveSubmitted(r) \/ SaveChanged(r)
             \/ Acquire(r) \/ Respond(r) \/ Fault(r)
      PROVE  GuardInv'
  <2>1. UNCHANGED <<loan, applicant>>
    BY <1>8
    DEF RedisGet, GetByIdFound, GetByIdMissing, ActiveFound, Save, SaveConflict, SaveSubmitted,
        SaveChanged, Acquire, Respond, Fault
  <2>2. \A q \in Requests : pc'[q] \in BehindGuard => pc[q] \in BehindGuard
    BY <1>8
    DEF RedisGet, GetByIdFound, GetByIdMissing, ActiveFound, Save, SaveConflict, SaveSubmitted,
        SaveChanged, Acquire, Respond, Fault
  <2> QED
    BY <1>8, <1>a, <2>1, <2>2
<1> QED
  BY <1>1, <1>2, <1>3, <1>4, <1>5, <1>6, <1>7, <1>8 DEF Next, Step

\* What the guard of exists_active_for_applicant rests on: as long as no applicant has
\* two requests under way, each has at most one active application, whatever fails,
\* crashes, expires or is decided meanwhile.  (Two concurrent requests break it.)
THEOREM GuardHoldsOneAtATime == Spec /\ []OneAtATime => []OneActivePerApplicant
<1>1. GuardInv => OneActivePerApplicant
  BY DEF GuardInv
<1> QED
  BY <1>1, TypeInvInit, TypeInvNext, TxnInvInit, TxnInvNext, KeyInvInit, KeyInvNext,
     CalmInvInit, CalmInvNext, GuardInvInit, GuardInvNext, PTL DEF Spec

-----------------------------------------------------------------------------
\* Before the first request nobody has been answered.
LEMMA AnswerInvInit == Init => AnswerInv
BY DEF Init, AnswerInv, AnsweredIsStored, Successful

\* A 202 names the request's own application, stored before it or, if the answer goes first,
\* at stake until the commit; a replay names a stored one of the key: every step keeps this.
LEMMA AnswerInvNext == TypeInv /\ TxnInv /\ KeyInv /\ AnswerInv /\ [Next]_vars => AnswerInv'
<1> SUFFICES ASSUME TypeInv, TxnInv, KeyInv, AnswerInv, [Next]_vars PROVE AnswerInv'
  OBVIOUS
<1>a. faults \in Nat /\ crashes \in Nat
  BY BoundsAssumption DEF TypeInv, TypeOK
<1> USE NoKeyAssumption
    DEF TypeInv, TypeOK, KeyedSteps, Steps, Outcomes, AnswerInv, AnsweredIsStored, Successful,
        Committed, Rows, Goto, Raise, ApplyTxn, LoanStatus, Absent, reqVars, dbVars, boundVars
<1>1. ASSUME NEW r \in Requests, Receive(r) PROVE AnswerInv'
  BY <1>1 DEF Receive, TxnInv
<1>2. ASSUME NEW r \in Requests, RedisGet(r) PROVE AnswerInv'
  BY <1>2 DEF RedisGet
<1>3. ASSUME NEW r \in Requests, GetByIdFound(r) PROVE AnswerInv'
  BY <1>3 DEF GetByIdFound, KeyInv
<1>4. ASSUME NEW r \in Requests, GetByIdMissing(r) PROVE AnswerInv'
  BY <1>4 DEF GetByIdMissing
<1>5. ASSUME NEW r \in Requests, NoActive(r) PROVE AnswerInv'
  BY <1>5 DEF NoActive
<1>6. ASSUME NEW r \in Requests, ActiveFound(r) PROVE AnswerInv'
  BY <1>6 DEF ActiveFound
<1>7. ASSUME NEW r \in Requests, Save(r) PROVE AnswerInv'
  BY <1>7 DEF Save
<1>8. ASSUME NEW r \in Requests, SaveConflict(r) PROVE AnswerInv'
  BY <1>8 DEF SaveConflict
<1>9. ASSUME NEW r \in Requests, SaveSubmitted(r) PROVE AnswerInv'
  BY <1>9 DEF SaveSubmitted
<1>10. ASSUME NEW r \in Requests, SaveChanged(r) PROVE AnswerInv'
  BY <1>10 DEF SaveChanged
<1>11. ASSUME NEW r \in Requests, Acquire(r) PROVE AnswerInv'
  BY <1>11 DEF Acquire
<1>12. ASSUME NEW r \in Requests, Commit(r) PROVE AnswerInv'
  BY <1>12 DEF Commit, TxnInv, Flushed
<1>13. ASSUME NEW r \in Requests, Respond(r) PROVE AnswerInv'
  BY <1>13 DEF Respond
<1>14. ASSUME NEW r \in Requests, Fault(r) PROVE AnswerInv'
  BY <1>14, <1>a DEF Fault
<1>15. ASSUME NEW r \in Requests, CommitUnconfirmed(r) PROVE AnswerInv'
  BY <1>15, <1>a DEF CommitUnconfirmed, TxnInv, Flushed
<1>16. ASSUME NEW r \in Requests, Decide(r) PROVE AnswerInv'
  BY <1>16 DEF Decide
<1>17. ASSUME Crash PROVE AnswerInv'
  BY <1>17, <1>a DEF Crash, InFlight
<1>18. ASSUME NEW k \in Keys, Expire(k) PROVE AnswerInv'
  BY <1>18 DEF Expire
<1>19. CASE UNCHANGED vars
  BY <1>19 DEF vars
<1> QED
  BY <1>1, <1>2, <1>3, <1>4, <1>5, <1>6, <1>7, <1>8, <1>9, <1>10,
     <1>11, <1>12, <1>13, <1>14, <1>15, <1>16, <1>17, <1>18, <1>19
  DEF Next, Step

\* A client that was told an id finds that application stored, whatever fails, crashes or
\* expires, in either order of commit and response; only in the second may it be its own
\* one whose commit is to come or came to nothing by a failure.
THEOREM AnswersAreStored == Spec => []AnsweredIsStored
<1>1. AnswerInv => AnsweredIsStored
  BY DEF AnswerInv
<1> QED
  BY <1>1, TypeInvInit, TypeInvNext, TxnInvInit, TxnInvNext, KeyInvInit, KeyInvNext,
     AnswerInvInit, AnswerInvNext, PTL DEF Spec

\* Retries converge: all successful answers to a key name one application, but for those
\* that went ahead of a commit that has not been made.
THEOREM RetriesConverge == Spec => []SameKeySameLoan
<1>1. TypeInv /\ KeyInv /\ AnswerInv => SameKeySameLoan
  BY DEF TypeInv, TypeOK, KeyInv, AnswerInv, AnsweredIsStored, SameKeySameLoan, Unkept, Holds,
         Committed, Successful
<1> QED
  BY <1>1, TypeInvInit, TypeInvNext, TxnInvInit, TxnInvNext, KeyInvInit, KeyInvNext,
     AnswerInvInit, AnswerInvNext, PTL DEF Spec

-----------------------------------------------------------------------------
\* Where a request stands tells what it has done so far: who asks is known once it has
\* arrived, its application is not stored before its commit, and its client is told
\* nothing before it is over, or before its commit if the response goes first.
StageInv ==
  /\ \A r \in Requests : pc[r] = "idle" => applicant[r] = NoApplicant
  /\ \A r \in Requests : pc[r] # "idle" => applicant[r] \in Applicants
  /\ \A r \in Requests : pc[r] = "done" \/ (pc[r] = "respond" /\ first = "commit")
                           \/ loan[r] = Absent
  /\ \A r \in Requests : pc[r] # "done" =>
       answered[r] = NoLoan \/ (pc[r] = "commit" /\ first = "respond")

\* Before the first request nothing is known, stored or told.
LEMMA StageInvInit == Init => StageInv
BY DEF Init, StageInv

\* Every step keeps StageInv, in either order of commit and response.
LEMMA StageInvNext == TypeInv /\ StageInv /\ [Next]_vars => StageInv'
<1> SUFFICES ASSUME TypeInv, StageInv, [Next]_vars PROVE StageInv'
  OBVIOUS
<1> USE DEF TypeInv, TypeOK, Steps, StageInv, Goto, Raise, ApplyTxn, LoanStatus,
            Absent, reqVars, dbVars, boundVars
<1>1. ASSUME NEW r \in Requests, Receive(r) PROVE StageInv'
  BY <1>1 DEF Receive
<1>2. ASSUME NEW r \in Requests, RedisGet(r) PROVE StageInv'
  BY <1>2 DEF RedisGet
<1>3. ASSUME NEW r \in Requests, GetByIdFound(r) PROVE StageInv'
  BY <1>3 DEF GetByIdFound
<1>4. ASSUME NEW r \in Requests, GetByIdMissing(r) PROVE StageInv'
  BY <1>4 DEF GetByIdMissing
<1>5. ASSUME NEW r \in Requests, NoActive(r) PROVE StageInv'
  BY <1>5 DEF NoActive
<1>6. ASSUME NEW r \in Requests, ActiveFound(r) PROVE StageInv'
  BY <1>6 DEF ActiveFound
<1>7. ASSUME NEW r \in Requests, Save(r) PROVE StageInv'
  BY <1>7 DEF Save
<1>8. ASSUME NEW r \in Requests, SaveConflict(r) PROVE StageInv'
  BY <1>8 DEF SaveConflict
<1>9. ASSUME NEW r \in Requests, SaveSubmitted(r) PROVE StageInv'
  BY <1>9 DEF SaveSubmitted
<1>10. ASSUME NEW r \in Requests, SaveChanged(r) PROVE StageInv'
  BY <1>10 DEF SaveChanged
<1>11. ASSUME NEW r \in Requests, Acquire(r) PROVE StageInv'
  BY <1>11 DEF Acquire
<1>12. ASSUME NEW r \in Requests, Commit(r) PROVE StageInv'
  BY <1>12 DEF Commit
<1>13. ASSUME NEW r \in Requests, Respond(r) PROVE StageInv'
  BY <1>13 DEF Respond
<1>14. ASSUME NEW r \in Requests, Fault(r) PROVE StageInv'
  BY <1>14 DEF Fault
<1>15. ASSUME NEW r \in Requests, CommitUnconfirmed(r) PROVE StageInv'
  BY <1>15 DEF CommitUnconfirmed
<1>16. ASSUME NEW r \in Requests, Decide(r) PROVE StageInv'
  BY <1>16 DEF Decide
<1>17. ASSUME Crash PROVE StageInv'
  <2>1. PICK S \in SUBSET InFlight :
          pc' = [r \in Requests |-> IF r \in S THEN "done" ELSE pc[r]]
    BY <1>17 DEF Crash
  <2>2. UNCHANGED <<applicant, loan, answered, first>>
    BY <1>17 DEF Crash
  <2>3. \A r \in Requests : pc'[r] = pc[r] \/ (pc'[r] = "done" /\ pc[r] # "idle")
    BY <2>1 DEF InFlight
  <2> QED
    BY <2>2, <2>3
<1>18. ASSUME NEW k \in Keys, Expire(k) PROVE StageInv'
  BY <1>18 DEF Expire
<1>19. CASE UNCHANGED vars
  BY <1>19 DEF vars
<1> QED
  BY <1>1, <1>2, <1>3, <1>4, <1>5, <1>6, <1>7, <1>8, <1>9, <1>10,
     <1>11, <1>12, <1>13, <1>14, <1>15, <1>16, <1>17, <1>18, <1>19
  DEF Next, Step

-----------------------------------------------------------------------------
\* Empty tables are an intake nobody has used.
LEMMA PromiseInit == Init => Promise!IntakeInit
BY DEF Init, Promise!IntakeInit, Committed

\* A transaction that commits stores an application with its events, under a key that no
\* stored application bears: the effect of Commit and of CommitUnconfirmed.
LEMMA CommitStores ==
  ASSUME TypeInv, TxnInv, KeyInv, StageInv,
         NEW r \in Requests, pc[r] = "commit", ApplyTxn(r),
         UNCHANGED <<applicant, key, answered, first>>
  PROVE  Promise!StoreNew(r)
<1>1. txn[r] = Rows
  BY DEF TxnInv, Flushed, Rows
<1>2. r \notin Committed /\ applicant[r] # NoApplicant
  BY NoApplicantAssumption DEF StageInv, Committed
<1>3. Committed' = Committed \cup {r}
  BY <1>1, <1>2 DEF ApplyTxn, Committed, Rows, TypeInv, TypeOK, Absent
<1>4. outbox' = outbox \cup ({r} \X EventRows)
  BY <1>1 DEF ApplyTxn, EventRows
<1>5. \A l \in Committed : ~Promise!SameKey(r, l)
  BY <1>1, <1>2 DEF KeyInv, Holds, Committed, Promise!SameKey, Rows
<1> QED
  BY <1>2, <1>3, <1>4, <1>5 DEF Promise!StoreNew

\* Every step of a request is a step of Intake or invisible to it.
LEMMA PromiseStep ==
  TypeInv /\ TxnInv /\ KeyInv /\ AnswerInv /\ StageInv /\ [Next]_vars
    => [Promise!IntakeNext]_(Promise!intakeVars)
<1> SUFFICES ASSUME TypeInv, TxnInv, KeyInv, AnswerInv, StageInv, [Next]_vars
             PROVE  [Promise!IntakeNext]_(Promise!intakeVars)
  OBVIOUS
<1>1. ASSUME NEW r \in Requests, Receive(r) PROVE Promise!IntakeNext
  <2>1. Promise!Ask(r)
    BY <1>1 DEF Receive, StageInv, Promise!Ask, dbVars, Committed
  <2> QED
    BY <2>1 DEF Promise!IntakeNext
<1>2. ASSUME NEW r \in Requests, GetByIdFound(r) PROVE Promise!IntakeNext
  <2>1. key[r] \in Keys /\ key[found[r]] = key[r] /\ found[r] \in Requests
    BY <1>2 DEF GetByIdFound, TypeInv, KeyedSteps, KeyInv
  <2>3. Promise!Tell(r, found[r])
    BY <1>2, <2>1, NoKeyAssumption
    DEF GetByIdFound, StageInv, Promise!Tell, Promise!SameKey, reqVars, dbVars, Committed
  <2> QED
    BY <2>1, <2>3 DEF Promise!IntakeNext
<1>3. ASSUME NEW r \in Requests, Respond(r) PROVE Promise!IntakeNext
  <2>1. Promise!Tell(r, r)
    BY <1>3 DEF Respond, AnswerInv, StageInv, Promise!Tell, reqVars, dbVars, Committed, TypeInv,
               TypeOK
  <2> QED
    BY <2>1 DEF Promise!IntakeNext
<1>4. ASSUME NEW r \in Requests, Commit(r) \/ CommitUnconfirmed(r) PROVE Promise!IntakeNext
  <2>1. Promise!StoreNew(r)
    BY <1>4, CommitStores DEF Commit, CommitUnconfirmed, reqVars
  <2> QED
    BY <2>1 DEF Promise!IntakeNext
<1>5. ASSUME NEW r \in Requests, Decide(r) PROVE UNCHANGED Promise!intakeVars
  <2>1. Committed' = Committed
    BY <1>5 DEF Decide, Committed, Absent, TypeInv, TypeOK
  <2> QED
    BY <1>5, <2>1 DEF Decide, Promise!intakeVars, reqVars
<1>6. CASE UNCHANGED <<applicant, key, first, loan, outbox, answered>>
  BY <1>6 DEF Promise!intakeVars, Committed
<1> QED
  BY <1>1, <1>2, <1>3, <1>4, <1>5, <1>6
  DEF Next, Step, RedisGet, GetByIdMissing, NoActive, ActiveFound, Save, SaveConflict,
      SaveSubmitted, SaveChanged, Acquire, Fault, Crash, Expire, vars, reqVars, dbVars

\* The service is an Intake, in either order of commit and response: all its locks, races,
\* failures and expiries are invisible to the clients but for requests that are refused or lost.
THEOREM ServiceIsAnIntake == Spec => ImplementsIntake
BY TypeInvInit, TypeInvNext, TxnInvInit, TxnInvNext, KeyInvInit, KeyInvNext,
   AnswerInvInit, AnswerInvNext, StageInvInit, StageInvNext, PromiseInit, PromiseStep, PTL
DEF Spec, ImplementsIntake, Promise!IntakeSpec
=============================================================================
