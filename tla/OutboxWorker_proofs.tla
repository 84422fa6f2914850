------------------------ MODULE OutboxWorker_proofs ------------------------
(***************************************************************************)
(* Proofs about OutboxWorker, for any finite sets of applications and      *)
(* replicas, any stamps, batch size, outages and bounds on the failures.   *)
(*                                                                         *)
(*   TypeInv   TypeOK, and a worker between its SELECT and its commit has  *)
(*             a row in hand                                               *)
(*   LockInv   while its transaction stands, what a worker has yet to      *)
(*             publish or has marked is among the rows it has locked; these*)
(*             are PENDING and nobody else's; an aborted transaction has   *)
(*             neither locks nor marks;  this gives WorkersDisjoint        *)
(*   SentInv   what is marked, in the open transaction or for good, is in  *)
(*             Kafka;  this gives SentIsPublished                          *)
(*   PairInv   both rows of an application are stored, or none             *)
(*   CopyInv   how often a row is in Kafka: at most once for each failure, *)
(*             once more if it is SENT or may become so with a commit, and *)
(*             once less for each worker that has lost its transaction and *)
(*             has yet to publish the row;  this gives CopiesAreExplained  *)
(*   OrderInv  (one worker, no failures) no status change is ahead of its  *)
(*             submission; this gives SubmittedFirst                       *)
(* The first four show that every step is a step of EventFeed or leaves    *)
(* its variables unchanged.                                                *)
(***************************************************************************)
EXTENDS OutboxWorker, FiniteSetTheorems, WellFoundedInduction, TLAPS

InHand == \A w \in Workers : step[w] \in {"publish", "mark"} => todo[w] # {}

TypeInv == TypeOK /\ InHand

LockInv ==
  /\ \A w \in Workers : ~aborted[w] => todo[w] \cup sent[w] \subseteq locked[w]
  /\ \A w \in Workers : aborted[w] =>
       step[w] # "sleep" /\ locked[w] = {} /\ sent[w] = {} /\ faults > 0
  /\ \A w \in Workers : step[w] = "sleep" => locked[w] = {}
  /\ \A w \in Workers : \A row \in locked[w] : status[row] = "PENDING"
  /\ \A w \in Workers : \A row \in todo[w] : status[row] # "absent"
  /\ \A v, w \in Workers : v # w => locked[v] \cap locked[w] = {}

SentInv ==
  /\ \A w \in Workers : sent[w] \subseteq Published
  /\ \A w \in Workers : step[w] = "mark" => Oldest(todo[w]) \in Published
  /\ SentIsPublished

PairInv ==
  \A l \in Loans : status[<<l, "submitted">>] = "absent"
                     <=> status[<<l, "status_changed">>] = "absent"

\* The row is published, and its SENT is on its way to the commit.
OnItsWay(w, row) ==
  /\ ~aborted[w]
  /\ \/ row \in sent[w]
     \/ step[w] = "mark" /\ row = Oldest(todo[w])

Claimed(row) == status[row] = "SENT" \/ \E w \in Workers : OnItsWay(w, row)

\* The worker has lost its transaction and has yet to publish the row.
InDebt(w, row) ==
  /\ aborted[w]
  /\ row \in todo[w]
  /\ step[w] = "mark" => row # Oldest(todo[w])

Debts(row) == Cardinality({w \in Workers : InDebt(w, row)})

Accounted(row) ==
  /\ Copies(row) + Debts(row) <= faults + crashes + 1
  /\ ~Claimed(row) => Copies(row) + Debts(row) <= faults + crashes

CopyInv ==
  /\ \A w \in Workers : sent[w] \cap todo[w] = {}
  /\ \A row \in Rows : Accounted(row)

-----------------------------------------------------------------------------
\* The loop takes the oldest row of its batch: among any rows one has the oldest
\* created_at.
LEMMA OldestIsMember ==
  ASSUME NEW S \in SUBSET Rows, S # {}, created \in Stampings
  PROVE  /\ Oldest(S) \in S
         /\ \A y \in S \ {Oldest(S)} : Older(Oldest(S), y)
<1> DEFINE N == {created[x] : x \in S}
<1>0. created \in [Rows -> Nat] /\ \A x, y \in Rows : created[x] = created[y] => x = y
  BY StampingsAssumption
<1>1. N \in SUBSET Nat /\ N # {}
  BY <1>0
<1>2. PICK n \in N : \A m \in N : n <= m
  <2>1. IsWellFoundedOn({ss \in Nat \X Nat : ss[1] < ss[2]}, Nat)
    BY NatLessThanWellFounded DEF OpToRel
  <2>2. PICK n \in N : \A m \in N : ~ (<<m, n>> \in {ss \in Nat \X Nat : ss[1] < ss[2]})
    BY <1>1, <2>1, WFMin
  <2>3. \A m \in N : n <= m
    <3> TAKE m \in N
    <3>1. m \in Nat /\ n \in Nat
      BY <1>1
    <3>2. ~ (m < n)
      BY <2>2, <3>1
    <3> QED
      BY <3>1, <3>2
  <2> QED
    BY <2>3
<1>3. PICK x \in S : created[x] = n
  OBVIOUS
<1>4. ASSUME NEW y \in S \ {x} PROVE Older(x, y)
  <2>1. created[y] \in N /\ created[y] \in Nat /\ n \in Nat /\ created[y] # n
    BY <1>0, <1>1, <1>3
  <2>2. n <= created[y]
    BY <1>2, <2>1
  <2> QED
    BY <1>3, <2>1, <2>2 DEF Older
<1>5. \E z \in S : \A y \in S \ {z} : Older(z, y)
  BY <1>4
<1> QED
  BY <1>5 DEF Oldest

\* The stamps of stored rows do not change, so a batch keeps its oldest row.
LEMMA OldestStays ==
  ASSUME [Next]_vars, NEW w \in Workers, todo'[w] = todo[w]
  PROVE  Oldest(todo[w])' = Oldest(todo[w])
<1>1. created' = created
  BY DEF Next, Work, Fail, StoreLoan, Poll, Publish, PublishRefused, Mark, Commit, PublishFails,
     PublishUnconfirmed, MarkFails, ConnectionLost, CommitFails, Crash, vars
<1> QED
  BY <1>1 DEF Oldest, Older

\* A poll that finds rows takes at least one.
LEMMA BatchIsNotEmpty ==
  ASSUME NEW S \in SUBSET Rows, S # {}, NEW T \in SUBSET S, IsBatch(T, S)
  PROVE  T # {}
<1>1. IsFiniteSet(Rows)
  <2>1. IsFiniteSet(EventTypes)
    <3>1. EventTypes = {"submitted"} \cup {"status_changed"}
      BY DEF EventTypes
    <3> QED
      BY <3>1, FS_Singleton, FS_AddElement
  <2> QED
    BY <2>1, LoansAssumption, FS_Product DEF Rows
<1>2. IsFiniteSet(S) /\ Cardinality(S) \in Nat /\ Cardinality(S) # 0
  BY <1>1, FS_Subset, FS_CardinalityType, FS_EmptySet
<1> QED
  BY <1>2, FS_EmptySet, LimitAssumption DEF IsBatch

\* send_and_wait appends: what is in Kafka stays there, and the new record joins it.
LEMMA PublishedGrows ==
  ASSUME log \in Seq(Rows), NEW row \in Rows, log' = Append(log, row)
  PROVE  Published' = Published \cup {row}
BY DEF Published

-----------------------------------------------------------------------------
\* The service starts with empty tables and sleeping workers.
LEMMA TypeInvInit == Init => TypeInv
BY BoundsAssumption DEF Init, TypeInv, TypeOK, InHand, RowStatus, WorkerSteps

\* No step of a worker, nor a failure, takes a variable out of its type or leaves the
\* loop without a row.
LEMMA TypeInvNext == TypeInv /\ [Next]_vars => TypeInv'
<1> SUFFICES ASSUME TypeInv, [Next]_vars PROVE TypeInv'
  OBVIOUS
<1>0. \A w \in Workers : step[w] \in {"publish", "mark"} => Oldest(todo[w]) \in todo[w]
  BY OldestIsMember DEF TypeInv, TypeOK, InHand
<1> USE DEF TypeInv, TypeOK, InHand, RowStatus, WorkerSteps, workerVars
<1>1. ASSUME NEW l \in Loans, StoreLoan(l) PROVE TypeInv'
  BY <1>1 DEF StoreLoan
<1>2. ASSUME NEW w \in Workers, Poll(w) PROVE TypeInv'
  <2>1. PICK T \in SUBSET Selectable : /\ IsBatch(T, Selectable)
                                       /\ locked' = [locked EXCEPT ![w] = T]
                                       /\ todo' = [todo EXCEPT ![w] = T]
    BY <1>2 DEF Poll
  <2>2. T \in SUBSET Rows /\ T # {}
    <3>1. Selectable \subseteq Rows /\ Selectable # {}
      BY <1>2 DEF Selectable, Poll
    <3> QED
      BY <2>1, <3>1, BatchIsNotEmpty
  <2> QED
    BY <1>2, <2>1, <2>2 DEF Poll
<1>3. ASSUME NEW w \in Workers, Publish(w) PROVE TypeInv'
  BY <1>3, <1>0 DEF Publish
<1>4. ASSUME NEW w \in Workers, PublishRefused(w) PROVE TypeInv'
  BY <1>4, <1>0 DEF PublishRefused, NextRow
<1>5. ASSUME NEW w \in Workers, Mark(w) PROVE TypeInv'
  BY <1>5, <1>0 DEF Mark, NextRow
<1>6. ASSUME NEW w \in Workers, Commit(w) PROVE TypeInv'
  BY <1>6 DEF Commit, CommitRows, Release, SentStatus
<1>7. ASSUME NEW w \in Workers, PublishFails(w) PROVE TypeInv'
  BY <1>7, <1>0, BoundsAssumption DEF PublishFails, NextRow
<1>8. ASSUME NEW w \in Workers, PublishUnconfirmed(w) PROVE TypeInv'
  BY <1>8, <1>0, BoundsAssumption DEF PublishUnconfirmed, NextRow
<1>9. ASSUME NEW w \in Workers, MarkFails(w) PROVE TypeInv'
  BY <1>9, <1>0, BoundsAssumption DEF MarkFails, Abort, NextRow
<1>10. ASSUME NEW w \in Workers, CommitFails(w) PROVE TypeInv'
  BY <1>10, BoundsAssumption DEF CommitFails, CommitRows, Release, SentStatus
<1>11. ASSUME NEW w \in Workers, Crash(w) PROVE TypeInv'
  BY <1>11, BoundsAssumption DEF Crash, Release
<1>12. ASSUME NEW w \in Workers, ConnectionLost(w) PROVE TypeInv'
  BY <1>12, BoundsAssumption DEF ConnectionLost, Abort
<1>13. CASE UNCHANGED vars
  BY <1>13 DEF vars
<1> QED
  BY <1>1, <1>2, <1>3, <1>4, <1>5, <1>6, <1>7, <1>8, <1>9, <1>10, <1>11, <1>12, <1>13
  DEF Next, Work, Fail

\* Rows, workers, Kafka and counters keep their types: in particular a row is never
\* left in a status the poll does not know.
THEOREM TypeCorrect == Spec => []TypeOK
<1>1. TypeInv => TypeOK
  BY DEF TypeInv
<1> QED
  BY <1>1, TypeInvInit, TypeInvNext, PTL DEF Spec

-----------------------------------------------------------------------------
\* Sleeping workers hold no locks.
LEMMA LockInvInit == Init => LockInv
BY DEF Init, LockInv

\* FOR UPDATE SKIP LOCKED gives a worker PENDING rows nobody has, and only the worker
\* that has them changes their status, with its commit.
LEMMA LockInvNext == TypeInv /\ LockInv /\ [Next]_vars => LockInv'
<1> SUFFICES ASSUME TypeInv, LockInv, [Next]_vars PROVE LockInv'
  OBVIOUS
<1>0. \A w \in Workers : step[w] \in {"publish", "mark"} => Oldest(todo[w]) \in todo[w]
  BY OldestIsMember DEF TypeInv, TypeOK, InHand
<1> USE DEF TypeInv, TypeOK, LockInv, workerVars
<1>1. ASSUME NEW l \in Loans, StoreLoan(l) PROVE LockInv'
  BY <1>1 DEF StoreLoan
<1>2. ASSUME NEW w \in Workers, Poll(w) PROVE LockInv'
  <2>1. PICK T \in SUBSET Selectable : /\ locked' = [locked EXCEPT ![w] = T]
                                       /\ todo' = [todo EXCEPT ![w] = T]
    BY <1>2 DEF Poll
  <2>2. /\ T \in SUBSET Rows
        /\ \A row \in T : status[row] = "PENDING" /\ \A v \in Workers : row \notin locked[v]
    BY DEF Selectable
  <2> QED
    BY <1>2, <2>1, <2>2 DEF Poll
<1>3. ASSUME NEW w \in Workers, Publish(w) PROVE LockInv'
  BY <1>3 DEF Publish
<1>4. ASSUME NEW w \in Workers, PublishRefused(w) PROVE LockInv'
  BY <1>4 DEF PublishRefused, NextRow
<1>5. ASSUME NEW w \in Workers, Mark(w) PROVE LockInv'
  BY <1>5, <1>0 DEF Mark, NextRow
<1>6. ASSUME NEW w \in Workers, Commit(w) PROVE LockInv'
  BY <1>6 DEF Commit, CommitRows, Release, SentStatus, ToSend
<1>7. ASSUME NEW w \in Workers, PublishFails(w) PROVE LockInv'
  BY <1>7, BoundsAssumption DEF PublishFails, NextRow
<1>8. ASSUME NEW w \in Workers, PublishUnconfirmed(w) PROVE LockInv'
  BY <1>8, BoundsAssumption DEF PublishUnconfirmed, NextRow
<1>9. ASSUME NEW w \in Workers, MarkFails(w) PROVE LockInv'
  BY <1>9, BoundsAssumption DEF MarkFails, Abort, NextRow
<1>10. ASSUME NEW w \in Workers, CommitFails(w) PROVE LockInv'
  BY <1>10, BoundsAssumption DEF CommitFails, CommitRows, Release, SentStatus, ToSend
<1>11. ASSUME NEW w \in Workers, Crash(w) PROVE LockInv'
  BY <1>11 DEF Crash, Release
<1>12. ASSUME NEW w \in Workers, ConnectionLost(w) PROVE LockInv'
  BY <1>12, BoundsAssumption DEF ConnectionLost, Abort
<1>13. CASE UNCHANGED vars
  BY <1>13 DEF vars
<1> QED
  BY <1>1, <1>2, <1>3, <1>4, <1>5, <1>6, <1>7, <1>8, <1>9, <1>10, <1>11, <1>12, <1>13
  DEF Next, Work, Fail

\* However many replicas poll one table, no two whose transactions stand ever work on the
\* same row.
THEOREM ReplicasAreDisjoint == Spec => []WorkersDisjoint
<1>1. LockInv => WorkersDisjoint
  BY DEF LockInv, WorkersDisjoint
<1> QED
  BY <1>1, TypeInvInit, TypeInvNext, LockInvInit, LockInvNext, PTL DEF Spec

-----------------------------------------------------------------------------
\* Nothing is marked before anything is stored.
LEMMA SentInvInit == Init => SentInv
BY DEF Init, SentInv, SentIsPublished

\* A row is marked only behind its record, and a record stays in Kafka whatever
\* becomes of the transaction that published it.
LEMMA SentInvNext == TypeInv /\ SentInv /\ [Next]_vars => SentInv'
<1> SUFFICES ASSUME TypeInv, SentInv, [Next]_vars PROVE SentInv'
  OBVIOUS
<1>0. \A w \in Workers : step[w] \in {"publish", "mark"} =>
        Oldest(todo[w]) \in todo[w] /\ Oldest(todo[w]) \in Rows
  BY OldestIsMember DEF TypeInv, TypeOK, InHand
<1>a. log' = log => Published' = Published
  BY DEF Published
<1>b. \A w \in Workers : todo'[w] = todo[w] => Oldest(todo[w])' = Oldest(todo[w])
  BY OldestStays
<1> USE DEF TypeInv, TypeOK, SentInv, SentIsPublished, workerVars
<1>1. ASSUME NEW l \in Loans, StoreLoan(l) PROVE SentInv'
  BY <1>1, <1>a, <1>b DEF StoreLoan
<1>2. ASSUME NEW w \in Workers, Poll(w) PROVE SentInv'
  BY <1>2, <1>a, <1>b DEF Poll
<1>3. ASSUME NEW w \in Workers, Publish(w) PROVE SentInv'
  <2>1. Published' = Published \cup {Oldest(todo[w])}
    BY <1>3, <1>0, PublishedGrows DEF Publish
  <2> QED
    BY <1>3, <1>b, <2>1 DEF Publish
<1>4. ASSUME NEW w \in Workers, PublishRefused(w) PROVE SentInv'
  BY <1>4, <1>a, <1>b DEF PublishRefused, NextRow
<1>5. ASSUME NEW w \in Workers, Mark(w) PROVE SentInv'
  BY <1>5, <1>a, <1>b DEF Mark, NextRow
<1>6. ASSUME NEW w \in Workers, Commit(w) PROVE SentInv'
  BY <1>6, <1>a, <1>b DEF Commit, CommitRows, Release, SentStatus, ToSend
<1>7. ASSUME NEW w \in Workers, PublishFails(w) PROVE SentInv'
  BY <1>7, <1>a, <1>b DEF PublishFails, NextRow
<1>8. ASSUME NEW w \in Workers, PublishUnconfirmed(w) PROVE SentInv'
  <2>1. Published' = Published \cup {Oldest(todo[w])}
    BY <1>8, <1>0, PublishedGrows DEF PublishUnconfirmed
  <2> QED
    BY <1>8, <1>b, <2>1 DEF PublishUnconfirmed, NextRow
<1>9. ASSUME NEW w \in Workers, MarkFails(w) PROVE SentInv'
  BY <1>9, <1>a, <1>b DEF MarkFails, Abort, NextRow
<1>10. ASSUME NEW w \in Workers, CommitFails(w) PROVE SentInv'
  BY <1>10, <1>a, <1>b DEF CommitFails, CommitRows, Release, SentStatus, ToSend
<1>11. ASSUME NEW w \in Workers, Crash(w) PROVE SentInv'
  BY <1>11, <1>a, <1>b DEF Crash, Release
<1>12. ASSUME NEW w \in Workers, ConnectionLost(w) PROVE SentInv'
  BY <1>12, <1>a, <1>b DEF ConnectionLost, Abort
<1>13. CASE UNCHANGED vars
  BY <1>13, <1>a, <1>b DEF vars
<1> QED
  BY <1>1, <1>2, <1>3, <1>4, <1>5, <1>6, <1>7, <1>8, <1>9, <1>10, <1>11, <1>12, <1>13
  DEF Next, Work, Fail

\* No event is lost: a row is SENT only if its record is in Kafka.
THEOREM NoEventIsLost == Spec => []SentIsPublished
<1>1. SentInv => SentIsPublished
  BY DEF SentInv
<1> QED
  BY <1>1, TypeInvInit, TypeInvNext, SentInvInit, SentInvNext, PTL DEF Spec

-----------------------------------------------------------------------------
\* No application is stored at first.
LEMMA PairInvInit == Init => PairInv
BY DEF Init, PairInv, Rows, EventTypes

\* A request stores both rows of its application at once, and no row is ever deleted.
LEMMA PairInvNext == TypeInv /\ LockInv /\ PairInv /\ [Next]_vars => PairInv'
<1> SUFFICES ASSUME TypeInv, LockInv, PairInv, [Next]_vars PROVE PairInv'
  OBVIOUS
<1>0. \A l \in Loans : <<l, "submitted">> \in Rows /\ <<l, "status_changed">> \in Rows
  BY DEF Rows, EventTypes
<1> USE DEF PairInv
<1>1. ASSUME NEW l \in Loans, StoreLoan(l) PROVE PairInv'
  BY <1>0, <1>1 DEF StoreLoan
<1>2. ASSUME NEW w \in Workers, Commit(w) \/ CommitFails(w) PROVE PairInv'
  <2>1. PICK S \in {{}, ToSend(w)} : CommitRows(S)
    BY <1>2 DEF Commit, CommitFails
  <2>2. \A row \in S : row \in Rows /\ status[row] = "PENDING"
    BY DEF TypeInv, TypeOK, LockInv, ToSend
  <2> QED
    BY <1>0, <2>1, <2>2 DEF CommitRows, SentStatus
<1>3. CASE UNCHANGED status
  BY <1>3
<1> QED
  BY <1>1, <1>2, <1>3 DEF Next, Work, Fail, Poll, Publish, PublishRefused, Mark, PublishFails,
     PublishUnconfirmed, MarkFails, ConnectionLost, Crash, vars

-----------------------------------------------------------------------------
\* A publication makes one more copy of its row.
LEMMA CopiesGrow ==
  ASSUME log \in Seq(Rows), NEW x \in Rows, log' = Append(log, x)
  PROVE  \A row \in Rows : Copies(row)' = IF row = x THEN Copies(row) + 1 ELSE Copies(row)
<1>1. /\ Len(log) \in Nat /\ DOMAIN log = 1..Len(log) /\ DOMAIN log' = 1..(Len(log) + 1)
      /\ log'[Len(log) + 1] = x /\ \A i \in 1..Len(log) : log'[i] = log[i]
  OBVIOUS
<1> SUFFICES ASSUME NEW row \in Rows
             PROVE  Copies(row)' = IF row = x THEN Copies(row) + 1 ELSE Copies(row)
  OBVIOUS
<1> DEFINE C == {i \in DOMAIN log : log[i] = row}
           D == {i \in DOMAIN log' : log'[i] = row}
<1>2. D = IF row = x THEN C \cup {Len(log) + 1} ELSE C
  BY <1>1
<1>3. Len(log) + 1 \notin C /\ C \subseteq 1..Len(log)
  BY <1>1
<1>4. Copies(row) = Cardinality(C) /\ Copies(row)' = Cardinality(D)
  BY DEF Copies
<1> HIDE DEF C, D
<1>5. IsFiniteSet(C)
  <2>1. IsFiniteSet(1..Len(log))
    BY <1>1, FS_Interval
  <2> QED
    BY <1>3, <2>1, FS_Subset
<1>6. Cardinality(C \cup {Len(log) + 1}) = Cardinality(C) + 1
  BY <1>3, <1>5, FS_AddElement
<1> QED
  BY <1>2, <1>4, <1>6

\* There are a number of copies.
LEMMA CopiesAreCounted ==
  log \in Seq(Rows) => \A row \in Rows : Copies(row) \in Nat
<1> SUFFICES ASSUME log \in Seq(Rows), NEW row \in Rows PROVE Copies(row) \in Nat
  OBVIOUS
<1> DEFINE C == {i \in DOMAIN log : log[i] = row}
<1>1. C \subseteq 1..Len(log) /\ Len(log) \in Nat
  OBVIOUS
<1>2. Copies(row) = Cardinality(C)
  BY DEF Copies
<1> HIDE DEF C
<1>3. IsFiniteSet(1..Len(log))
  BY <1>1, FS_Interval
<1> QED
  BY <1>1, <1>2, <1>3, FS_Subset, FS_CardinalityType

\* There are a number of workers in debt.
LEMMA DebtorsAreCounted ==
  ASSUME NEW S \in SUBSET Workers, NEW T \in SUBSET Workers, NEW w \in Workers,
         T \ {w} \subseteq S
  PROVE  /\ Cardinality(S) \in Nat /\ Cardinality(T) \in Nat
         /\ Cardinality(T) <= Cardinality(S) + 1
         /\ w \in S \/ w \notin T => Cardinality(T) <= Cardinality(S)
         /\ w \in S /\ w \notin T => Cardinality(T) + 1 <= Cardinality(S)
<1>1. IsFiniteSet(S) /\ IsFiniteSet(T)
  BY WorkersAssumption, FS_Subset
<1>2. Cardinality(S) \in Nat /\ Cardinality(T) \in Nat
  BY <1>1, FS_CardinalityType
<1>3. /\ IsFiniteSet(S \cup {w})
      /\ Cardinality(S \cup {w}) = IF w \in S THEN Cardinality(S) ELSE Cardinality(S) + 1
  BY <1>1, FS_AddElement
<1>4. Cardinality(T) <= Cardinality(S \cup {w})
  <2>1. T \subseteq S \cup {w}
    OBVIOUS
  <2> QED
    BY <1>3, <2>1, FS_Subset
<1>5. ASSUME w \notin T PROVE Cardinality(T) <= Cardinality(S)
  <2>1. T \subseteq S
    BY <1>5
  <2> QED
    BY <1>1, <2>1, FS_Subset
<1>6. ASSUME w \in S, w \notin T PROVE Cardinality(T) + 1 <= Cardinality(S)
  <2>1. /\ IsFiniteSet(S \ {w})
        /\ Cardinality(S \ {w}) = Cardinality(S) - 1
    BY <1>1, <1>6, FS_RemoveElement
  <2>2. T \subseteq S \ {w}
    BY <1>6
  <2>3. Cardinality(T) <= Cardinality(S \ {w})
    BY <2>1, <2>2, FS_Subset
  <2> QED
    BY <1>2, <2>1, <2>3
<1> QED
  BY <1>2, <1>3, <1>4, <1>5, <1>6

\* A step of w changes what w has claimed and what it is in debt for, nobody else's.
Others(w, row) ==
  /\ status[row] = "SENT" => status'[row] = "SENT"
  /\ \A v \in Workers : v # w => (OnItsWay(v, row) => OnItsWay(v, row)')
  /\ \A v \in Workers : v # w => (InDebt(v, row)' => InDebt(v, row))

\* How a step of w keeps a row accounted for: it adds neither a copy nor a debt nor takes
\* a claim ...
Quiet(w, row) ==
  /\ Copies(row)' = Copies(row)
  /\ faults' >= faults /\ crashes' >= crashes
  /\ InDebt(w, row)' => InDebt(w, row)
  /\ OnItsWay(w, row) => OnItsWay(w, row)' \/ status'[row] = "SENT"

\* ... or it fails ...
OneFailure ==
  \/ faults' = faults + 1 /\ crashes' = crashes
  \/ faults' = faults /\ crashes' = crashes + 1

Failing(w, row) ==
  /\ Copies(row)' = Copies(row)
  /\ OneFailure
  /\ InDebt(w, row)' => InDebt(w, row) \/ ~OnItsWay(w, row)

\* ... or it adds a copy and a claim ...
Claiming(w, row) ==
  /\ Copies(row)' = Copies(row) + 1
  /\ faults' = faults /\ crashes' = crashes
  /\ ~Claimed(row)
  /\ InDebt(w, row)' => InDebt(w, row)
  /\ OnItsWay(w, row)'

\* ... or it pays for the copy with its debt ...
Paying(w, row) ==
  /\ Copies(row)' = Copies(row) + 1
  /\ faults' = faults /\ crashes' = crashes
  /\ InDebt(w, row) /\ ~InDebt(w, row)'
  /\ OnItsWay(w, row) => OnItsWay(w, row)'

\* ... or with a failure.
Doubting(w, row) ==
  /\ Copies(row)' = Copies(row) + 1
  /\ OneFailure
  /\ InDebt(w, row)' => InDebt(w, row)
  /\ OnItsWay(w, row) => OnItsWay(w, row)'

LEMMA AccountsAdd ==
  ASSUME NEW w \in Workers, NEW row \in Rows, Accounted(row), Others(w, row),
         Copies(row) \in Nat, Copies(row)' \in Nat, faults \in Nat, crashes \in Nat,
         faults' \in Nat, crashes' \in Nat,
         \/ Quiet(w, row) \/ Failing(w, row) \/ Claiming(w, row)
         \/ Paying(w, row) \/ Doubting(w, row)
  PROVE  Accounted(row)'
<1> DEFINE S == {v \in Workers : InDebt(v, row)}
           T == {v \in Workers : InDebt(v, row)'}
<1>1. Debts(row) = Cardinality(S) /\ Debts(row)' = Cardinality(T)
  BY DEF Debts
<1>2. /\ S \in SUBSET Workers /\ T \in SUBSET Workers /\ T \ {w} \subseteq S
      /\ w \in S <=> InDebt(w, row)
      /\ w \in T <=> InDebt(w, row)'
  BY DEF Others
<1> HIDE DEF S, T
<1>3. /\ Debts(row) \in Nat /\ Debts(row)' \in Nat
      /\ Debts(row)' <= Debts(row) + 1
      /\ (InDebt(w, row)' => InDebt(w, row)) => Debts(row)' <= Debts(row)
      /\ InDebt(w, row) /\ ~InDebt(w, row)' => Debts(row)' + 1 <= Debts(row)
  BY <1>1, <1>2, DebtorsAreCounted
<1>4. (OnItsWay(w, row) => OnItsWay(w, row)' \/ status'[row] = "SENT")
        => (Claimed(row) => Claimed(row)')
  BY DEF Claimed, Others
<1>5. /\ Copies(row) + Debts(row) <= faults + crashes + 1
      /\ ~Claimed(row) => Copies(row) + Debts(row) <= faults + crashes
  BY DEF Accounted
\* The sums, with and without a claim.
<1>6. ASSUME Copies(row)' + Debts(row)' <= faults' + crashes'
      PROVE  Accounted(row)'
  BY <1>3, <1>6 DEF Accounted
<1>7. ASSUME Claimed(row)', Copies(row)' + Debts(row)' <= faults' + crashes' + 1
      PROVE  Accounted(row)'
  BY <1>7 DEF Accounted
<1>8. ASSUME Claimed(row) => Claimed(row)',
             Copies(row)' + Debts(row)' + faults + crashes
               <= Copies(row) + Debts(row) + faults' + crashes'
      PROVE  Accounted(row)'
  <2>1. CASE Claimed(row)
    <3>1. Claimed(row)'
      BY <1>8, <2>1
    <3>2. Copies(row)' + Debts(row)' <= faults' + crashes' + 1
      BY <1>3, <1>5, <1>8
    <3> QED
      BY <1>7, <3>1, <3>2
  <2>2. CASE ~Claimed(row)
    <3>1. Copies(row) + Debts(row) <= faults + crashes
      BY <1>5, <2>2
    <3>2. Copies(row)' + Debts(row)' <= faults' + crashes'
      BY <1>3, <1>8, <3>1
    <3> QED
      BY <1>6, <3>2
  <2> QED
    BY <2>1, <2>2
<1>9. CASE Quiet(w, row)
  <2>1. Debts(row)' <= Debts(row) /\ (Claimed(row) => Claimed(row)')
    BY <1>3, <1>4, <1>9 DEF Quiet
  <2>2. Copies(row)' = Copies(row) /\ faults' >= faults /\ crashes' >= crashes
    BY <1>9 DEF Quiet
  <2>3. Copies(row)' + Debts(row)' + faults + crashes
          <= Copies(row) + Debts(row) + faults' + crashes'
    BY <1>3, <2>1, <2>2
  <2> QED
    BY <1>8, <2>1, <2>3
<1>10. CASE Failing(w, row)
  <2>1. Copies(row)' = Copies(row) /\ OneFailure
    BY <1>10 DEF Failing
  <2>2. CASE OnItsWay(w, row)
    <3>1. Debts(row)' <= Debts(row)
      BY <1>3, <1>10, <2>2 DEF Failing
    <3>2. Copies(row)' + Debts(row)' <= faults' + crashes'
      BY <1>3, <1>5, <2>1, <3>1 DEF OneFailure
    <3> QED
      BY <1>6, <3>2
  <2>3. CASE ~OnItsWay(w, row)
    <3>1. Claimed(row) => Claimed(row)'
      BY <1>4, <2>3
    <3>2. Copies(row)' + Debts(row)' + faults + crashes
            <= Copies(row) + Debts(row) + faults' + crashes'
      BY <1>3, <2>1 DEF OneFailure
    <3> QED
      BY <1>8, <3>1, <3>2
  <2> QED
    BY <2>2, <2>3
<1>11. CASE Claiming(w, row)
  <2>1. Claimed(row)' /\ Debts(row)' <= Debts(row)
    BY <1>3, <1>11 DEF Claiming, Claimed
  <2>2. Copies(row)' = Copies(row) + 1 /\ faults' = faults /\ crashes' = crashes
    BY <1>11 DEF Claiming
  <2>3. Copies(row) + Debts(row) <= faults + crashes
    BY <1>5, <1>11 DEF Claiming
  <2>4. Copies(row)' + Debts(row)' <= faults' + crashes' + 1
    BY <1>3, <2>1, <2>2, <2>3
  <2> QED
    BY <1>7, <2>1, <2>4
<1>12. CASE Paying(w, row)
  <2>1. Debts(row)' + 1 <= Debts(row) /\ (Claimed(row) => Claimed(row)')
    BY <1>3, <1>4, <1>12 DEF Paying
  <2>2. Copies(row)' = Copies(row) + 1 /\ faults' = faults /\ crashes' = crashes
    BY <1>12 DEF Paying
  <2>3. Copies(row)' + Debts(row)' + faults + crashes
          <= Copies(row) + Debts(row) + faults' + crashes'
    BY <1>3, <2>1, <2>2
  <2> QED
    BY <1>8, <2>1, <2>3
<1>13. CASE Doubting(w, row)
  <2>1. Debts(row)' <= Debts(row) /\ (Claimed(row) => Claimed(row)')
    BY <1>3, <1>4, <1>13 DEF Doubting
  <2>2. Copies(row)' = Copies(row) + 1 /\ OneFailure
    BY <1>13 DEF Doubting
  <2>3. Copies(row)' + Debts(row)' + faults + crashes
          <= Copies(row) + Debts(row) + faults' + crashes'
    BY <1>3, <2>1, <2>2 DEF OneFailure
  <2> QED
    BY <1>8, <2>1, <2>3
<1> QED
  BY <1>9, <1>10, <1>11, <1>12, <1>13

\* An empty topic has no copies, and nobody is in debt.
LEMMA CopyInvInit == Init => CopyInv
<1> SUFFICES ASSUME Init, NEW row \in Rows PROVE Accounted(row)
  BY DEF CopyInv, Init
<1>1. Copies(row) = 0
  <2>1. {i \in DOMAIN log : log[i] = row} = {}
    BY DEF Init
  <2> QED
    BY <2>1, FS_EmptySet DEF Copies
<1>2. Debts(row) = 0
  <2>1. {w \in Workers : InDebt(w, row)} = {}
    BY DEF Init, InDebt
  <2> QED
    BY <2>1, FS_EmptySet DEF Debts
<1>3. faults = 0 /\ crashes = 0
  BY DEF Init
<1> QED
  BY <1>1, <1>2, <1>3 DEF Accounted

\* A row is published again only after the transaction that published it before has
\* failed, and each failure is the failure of one transaction.
LEMMA CopyInvNext == TypeInv /\ LockInv /\ PairInv /\ CopyInv /\ [Next]_vars => CopyInv'
<1> SUFFICES ASSUME TypeInv, LockInv, PairInv, CopyInv, [Next]_vars PROVE CopyInv'
  OBVIOUS
<1>0. \A w \in Workers : step[w] \in {"publish", "mark"} =>
        Oldest(todo[w]) \in todo[w] /\ Oldest(todo[w]) \in Rows
  BY OldestIsMember DEF TypeInv, TypeOK, InHand
<1>a. \A w \in Workers : todo'[w] = todo[w] => Oldest(todo[w])' = Oldest(todo[w])
  BY OldestStays
<1>b. /\ step \in [Workers -> WorkerSteps] /\ todo \in [Workers -> SUBSET Rows]
      /\ sent \in [Workers -> SUBSET Rows] /\ aborted \in [Workers -> BOOLEAN]
      /\ status \in [Rows -> RowStatus]
  BY DEF TypeInv, TypeOK
<1>c. /\ \A row \in Rows : Copies(row) \in Nat /\ Copies(row)' \in Nat
      /\ faults \in Nat /\ crashes \in Nat /\ faults' \in Nat /\ crashes' \in Nat
  <2>1. TypeInv'
    BY TypeInvNext
  <2>2. log \in Seq(Rows) /\ (log \in Seq(Rows))'
    BY <2>1 DEF TypeInv, TypeOK
  <2>3. faults \in Nat /\ crashes \in Nat /\ faults' \in Nat /\ crashes' \in Nat
    BY <2>1, BoundsAssumption DEF TypeInv, TypeOK
  <2>4. (\A row \in Rows : Copies(row) \in Nat)'
    BY <2>2, CopiesAreCounted, PTL
  <2> QED
    BY <2>2, <2>3, <2>4, CopiesAreCounted
<1>d. log' = log => \A row \in Rows : Copies(row)' = Copies(row)
  BY DEF Copies
<1>e. /\ \A w \in Workers : sent[w] \cap todo[w] = {}
      /\ \A row \in Rows : Accounted(row)
  BY DEF CopyInv
\* A worker whose transaction stands has the row it publishes for itself.
<1>f. ASSUME NEW w \in Workers, ~aborted[w], NEW row \in todo[w], step[w] = "publish"
      PROVE  ~Claimed(row)
  <2>1. row \in locked[w] /\ status[row] # "SENT"
    BY <1>f DEF LockInv
  <2>2. ASSUME NEW v \in Workers, OnItsWay(v, row) PROVE row \in locked[v]
    BY <1>0, <2>2 DEF OnItsWay, LockInv
  <2>3. ~OnItsWay(w, row)
    BY <1>e, <1>f DEF OnItsWay
  <2> QED
    BY <2>1, <2>2, <2>3 DEF LockInv, Claimed
\* What a worker claims and owes depends on nothing but its own state.
<1>g. ASSUME NEW w \in Workers, NEW row \in Rows,
             \A v \in Workers : v # w =>
               /\ step'[v] = step[v] /\ todo'[v] = todo[v] /\ sent'[v] = sent[v]
               /\ aborted'[v] <=> aborted[v],
             status[row] = "SENT" => status'[row] = "SENT"
      PROVE  Others(w, row)
  BY <1>a, <1>g DEF Others, OnItsWay, InDebt
<1>1. ASSUME NEW l \in Loans, StoreLoan(l) PROVE CopyInv'
  <2>1. ASSUME NEW row \in Rows, status[row] = "SENT" PROVE status'[row] = "SENT"
    <3>1. row[1] # l
      BY <1>1, <2>1 DEF StoreLoan, PairInv, Rows, EventTypes
    <3> QED
      BY <1>1, <2>1, <3>1 DEF StoreLoan
  <2>2. ASSUME NEW row \in Rows PROVE Accounted(row)'
    <3>1. /\ \A w \in Workers : (OnItsWay(w, row)' <=> OnItsWay(w, row))
                             /\ (InDebt(w, row)' <=> InDebt(w, row))
      BY <1>1, <1>a DEF StoreLoan, workerVars, OnItsWay, InDebt
    <3>2. Debts(row)' = Debts(row)
      BY <3>1 DEF Debts
    <3>3. Claimed(row) => Claimed(row)'
      BY <2>1, <3>1 DEF Claimed
    <3>4. Copies(row)' = Copies(row) /\ faults' = faults /\ crashes' = crashes
      BY <1>1, <1>d DEF StoreLoan
    <3> QED
      BY <1>e, <3>2, <3>3, <3>4 DEF Accounted
  <2>3. sent' = sent /\ todo' = todo
    BY <1>1 DEF StoreLoan, workerVars
  <2> QED
    BY <1>e, <2>2, <2>3 DEF CopyInv
<1>2. ASSUME NEW w \in Workers, Poll(w) PROVE CopyInv'
  <2>1. PICK T \in SUBSET Selectable : todo' = [todo EXCEPT ![w] = T]
    BY <1>2 DEF Poll
  <2>2. /\ step[w] = "sleep" /\ step' = [step EXCEPT ![w] = "publish"]
        /\ status' = status /\ sent' = sent /\ aborted' = aborted /\ log' = log
        /\ faults' = faults /\ crashes' = crashes
    BY <1>2 DEF Poll
  <2>3. sent[w] = {} /\ ~aborted[w]
    BY <2>2 DEF LockInv
  <2>4. ASSUME NEW row \in Rows PROVE Accounted(row)'
    <3>1. Others(w, row)
      BY <1>b, <1>g, <2>1, <2>2
    <3>2. ~OnItsWay(w, row) /\ ~InDebt(w, row)'
      BY <2>2, <2>3 DEF OnItsWay, InDebt
    <3> QED
      BY <1>c, <1>d, <1>e, <2>2, <3>1, <3>2, AccountsAdd DEF Quiet
  <2> QED
    BY <1>b, <1>e, <2>1, <2>2, <2>3, <2>4 DEF CopyInv
<1>3. ASSUME NEW w \in Workers, Publish(w) PROVE CopyInv'
  <2>1. PICK x \in Rows : x = Oldest(todo[w]) /\ x \in todo[w]
    BY <1>0, <1>3 DEF Publish
  <2>2. /\ step[w] = "publish" /\ step' = [step EXCEPT ![w] = "mark"] /\ log' = Append(log, x)
        /\ status' = status /\ todo' = todo /\ sent' = sent /\ aborted' = aborted
        /\ faults' = faults /\ crashes' = crashes
    BY <1>3, <2>1 DEF Publish
  <2>3. \A row \in Rows : Copies(row)' = IF row = x THEN Copies(row) + 1 ELSE Copies(row)
    BY <2>2, CopiesGrow DEF TypeInv, TypeOK
  <2>4. Oldest(todo[w])' = x
    BY <1>a, <2>1, <2>2
  <2>5. ASSUME NEW row \in Rows PROVE Accounted(row)'
    <3>1. Others(w, row)
      BY <1>b, <1>g, <2>2
    <3>2. /\ InDebt(w, row)' => InDebt(w, row) /\ row # x
          /\ OnItsWay(w, row) => OnItsWay(w, row)'
      BY <1>b, <2>2, <2>4 DEF OnItsWay, InDebt
    <3>3. CASE row # x
      BY <1>c, <1>e, <2>2, <2>3, <3>1, <3>2, <3>3, AccountsAdd DEF Quiet
    <3>4. CASE row = x /\ aborted[w]
      <4>1. InDebt(w, row)
        BY <2>1, <2>2, <3>4 DEF InDebt
      <4> QED
        BY <1>c, <1>e, <2>2, <2>3, <3>1, <3>2, <3>4, <4>1, AccountsAdd DEF Paying
    <3>5. CASE row = x /\ ~aborted[w]
      <4>1. ~Claimed(row)
        BY <1>f, <2>1, <2>2, <3>5
      <4>2. OnItsWay(w, row)'
        BY <1>b, <2>2, <2>4, <3>5 DEF OnItsWay
      <4> QED
        BY <1>c, <1>e, <2>2, <2>3, <3>1, <3>2, <3>5, <4>1, <4>2, AccountsAdd DEF Claiming
    <3> QED
      BY <3>3, <3>4, <3>5
  <2> QED
    BY <1>e, <2>2, <2>5 DEF CopyInv
<1>4. ASSUME NEW w \in Workers, PublishRefused(w) \/ PublishFails(w) PROVE CopyInv'
  <2>1. /\ step[w] = "publish" /\ todo' = [todo EXCEPT ![w] = @ \ {Oldest(@)}]
        /\ step' = [step EXCEPT ![w] = IF todo[w] = {Oldest(todo[w])} THEN "commit" ELSE "publish"]
        /\ status' = status /\ sent' = sent /\ aborted' = aborted /\ log' = log
        /\ faults' >= faults /\ crashes' = crashes
    BY <1>4, <1>c DEF PublishRefused, PublishFails, NextRow
  <2>2. ASSUME NEW row \in Rows PROVE Accounted(row)'
    <3>1. Others(w, row)
      BY <1>b, <1>g, <2>1
    <3>2. /\ InDebt(w, row)' => InDebt(w, row)
          /\ OnItsWay(w, row) => OnItsWay(w, row)'
      BY <1>b, <2>1 DEF OnItsWay, InDebt
    <3>3. Copies(row)' = Copies(row) /\ faults' >= faults /\ crashes' >= crashes
      BY <1>c, <1>d, <2>1
    <3> QED
      BY <1>c, <1>e, <3>1, <3>2, <3>3, AccountsAdd DEF Quiet
  <2> QED
    BY <1>b, <1>e, <2>1, <2>2 DEF CopyInv
<1>5. ASSUME NEW w \in Workers, PublishUnconfirmed(w) PROVE CopyInv'
  <2>1. PICK x \in Rows : x = Oldest(todo[w]) /\ x \in todo[w]
    BY <1>0, <1>5 DEF PublishUnconfirmed
  <2>2. /\ step[w] = "publish" /\ todo' = [todo EXCEPT ![w] = @ \ {x}] /\ log' = Append(log, x)
        /\ step' = [step EXCEPT ![w] = IF todo[w] = {x} THEN "commit" ELSE "publish"]
        /\ status' = status /\ sent' = sent /\ aborted' = aborted
        /\ faults' = faults + 1 /\ crashes' = crashes
    BY <1>5, <2>1 DEF PublishUnconfirmed, NextRow
  <2>3. \A row \in Rows : Copies(row)' = IF row = x THEN Copies(row) + 1 ELSE Copies(row)
    BY <2>2, CopiesGrow DEF TypeInv, TypeOK
  <2>4. ASSUME NEW row \in Rows PROVE Accounted(row)'
    <3>1. Others(w, row)
      BY <1>b, <1>g, <2>2
    <3>2. /\ InDebt(w, row)' => InDebt(w, row)
          /\ OnItsWay(w, row) => OnItsWay(w, row)'
      BY <1>b, <2>2 DEF OnItsWay, InDebt
    <3>3. faults' >= faults /\ crashes' >= crashes /\ OneFailure
      BY <1>c, <2>2 DEF OneFailure
    <3> QED
      BY <1>c, <1>e, <2>3, <3>1, <3>2, <3>3, AccountsAdd DEF Quiet, Doubting
  <2> QED
    BY <1>b, <1>e, <2>2, <2>4 DEF CopyInv
<1>6. ASSUME NEW w \in Workers, Mark(w) PROVE CopyInv'
  <2>1. PICK x \in Rows : x = Oldest(todo[w]) /\ x \in todo[w]
    BY <1>0, <1>6 DEF Mark
  <2>2. /\ step[w] = "mark" /\ todo' = [todo EXCEPT ![w] = @ \ {x}]
        /\ step' = [step EXCEPT ![w] = IF todo[w] = {x} THEN "commit" ELSE "publish"]
        /\ sent' = [sent EXCEPT ![w] = IF aborted[w] THEN @ ELSE @ \cup {x}]
        /\ status' = status /\ aborted' = aborted /\ log' = log
        /\ faults' = faults /\ crashes' = crashes
    BY <1>6, <2>1 DEF Mark, NextRow
  <2>3. ASSUME NEW row \in Rows PROVE Accounted(row)'
    <3>1. Others(w, row)
      BY <1>b, <1>g, <2>2
    <3>2. /\ InDebt(w, row)' => InDebt(w, row)
          /\ OnItsWay(w, row) => OnItsWay(w, row)'
      BY <1>b, <2>1, <2>2 DEF OnItsWay, InDebt
    <3> QED
      BY <1>c, <1>d, <1>e, <2>2, <3>1, <3>2, AccountsAdd DEF Quiet
  <2> QED
    BY <1>b, <1>e, <2>2, <2>3 DEF CopyInv
<1>7. ASSUME NEW w \in Workers, MarkFails(w) \/ ConnectionLost(w) PROVE CopyInv'
  <2>1. /\ todo'[w] \in {todo[w], todo[w] \ {Oldest(todo[w])}}
        /\ todo' = [todo EXCEPT ![w] = todo'[w]] /\ step' = [step EXCEPT ![w] = step'[w]]
        /\ sent' = [sent EXCEPT ![w] = {}] /\ aborted' = [aborted EXCEPT ![w] = TRUE]
        /\ status' = status /\ log' = log
        /\ faults' = faults + 1 /\ crashes' = crashes
    BY <1>7, <1>b DEF MarkFails, ConnectionLost, Abort, NextRow
  <2>2. \/ step[w] = "mark" /\ todo'[w] = todo[w] \ {Oldest(todo[w])}
        \/ step'[w] = step[w] /\ todo'[w] = todo[w]
    BY <1>7, <1>b DEF MarkFails, ConnectionLost, Abort, NextRow
  <2>3. ASSUME NEW row \in Rows PROVE Accounted(row)'
    <3>1. Others(w, row)
      BY <1>b, <1>g, <2>1
    <3>2. InDebt(w, row)' => ~OnItsWay(w, row)
      BY <1>a, <1>e, <2>2 DEF OnItsWay, InDebt
    <3>3. OneFailure
      BY <2>1 DEF OneFailure
    <3> QED
      BY <1>c, <1>d, <1>e, <2>1, <3>1, <3>2, <3>3, AccountsAdd DEF Failing
  <2> QED
    BY <1>b, <1>e, <2>1, <2>3 DEF CopyInv
<1>8. ASSUME NEW w \in Workers, Commit(w) \/ CommitFails(w) \/ Crash(w) PROVE CopyInv'
  <2>1. /\ step' = [step EXCEPT ![w] = "sleep"] /\ todo' = [todo EXCEPT ![w] = {}]
        /\ sent' = [sent EXCEPT ![w] = {}] /\ aborted' = [aborted EXCEPT ![w] = FALSE]
        /\ log' = log
    BY <1>8 DEF Commit, CommitFails, Crash, Release
  <2>2. ASSUME NEW row \in Rows, status[row] = "SENT" PROVE status'[row] = "SENT"
    BY <1>8, <2>2 DEF Commit, CommitFails, Crash, CommitRows, SentStatus
  <2>3. ASSUME NEW row \in Rows PROVE Accounted(row)'
    <3>1. Others(w, row)
      BY <1>b, <1>g, <2>1, <2>2
    <3>2. ~InDebt(w, row)'
      BY <1>b, <2>1 DEF InDebt
    <3>3. CASE Commit(w)
      <4>1. OnItsWay(w, row) => status'[row] = "SENT"
        BY <3>3 DEF OnItsWay, Commit, CommitRows, ToSend, SentStatus
      <4>2. faults' = faults /\ crashes' = crashes
        BY <3>3 DEF Commit
      <4> QED
        BY <1>c, <1>d, <1>e, <2>1, <3>1, <3>2, <4>1, <4>2, AccountsAdd DEF Quiet
    <3>4. CASE CommitFails(w) \/ Crash(w)
      <4>1. OneFailure
        BY <3>4 DEF CommitFails, Crash, OneFailure
      <4> QED
        BY <1>c, <1>d, <1>e, <2>1, <3>1, <3>2, <4>1, AccountsAdd DEF Failing
    <3> QED
      BY <1>8, <3>3, <3>4
  <2> QED
    BY <1>b, <1>e, <2>1, <2>3 DEF CopyInv
<1>9. CASE UNCHANGED vars
  <2>1. /\ status' = status /\ step' = step /\ todo' = todo /\ sent' = sent
        /\ aborted' = aborted /\ log' = log /\ faults' = faults /\ crashes' = crashes
    BY <1>9 DEF vars
  <2>2. ASSUME NEW row \in Rows PROVE Accounted(row)'
    <3>1. \A w \in Workers : (OnItsWay(w, row)' <=> OnItsWay(w, row))
                             /\ (InDebt(w, row)' <=> InDebt(w, row))
      BY <1>a, <2>1 DEF OnItsWay, InDebt
    <3>2. Debts(row)' = Debts(row)
      BY <3>1 DEF Debts
    <3>3. Claimed(row)' <=> Claimed(row)
      BY <2>1, <3>1 DEF Claimed
    <3> QED
      BY <1>d, <1>e, <2>1, <3>2, <3>3 DEF Accounted
  <2> QED
    BY <1>e, <2>1, <2>2 DEF CopyInv
<1> QED
  BY <1>1, <1>2, <1>3, <1>4, <1>5, <1>6, <1>7, <1>8, <1>9 DEF Next, Work, Fail

\* A consumer sees an event again only if something failed: for any number of replicas,
\* failures and crashes, each costs a row at most one extra copy, replicas alone none.
THEOREM CopiesAreBounded == Spec => []CopiesAreExplained
<1>1. TypeInv /\ CopyInv => CopiesAreExplained
  <2> SUFFICES ASSUME TypeInv, CopyInv, NEW row \in Rows
               PROVE  Copies(row) <= 1 + faults + crashes
    BY DEF CopiesAreExplained
  <2> DEFINE S == {w \in Workers : InDebt(w, row)}
  <2>1. Debts(row) = Cardinality(S) /\ S \in SUBSET Workers
    BY DEF Debts
  <2> HIDE DEF S
  <2>2. Debts(row) \in Nat
    BY <2>1, WorkersAssumption, FS_Subset, FS_CardinalityType
  <2>3. Copies(row) \in Nat /\ faults \in Nat /\ crashes \in Nat
    BY CopiesAreCounted, BoundsAssumption DEF TypeInv, TypeOK
  <2> QED
    BY <2>2, <2>3 DEF CopyInv, Accounted
<1> QED
  BY <1>1, TypeInvInit, TypeInvNext, LockInvInit, LockInvNext, PairInvInit, PairInvNext,
     CopyInvInit, CopyInvNext, PTL DEF Spec

-----------------------------------------------------------------------------
\* A status change is never ahead of its submission: in the batch of a worker the
\* submission is there too, or it is in Kafka.
OrderInv ==
  /\ SubmittedFirst
  /\ \A l \in Loans : \A w \in Workers :
       <<l, "status_changed">> \in todo[w] =>
         <<l, "submitted">> \in todo[w] \cup Published

\* Nothing is in Kafka at first.
LEMMA OrderInvInit == Init => OrderInv
BY DEF Init, OrderInv, SubmittedFirst, Published

\* One worker that takes the oldest rows first, and skips none, keeps their order.
LEMMA OrderInvNext ==
  ASSUME NEW w \in Workers, Workers = {w}, MaxFaults = 0, Outages = {{}},
         TypeInv, LockInv, SentInv, PairInv, OrderInv, [Next]_vars
  PROVE  OrderInv'
<1>0. /\ faults = 0 /\ missing = {} /\ log \in Seq(Rows)
      /\ \A l \in Loans : <<l, "submitted">> \in Rows /\ <<l, "status_changed">> \in Rows
  BY DEF TypeInv, TypeOK, Rows, EventTypes
<1>o. ASSUME NEW l \in Loans
      PROVE  ~Older(<<l, "status_changed">>, <<l, "submitted">>)
  <2>1. /\ created \in [Rows -> Nat]
        /\ created[<<l, "submitted">>] < created[<<l, "status_changed">>]
    BY StampingsAssumption DEF TypeInv, TypeOK
  <2>2. created[<<l, "submitted">>] \in Nat /\ created[<<l, "status_changed">>] \in Nat
    BY <1>0, <2>1
  <2> QED
    BY <2>1, <2>2 DEF Older
<1>a. log' = log => Published' = Published
  BY DEF Published
<1>1. ASSUME UNCHANGED log, todo'[w] \in {todo[w], {}} PROVE OrderInv'
  BY <1>1, <1>a DEF OrderInv, SubmittedFirst
<1>2. CASE Poll(w)
  <2>1. PICK T \in SUBSET Selectable : /\ IsBatch(T, Selectable)
                                       /\ todo' = [todo EXCEPT ![w] = T]
    BY <1>2 DEF Poll
  <2>2. todo'[w] = T /\ log' = log /\ locked[w] = {}
    BY <1>2, <2>1 DEF Poll, TypeInv, TypeOK, LockInv
  <2>3. ASSUME NEW l \in Loans, <<l, "status_changed">> \in T, <<l, "submitted">> \notin T
        PROVE  <<l, "submitted">> \in Published
    <3>1. ~Older(<<l, "status_changed">>, <<l, "submitted">>)
      BY <1>o
    <3>2. <<l, "submitted">> \notin Selectable
      BY <2>1, <2>3, <3>1 DEF IsBatch
    <3>3. status[<<l, "submitted">>] # "PENDING"
      BY <1>0, <2>2, <3>2 DEF Selectable
    <3>4. status[<<l, "status_changed">>] = "PENDING"
      BY <2>3 DEF Selectable
    <3>5. status[<<l, "submitted">>] = "SENT"
      BY <1>0, <3>3, <3>4 DEF PairInv, TypeInv, TypeOK, RowStatus
    <3> QED
      BY <1>0, <3>5 DEF SentInv, SentIsPublished
  <2> QED
    BY <1>a, <2>2, <2>3 DEF OrderInv, SubmittedFirst
<1>3. CASE Publish(w)
  <2>1. PICK x \in Rows : /\ x = Oldest(todo[w]) /\ x \in todo[w]
                          /\ \A y \in todo[w] \ {x} : Older(x, y)
    BY <1>3, OldestIsMember DEF Publish, TypeInv, TypeOK, InHand
  <2>2. Published' = Published \cup {x} /\ todo' = todo
    BY <1>0, <1>3, <2>1, PublishedGrows DEF Publish
  <2>3. ASSUME NEW l \in Loans, x = <<l, "status_changed">>
        PROVE  <<l, "submitted">> \in Published
    <3>1. ~Older(x, <<l, "submitted">>)
      BY <1>o, <2>3
    <3>2. <<l, "submitted">> \notin todo[w]
      BY <2>1, <2>3, <3>1
    <3> QED
      BY <2>1, <2>3, <3>2 DEF OrderInv
  <2> QED
    BY <2>2, <2>3 DEF OrderInv, SubmittedFirst
<1>4. CASE Mark(w)
  <2>1. /\ log' = log /\ todo'[w] = todo[w] \ {Oldest(todo[w])}
        /\ Oldest(todo[w]) \in Published
    BY <1>4 DEF Mark, NextRow, SentInv, TypeInv, TypeOK
  <2> QED
    BY <1>a, <2>1 DEF OrderInv, SubmittedFirst
<1>5. CASE Commit(w) \/ Crash(w)
  <2>1. log' = log /\ todo'[w] = {}
    BY <1>5 DEF Commit, Crash, Release, TypeInv, TypeOK
  <2> QED
    BY <1>1, <2>1
<1>6. ASSUME NEW l \in Loans, StoreLoan(l) PROVE OrderInv'
  BY <1>1, <1>6 DEF StoreLoan, workerVars
<1>7. CASE UNCHANGED vars
  BY <1>1, <1>7 DEF vars
<1>8. ~PublishRefused(w)
  BY <1>0 DEF PublishRefused
<1>9. ~(faults < MaxFaults)
  BY <1>0
<1> QED
  BY <1>2, <1>3, <1>4, <1>5, <1>6, <1>7, <1>8, <1>9
  DEF Next, Work, Fail, PublishFails, PublishUnconfirmed, MarkFails, ConnectionLost, CommitFails

\* What the order of the topic rests on: with one replica whose publications, updates
\* and commits do not fail, the status change of an application follows its submission
\* into Kafka, whatever crashes in between.  (A second replica breaks it
\* when a batch of the first ends between the two rows.)
THEOREM OneCalmWorkerKeepsOrder ==
  ASSUME NEW w, Workers = {w}, MaxFaults = 0, Outages = {{}}
  PROVE  Spec => []SubmittedFirst
<1>1. TypeInv /\ LockInv /\ SentInv /\ PairInv /\ OrderInv /\ [Next]_vars => OrderInv'
  BY OrderInvNext
<1>2. OrderInv => SubmittedFirst
  BY DEF OrderInv
<1> QED
  BY <1>1, <1>2, TypeInvInit, TypeInvNext, LockInvInit, LockInvNext, SentInvInit, SentInvNext,
     PairInvInit, PairInvNext, OrderInvInit, PTL DEF Spec

-----------------------------------------------------------------------------
\* Empty tables and an empty topic are an empty feed.
LEMMA FeedInit == Init => Feed!FeedInit
BY DEF Init, Feed!FeedInit

\* Every step of the service is a step of the feed or leaves the feed as it is: a request
\* stores events, a publication delivers one, a commit retires what was delivered, and
\* what fails breaks it.
LEMMA FeedStep ==
  TypeInv /\ LockInv /\ SentInv /\ PairInv /\ [Next]_vars => [Feed!FeedNext]_(Feed!feedVars)
<1> SUFFICES ASSUME TypeInv, LockInv, SentInv, PairInv, [Next]_vars
             PROVE  [Feed!FeedNext]_(Feed!feedVars)
  OBVIOUS
<1>0. \A w \in Workers : step[w] \in {"publish", "mark"} =>
        /\ Oldest(todo[w]) \in Rows /\ status[Oldest(todo[w])] # "absent"
        /\ status[Oldest(todo[w])] = "SENT" => faults > 0
  BY OldestIsMember DEF TypeInv, TypeOK, InHand, LockInv
<1>a. faults \in Nat
  BY BoundsAssumption DEF TypeInv, TypeOK
<1>1. ASSUME NEW l \in Loans, StoreLoan(l) PROVE Feed!FeedNext
  <2> DEFINE S == {row \in Rows : row[1] = l}
  <2>1. \A row \in S : status[row] = "absent"
    BY <1>1 DEF StoreLoan, PairInv, Rows, EventTypes
  <2>2. \A row \in Rows : status'[row] = IF row \in S THEN "PENDING" ELSE status[row]
    BY <1>1 DEF StoreLoan
  <2>3. Feed!Store(S)
    BY <1>1, <2>1, <2>2 DEF StoreLoan, Feed!Store
  <2>4. faults' = faults
    BY <1>1 DEF StoreLoan
  <2> QED
    BY <2>3, <2>4 DEF Feed!FeedNext
<1>2. ASSUME NEW w \in Workers, step[w] = "publish", UNCHANGED status,
             log' = Append(log, Oldest(todo[w])), faults' \in {faults, faults + 1}
      PROVE  Feed!FeedNext
  <2>1. Feed!Deliver(Oldest(todo[w]))
    BY <1>0, <1>2 DEF Feed!Deliver
  <2>2. faults > 0 => faults' > 0
    BY <1>2, <1>a
  <2> QED
    BY <1>0, <1>2, <2>1, <2>2 DEF Feed!FeedNext
<1>3. ASSUME NEW w \in Workers, Commit(w) \/ CommitFails(w) PROVE Feed!FeedNext
  <2>1. PICK S \in {{}, ToSend(w)} : CommitRows(S)
    BY <1>3 DEF Commit, CommitFails
  <2>2. S \in SUBSET Rows /\ S \subseteq Feed!Delivered
    BY DEF ToSend, TypeInv, TypeOK, SentInv, Published, Feed!Delivered
  <2>3. \A row \in S : status[row] = "PENDING"
    BY DEF ToSend, TypeInv, TypeOK, LockInv
  <2>4. \A row \in Rows : status'[row] = IF row \in S THEN "SENT" ELSE status[row]
    BY <2>1 DEF CommitRows, SentStatus
  <2>5. log' = log /\ faults' \in {faults, faults + 1}
    BY <1>3 DEF Commit, CommitFails
  <2>6. Feed!Retire(S)
    BY <2>2, <2>3, <2>4, <2>5 DEF Feed!Retire
  <2>7. faults > 0 => faults' > 0
    BY <1>a, <2>5
  <2> QED
    BY <2>2, <2>6, <2>7 DEF Feed!FeedNext
<1>4. ASSUME UNCHANGED <<status, log>>, faults' = faults PROVE UNCHANGED Feed!feedVars
  BY <1>4 DEF Feed!feedVars
<1>5. ASSUME UNCHANGED <<status, log>>, faults' = faults + 1 PROVE Feed!FeedNext
  <2>1. Feed!Break
    BY <1>5, <1>a DEF Feed!Break
  <2>2. faults' > 0
    BY <1>5, <1>a
  <2> QED
    BY <2>1, <2>2 DEF Feed!FeedNext
<1>6. ASSUME NEW w \in Workers, Work(w) PROVE [Feed!FeedNext]_(Feed!feedVars)
  BY <1>2, <1>3, <1>4, <1>6 DEF Work, Poll, Publish, PublishRefused, Mark
<1>7. ASSUME NEW w \in Workers, Fail(w) PROVE [Feed!FeedNext]_(Feed!feedVars)
  BY <1>2, <1>3, <1>4, <1>5, <1>7
  DEF Fail, PublishFails, PublishUnconfirmed, MarkFails, ConnectionLost, Crash
<1>8. CASE UNCHANGED vars
  BY <1>4, <1>8 DEF vars
<1> QED
  BY <1>1, <1>6, <1>7, <1>8 DEF Next

\* The outbox keeps its promise to consumers, whatever fails and however many replicas
\* poll: an at-least-once feed of the stored events.
THEOREM OutboxIsAFeed == Spec => ImplementsFeed
BY TypeInvInit, TypeInvNext, LockInvInit, LockInvNext, SentInvInit, SentInvNext,
   PairInvInit, PairInvNext, FeedInit, FeedStep, PTL DEF Spec, ImplementsFeed, Feed!FeedSpec
=============================================================================
