----------------------------- MODULE EventFeed -----------------------------
(***************************************************************************)
(* What the transactional outbox promises its consumers: an at-least-once  *)
(* feed.  An event that is stored stays due until it has been delivered at *)
(* least once; only then may it be retired, and unless something broke a   *)
(* retired event is not delivered again.  Nothing that was not stored is   *)
(* delivered.                                                              *)
(***************************************************************************)
EXTENDS Sequences

CONSTANT Rows   \* the events that may be stored

VARIABLES
  stored,     \* events committed with their application
  delivered,  \* the feed, in the order of delivery
  retired,    \* events that are no longer due
  broken      \* something has broken in the outbox

feedVars == <<stored, delivered, retired, broken>>

Delivered == {delivered[i] : i \in DOMAIN delivered}

FeedInit == stored = {} /\ delivered = <<>> /\ retired = {} /\ broken = FALSE

Store(S) ==
  /\ S \cap stored = {}
  /\ stored' = stored \cup S
  /\ UNCHANGED <<delivered, retired>>

Deliver(row) ==
  /\ row \in stored
  /\ row \in retired => broken
  /\ delivered' = Append(delivered, row)
  /\ UNCHANGED <<stored, retired>>

Retire(S) ==
  /\ S \subseteq Delivered
  /\ retired' = retired \cup S
  /\ UNCHANGED <<stored, delivered>>

Break == broken' /\ UNCHANGED <<stored, delivered, retired>>

\* A step that stores, delivers or retires may break something as well.
FeedNext ==
  /\ broken => broken'
  /\ \/ \E S \in SUBSET Rows : Store(S) \/ Retire(S)
     \/ \E row \in Rows : Deliver(row)
     \/ Break

FeedSpec == FeedInit /\ [][FeedNext]_feedVars
=============================================================================
