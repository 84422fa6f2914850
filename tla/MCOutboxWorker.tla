--------------------------- MODULE MCOutboxWorker ---------------------------
(* Small instances of OutboxWorker for TLC. *)
EXTENDS OutboxWorker

CONSTANTS w1, w2

\* The events of loan 1 are made before those of the other loan, type by type: all of
\* them before, or in between.
AnyStamping ==
  {stamp \in [Rows -> 1..Cardinality(Rows)] :
     /\ \A x, y \in Rows : stamp[x] = stamp[y] => x = y
     /\ \A m \in Loans : stamp[<<m, "submitted">>] < stamp[<<m, "status_changed">>]
     /\ \A x \in Rows : stamp[<<1, x[2]>>] <= stamp[x]}
=============================================================================
