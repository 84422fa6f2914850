--------------------------- MODULE MCLoanService ---------------------------
(* Small instances of LoanService for TLC. *)
EXTENDS LoanService, TLC

CONSTANTS r1, r2, r3, a1, a2

\* Requests are interchangeable, and so are the applicants: any may send any key.
Symmetry == Permutations({r1, r2, r3}) \cup Permutations({a1, a2})
=============================================================================
