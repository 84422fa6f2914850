----------------------------- MODULE MCGateway -----------------------------
(* Small instances of Gateway for TLC. *)
EXTENDS Gateway, TLC

CONSTANTS q1, q2, q3, a1, a2

\* Sign-ins, loans, and one path nobody serves.
MixedOffers ==
  {<<"POST", Login>>, <<"POST", RefreshPath>>, <<"POST", Logout>>, <<"GET", Me>>,
   <<"POST", Loans>>, <<"GET", Loan("7f3c")>>, <<"GET", <<"nope">>>>}

RequestSymmetry == Permutations(Requests)
=============================================================================
