--------------------------- MODULE MCRateLimiter ---------------------------
(* Small instances of RateLimiter for TLC. *)
EXTENDS RateLimiter, TLC

CONSTANTS r1, r2, r3, r4, p1, p2

Skewed == p1 :> 0 @@ p2 :> 1

RequestSymmetry == Permutations(Requests)
=============================================================================
