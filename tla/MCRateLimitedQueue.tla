------------------------- MODULE MCRateLimitedQueue -------------------------
(***************************************************************************)
(* Instances of RateLimitedQueue for TLC: two requests to one host and one *)
(* to another.                                                             *)
(***************************************************************************)
EXTENDS RateLimitedQueue, TLC

CONSTANTS r1, r2, r3, x, y

ThreeRequests == (r1 :> x) @@ (r2 :> x) @@ (r3 :> y)

TwoRequests == (r1 :> x) @@ (r2 :> x)

MCSymmetry == Permutations(Workers)
=============================================================================
