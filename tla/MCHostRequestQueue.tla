------------------------- MODULE MCHostRequestQueue -------------------------
(***************************************************************************)
(* Instance of HostRequestQueue for TLC: two requests to one host and one  *)
(* to another.                                                             *)
(***************************************************************************)
EXTENDS HostRequestQueue, TLC

CONSTANTS r1, r2, r3, x, y

ThreeRequests == (r1 :> x) @@ (r2 :> x) @@ (r3 :> y)
=============================================================================
