------------------------------ MODULE MCIntake ------------------------------
(***************************************************************************)
(* Instances of Intake for TLC.  Safety: two github deliveries of one      *)
(* repository that compete for one unit of quota a day over two days, g1   *)
(* sent again with a fresh received_at, the id of g2 used again for        *)
(* another content.  Liveness: an oversize row of another source, listed   *)
(* before the others, and a delivery the policy ignores.                   *)
(***************************************************************************)
EXTENDS Intake, TLC

CONSTANTS g1, g2, s, a, a2, b

MCContentOf == [v \in {a, a2, b} |-> IF v = b THEN "b" ELSE "a"]

MCRowRank == (s :> 1) @@ (g1 :> 2) @@ (g2 :> 3)

Req(e, v) == [event |-> e, envelope |-> v]

SafetyRequests == {Req(g1, a), Req(g1, a2), Req(g2, a), Req(g2, b)}

SafetyRank == (g1 :> 1) @@ (g2 :> 2)

LivenessRequests == {Req(g1, a), Req(g2, b), Req(s, a)}

MCSymmetry == Permutations(Handlers)
=============================================================================
