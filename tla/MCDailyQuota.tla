---------------------------- MODULE MCDailyQuota ----------------------------
(***************************************************************************)
(* Instances of DailyQuota for TLC: more deliveries than units, and fewer  *)
(* invocations than deliveries, so that ids repeat.                        *)
(***************************************************************************)
EXTENDS DailyQuota, TLC

MCSymmetry == Permutations(Callers) \cup Permutations(Deliveries)
=============================================================================
