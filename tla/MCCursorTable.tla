--------------------------- MODULE MCCursorTable ----------------------------
(***************************************************************************)
(* Instance of CursorTable for TLC.                                        *)
(***************************************************************************)
EXTENDS CursorTable, TLC

MCSymmetry == Permutations(Clients)
=============================================================================
