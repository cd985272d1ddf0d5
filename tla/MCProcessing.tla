---------------------------- MODULE MCProcessing ----------------------------
(***************************************************************************)
(* Instances of Processing for TLC: an OpenAI callback next to an event    *)
(* that both providers analyse, or one of them.                            *)
(***************************************************************************)
EXTENDS Processing, TLC

CONSTANTS ev, cb, openai, claude

BothRoutes == (ev :> <<openai, claude>>) @@ (cb :> <<>>)

OneRoute == (ev :> <<openai>>) @@ (cb :> <<>>)

BothRanks == (ev :> 1) @@ (cb :> 2)

MCSymmetry == Permutations(Workers)
=============================================================================
