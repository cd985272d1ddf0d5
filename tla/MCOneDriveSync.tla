--------------------------- MODULE MCOneDriveSync ---------------------------
(***************************************************************************)
(* Instances of OneDriveSync for TLC.                                      *)
(***************************************************************************)
EXTENDS OneDriveSync, TLC

MCSymmetry ==
    Permutations(Workers) \cup Permutations(Jobs) \cup Permutations(Seeders)

(***************************************************************************)
(* States that differ only in what no later step reads, and no property    *)
(* but TypeOK speaks of, are one: the messages once all deliveries are     *)
(* used up, and the owner of a worker that has a stored result to          *)
(* dispatch, which acknowledges in the name of the result's owner.         *)
(***************************************************************************)
MCMessages == IF Runs < MaxRuns THEN message ELSE <<>>

MCWorker(w) ==
    IF worker[w].pc \in {"publish", "ack", "mark"}
    THEN <<worker[w].pc, worker[w].job, worker[w].range>>
    ELSE worker[w]

MCView ==
    <<head, row, MCMessages, [w \in Workers |-> MCWorker(w)], results, timer, seeder,
      published, history>>
=============================================================================
