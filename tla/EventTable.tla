----------------------------- MODULE EventTable -----------------------------
(***************************************************************************)
(* One Azure Table of src/webhook_gateway/idempotency.py.  A row is keyed  *)
(* by (source, event id), keeps the first envelope it was created with and *)
(* moves from "pending" to "sent", never back.  The intake inbox, the      *)
(* result outbox and the provider checkpoints are three such tables.       *)
(*                                                                         *)
(* Each operator is one request to the table service, which serialises     *)
(* requests on one row; what happens between two requests is left to the   *)
(* modules that use the table.                                             *)
(***************************************************************************)
EXTENDS Naturals, FiniteSets

CONSTANTS
    Keys,        \* row keys
    Envelopes,   \* what a row can hold in DispatchPayload
    NoEnvelope   \* the content of a row that does not exist

-----------------------------------------------------------------------------
\* Faulty variants, from which the runs' properties must tell the code apart.

MarkDone(table, k) == [table EXCEPT ![k].state = "done"]

PageOneShort(table, rank, limit) ==
    {k \in Keys : /\ table[k].state = "pending"
                  /\ Cardinality({j \in Keys : /\ table[j].state = "pending"
                                               /\ rank[j] < rank[k]}) < limit - 1}
-----------------------------------------------------------------------------
Row == [state : {"absent"}, envelope : {NoEnvelope}] \cup
       [state : {"pending", "sent"}, envelope : Envelopes]

EmptyTable == [k \in Keys |-> [state |-> "absent", envelope |-> NoEnvelope]]

(***************************************************************************)
(* create_entity: refused with ResourceExistsError, which stage()          *)
(* swallows, when the row exists.                                          *)
(***************************************************************************)
CreateEntity(table, k, v) ==
    IF table[k].state = "absent"
      THEN [table EXCEPT ![k] = [state |-> "pending", envelope |-> v]]
      ELSE table

(***************************************************************************)
(* update_entity in MERGE mode: only State changes; the service refuses it *)
(* when the row does not exist.                                            *)
(***************************************************************************)
MarkSent(table, k) ==
    IF table[k].state = "absent" THEN table
                                 ELSE [table EXCEPT ![k].state = "sent"]

PendingKeys(table) == {k \in Keys : table[k].state = "pending"}

(***************************************************************************)
(* pending(limit): the first limit pending rows in the service's row-key   *)
(* order, given by rank (an injection, the row key being a hash).          *)
(***************************************************************************)
PendingPage(table, rank, limit) ==
    {k \in PendingKeys(table) :
        Cardinality({j \in PendingKeys(table) : rank[j] < rank[k]}) < limit}
=============================================================================
