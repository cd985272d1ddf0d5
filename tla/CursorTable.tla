---------------------------- MODULE CursorTable -----------------------------
(***************************************************************************)
(* AzureTableDeltaCursorStore of src/webhook_gateway/onedrive_sync.py: the *)
(* row of one drive in a table with optimistic concurrency.  acquire,      *)
(* renew, commit and release read the entity, decide, and write the whole  *)
(* of it back on condition that its ETag is unchanged; set overwrites.     *)
(***************************************************************************)
EXTENDS Naturals

CONSTANTS
    Clients,       \* concurrent invocations that use the store
    Owners,
    NoOwner,
    Links,
    NoLink,
    MaxWrites      \* bound on the writes explored

ASSUME CursorConstants == MaxWrites \in Nat

VARIABLES
    row,           \* the entity
    etag,          \* its version, 0 while it does not exist
    client,        \* the local state of each invocation
    answer         \* the last answer given; release returns None for either

vars == <<row, etag, client, answer>>

INSTANCE CursorRow

Lease == INSTANCE CursorLease

ClientState ==
    [pc : {"idle"}] \cup
    [pc : {"read"}, request : Lease!Request] \cup
    [pc : {"write"}, request : Lease!Request, entity : Row, etag : 0..MaxWrites]

Idle == [pc |-> "idle"]

Init ==
    /\ row = BlankRow
    /\ etag = 0
    /\ client = [c \in Clients |-> Idle]
    /\ answer = Lease!NoAnswer
-----------------------------------------------------------------------------
\* Faulty variant, from which the runs' properties must tell the code apart.

OverwritesAnyEtag(c) == TRUE
-----------------------------------------------------------------------------
Return(c) == client' = [client EXCEPT ![c] = Idle]

True(c) == Lease!Answers(client[c].request, TRUE)

False(c) == Lease!Answers(client[c].request, FALSE)

Begin(c, q) ==
    /\ client[c].pc = "idle"
    /\ client' = [client EXCEPT ![c] = [pc |-> "read", request |-> q]]
    /\ UNCHANGED <<row, etag, answer>>

(***************************************************************************)
(* _get_entity and the decision on what it returned.                       *)
(***************************************************************************)
Allowed(q) ==
    \/ q.op = "acquire" /\ MayAcquire(row, q.owner)
    \/ q.op = "renew" /\ MayRenew(row, q.owner)
    \/ q.op = "commit" /\ MayCommit(row, q.link, q.owner)
    \/ q.op = "release" /\ MayRelease(row, q.owner)

Read(c) ==
    LET q == client[c].request
        again == q.op = "commit" /\ IsCommitted(row, q.link, q.owner)
    IN
    /\ client[c].pc = "read"
    /\ \/ again /\ Return(c) /\ True(c)
       \/ ~again /\ ~Allowed(q) /\ Return(c) /\ False(c)
       \/ /\ ~again /\ Allowed(q)
          /\ client' = [client EXCEPT ![c] =
               [pc |-> "write", request |-> q, entity |-> row, etag |-> etag]]
          /\ UNCHANGED answer
    /\ UNCHANGED <<row, etag>>

(***************************************************************************)
(* create_entity, or update_entity with IfNotModified.                     *)
(***************************************************************************)
Unmodified(c) == client[c].etag = etag

Written(q, entity) ==
    CASE q.op = "acquire" -> Acquired(entity, q.owner)
      [] q.op = "renew"   -> Renewed(entity, q.owner)
      [] q.op = "commit"  -> Committed(entity, q.link, q.owner)
      [] q.op = "release" -> Released(entity, q.owner)

Write(c) ==
    /\ client[c].pc = "write"
    /\ etag < MaxWrites
    /\ Unmodified(c)
    /\ row' = Written(client[c].request, client[c].entity)
    /\ etag' = etag + 1
    /\ Return(c)
    /\ True(c) \/ UNCHANGED answer

Conflict(c) ==
    /\ client[c].pc = "write"
    /\ ~Unmodified(c)
    /\ Return(c)
    /\ False(c)
    /\ UNCHANGED <<row, etag>>

Fail(c) ==
    /\ client[c].pc # "idle"
    /\ Return(c)
    /\ UNCHANGED <<row, etag, answer>>

Set(l) ==
    /\ etag < MaxWrites
    /\ row' = Seeded(row, l)
    /\ etag' = etag + 1
    /\ UNCHANGED <<client, answer>>

\* Time passes LeaseUntil.  Nothing is written.
Expire ==
    /\ row.live
    /\ row' = Expired(row)
    /\ UNCHANGED <<etag, client, answer>>
-----------------------------------------------------------------------------
Step(c) ==
    \/ \E q \in Lease!Request : Begin(c, q)
    \/ Read(c) \/ Write(c) \/ Conflict(c) \/ Fail(c)

Next ==
    \/ \E c \in Clients : Step(c)
    \/ \E l \in Links : Set(l)
    \/ Expire

Spec == Init /\ [][Next]_vars
-----------------------------------------------------------------------------
TypeOK ==
    /\ row \in Row
    /\ etag \in 0..MaxWrites
    /\ client \in [Clients -> ClientState]
    /\ answer \in Lease!Answer

(***************************************************************************)
(* The reads and conditional writes of concurrent workers, of the result   *)
(* dispatcher and of the seeding bootstrap amount to atomic requests.      *)
(***************************************************************************)
ImplementsLease == Lease!Spec
=============================================================================
