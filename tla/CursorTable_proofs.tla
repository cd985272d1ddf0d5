------------------------- MODULE CursorTable_proofs -------------------------
(***************************************************************************)
(* The reads and conditional writes of CursorTable implement the atomic    *)
(* requests of CursorLease, for any clients, owners and links.             *)
(***************************************************************************)
EXTENDS CursorTable, TLAPS

(***************************************************************************)
(* An entity whose ETag is still current is the row, except that its lease *)
(* may have expired meanwhile, and the request was allowed on it.  No      *)
(* client has seen an ETag that is yet to come.                            *)
(***************************************************************************)
SameRow(entity) ==
    /\ entity.link = row.link
    /\ entity.owner = row.owner
    /\ entity.committed = row.committed
    /\ row.live => entity.live

AllowedOn(q, entity) ==
    \/ q.op = "acquire" /\ MayAcquire(entity, q.owner)
    \/ q.op = "renew" /\ MayRenew(entity, q.owner)
    \/ q.op = "commit" /\ MayCommit(entity, q.link, q.owner)
    \/ q.op = "release" /\ MayRelease(entity, q.owner)

ReadIsCurrent(c) ==
    client[c].pc = "write" =>
        /\ client[c].etag <= etag
        /\ AllowedOn(client[c].request, client[c].entity)
        /\ client[c].etag = etag => SameRow(client[c].entity)

IInv == TypeOK /\ \A c \in Clients : ReadIsCurrent(c)
-----------------------------------------------------------------------------
LEMMA Busy ==
  ASSUME TypeOK, NEW c \in Clients, client[c].pc # "idle"
  PROVE  /\ client[c].request \in Lease!Request
         /\ client[c].pc = "write" => client[c].entity \in Row /\ client[c].etag \in Nat
  BY CursorConstants DEF TypeOK, ClientState

LEMMA WrittenRow ==
  ASSUME NEW q \in Lease!Request, NEW entity \in Row
  PROVE  Written(q, entity) \in Row
<1>1. q.op \in {"acquire", "renew", "commit", "release"} /\ q.owner \in Owners /\ q.link \in Links
  BY DEF Lease!Request, Lease!Operations
<1>2. /\ Acquired(entity, q.owner) \in Row
      /\ Renewed(entity, q.owner) \in Row
      /\ Committed(entity, q.link, q.owner) \in Row
      /\ Released(entity, q.owner) \in Row
  BY <1>1 DEF Acquired, Renewed, Committed, Released, Row
<1> QED
  BY <1>1, <1>2 DEF Written

(***************************************************************************)
(* What a request makes of the entity it read is what it would make of the *)
(* row, and it is permitted on the row: an expired lease permits more.     *)
(***************************************************************************)
LEMMA WriteIsAtomic ==
  ASSUME TypeOK, NEW q \in Lease!Request, NEW entity \in Row, SameRow(entity),
         AllowedOn(q, entity)
  PROVE  Lease!Permitted(q) /\ Written(q, entity) = Lease!Effect(q)
<1>1. q.op \in {"acquire", "renew", "commit", "release"} /\ row \in Row
  BY DEF Lease!Request, Lease!Operations, TypeOK
<1>2. Lease!Permitted(q)
  BY <1>1 DEF AllowedOn, SameRow, Lease!Permitted, MayAcquire, MayRenew, MayCommit, MayRelease,
              Lease!MayAcquire, Lease!MayRenew, Lease!MayCommit, Lease!MayRelease, Row
<1>3. /\ Acquired(entity, q.owner) = Acquired(row, q.owner)
      /\ Renewed(entity, q.owner) = Renewed(row, q.owner)
      /\ Committed(entity, q.link, q.owner) = Committed(row, q.link, q.owner)
      /\ Released(entity, q.owner) = Released(row, q.owner)
  BY <1>1 DEF SameRow, Acquired, Renewed, Committed, Released, Row
<1>4. Written(q, entity) = Lease!Effect(q)
  BY <1>1, <1>3
     DEF Written, Lease!Effect, Acquired, Renewed, Committed, Released, Lease!Acquired,
         Lease!Renewed, Lease!Committed, Lease!Released
<1> QED
  BY <1>2, <1>4
-----------------------------------------------------------------------------
LEMMA InvInit == Init => IInv
  BY CursorConstants
     DEF Init, IInv, TypeOK, ReadIsCurrent, BlankRow, Row, ClientState, Idle, Lease!NoAnswer,
         Lease!NoRequest, Lease!Answer

\* A client that returns knows nothing, and what the others read stays current
\* unless the row is written, and then their ETag is old.
LEMMA ClientReturns ==
  ASSUME IInv, NEW c \in Clients, Return(c),
         \/ UNCHANGED <<row, etag>>
         \/ etag' = etag + 1
  PROVE  client' \in [Clients -> ClientState] /\ \A d \in Clients : ReadIsCurrent(d)'
<1>1. client \in [Clients -> ClientState] /\ etag \in Nat
  BY CursorConstants DEF IInv, TypeOK
<1>2. client'[c] = Idle /\ \A d \in Clients : d # c => client'[d] = client[d]
  BY <1>1 DEF Return
<1>3. client' \in [Clients -> ClientState]
  BY <1>1 DEF Return, Idle, ClientState
<1>4. ASSUME NEW d \in Clients PROVE ReadIsCurrent(d)'
  <2>1. CASE d = c
    BY <1>2, <2>1 DEF ReadIsCurrent, Idle
  <2>2. CASE d # c /\ client[d].pc = "write"
    <3>1. ReadIsCurrent(d) /\ client'[d] = client[d] /\ client[d].etag \in Nat
      BY <1>2, <2>2, Busy DEF IInv
    <3> QED
      BY <1>1, <3>1 DEF ReadIsCurrent, SameRow
  <2> QED
    BY <1>2, <2>1, <2>2 DEF ReadIsCurrent
<1> QED
  BY <1>3, <1>4

LEMMA InvStep == IInv /\ [Next]_vars => IInv'
<1> SUFFICES ASSUME IInv, [Next]_vars PROVE IInv'
  OBVIOUS
<1>1. /\ TypeOK /\ row \in Row /\ etag \in 0..MaxWrites /\ etag \in Nat
      /\ client \in [Clients -> ClientState] /\ answer \in Lease!Answer
      /\ \A c \in Clients : ReadIsCurrent(c)
  BY CursorConstants DEF IInv, TypeOK
<1>2. ASSUME NEW c \in Clients, client[c].pc # "idle", True(c) \/ False(c)
      PROVE  answer' \in Lease!Answer
  <2>1. client[c].request \in Lease!Request
    BY <1>1, <1>2, Busy
  <2>2. \E b \in BOOLEAN : answer' = [request |-> client[c].request, result |-> b]
    BY <1>2 DEF True, False, Lease!Answers
  <2> QED
    BY <2>1, <2>2 DEF Lease!Answer
<1>3. ASSUME NEW c \in Clients, NEW q \in Lease!Request, Begin(c, q)
      PROVE  IInv'
  <2>1. client' \in [Clients -> ClientState]
    BY <1>1, <1>3 DEF Begin, ClientState
  <2>2. \A d \in Clients : ReadIsCurrent(d)'
    BY <1>1, <1>3 DEF Begin, ReadIsCurrent, SameRow
  <2> QED
    BY <1>1, <1>3, <2>1, <2>2 DEF Begin, IInv, TypeOK
<1>4. ASSUME NEW c \in Clients, Read(c)
      PROVE  IInv'
  <2> DEFINE q == client[c].request
  <2>1. q \in Lease!Request /\ client[c].pc # "idle" /\ UNCHANGED <<row, etag>>
    BY <1>1, <1>4, Busy DEF Read
  <2>2. CASE Return(c) /\ (True(c) \/ False(c))
    BY <1>1, <1>2, <2>1, <2>2, ClientReturns DEF IInv, TypeOK
  <2>3. CASE /\ Allowed(q)
             /\ client' = [client EXCEPT ![c] =
                  [pc |-> "write", request |-> q, entity |-> row, etag |-> etag]]
             /\ UNCHANGED answer
    <3>1. client' \in [Clients -> ClientState]
      BY <1>1, <2>1, <2>3 DEF ClientState
    <3>2. ReadIsCurrent(c)'
      BY <1>1, <2>1, <2>3 DEF ReadIsCurrent, SameRow, Allowed, AllowedOn
    <3>3. \A d \in Clients : d # c => ReadIsCurrent(d)'
      BY <1>1, <2>1, <2>3 DEF ReadIsCurrent, SameRow
    <3> QED
      BY <1>1, <2>1, <2>3, <3>1, <3>2, <3>3 DEF IInv, TypeOK
  <2> QED
    BY <1>4, <2>2, <2>3 DEF Read
<1>5. ASSUME NEW c \in Clients, Write(c)
      PROVE  IInv'
  <2>1. client[c].pc = "write" /\ etag < MaxWrites /\ etag' = etag + 1 /\ Return(c)
    BY <1>5 DEF Write
  <2>2. row' \in Row /\ etag' \in 0..MaxWrites
    BY <1>1, <1>5, <2>1, Busy, WrittenRow, CursorConstants DEF Write
  <2>3. answer' \in Lease!Answer
    BY <1>1, <1>2, <1>5, <2>1 DEF Write
  <2> QED
    BY <2>1, <2>2, <2>3, ClientReturns DEF IInv, TypeOK
<1>6. ASSUME NEW c \in Clients, Conflict(c) \/ Fail(c)
      PROVE  IInv'
  <2>1. client[c].pc # "idle" /\ Return(c) /\ UNCHANGED <<row, etag>>
    BY <1>6 DEF Conflict, Fail
  <2>2. answer' \in Lease!Answer
    BY <1>1, <1>2, <1>6, <2>1 DEF Conflict, Fail
  <2> QED
    BY <1>1, <2>1, <2>2, ClientReturns DEF IInv, TypeOK
<1>7. ASSUME NEW l \in Links, Set(l)
      PROVE  IInv'
  <2>1. etag' \in 0..MaxWrites /\ etag' = etag + 1 /\ UNCHANGED <<client, answer>>
    BY <1>1, <1>7, CursorConstants DEF Set
  <2>2. row' \in Row
    BY <1>1, <1>7 DEF Set, Seeded, Row
  <2>3. ASSUME NEW d \in Clients PROVE ReadIsCurrent(d)'
    <3>1. client[d].pc = "write" => client[d].etag \in Nat
      BY <1>1, Busy
    <3> QED
      BY <1>1, <2>1, <3>1 DEF ReadIsCurrent
  <2> QED
    BY <1>1, <2>1, <2>2, <2>3 DEF IInv, TypeOK
<1>8. ASSUME Expire
      PROVE  IInv'
  <2>1. row' \in Row /\ UNCHANGED <<etag, client, answer>>
    BY <1>1, <1>8 DEF Expire, Expired, Row
  <2>2. \A d \in Clients : ReadIsCurrent(d)'
    BY <1>1, <1>8 DEF Expire, Expired, ReadIsCurrent, SameRow, Row
  <2> QED
    BY <1>1, <2>1, <2>2 DEF IInv, TypeOK
<1>9. CASE UNCHANGED vars
  BY <1>1, <1>9 DEF vars, IInv, TypeOK, ReadIsCurrent, SameRow
<1> QED
  BY <1>3, <1>4, <1>5, <1>6, <1>7, <1>8, <1>9 DEF Next, Step

THEOREM Invariance == Spec => []IInv
  BY InvInit, InvStep, PTL DEF Spec

(***************************************************************************)
(* The variables keep their types.                                         *)
(***************************************************************************)
THEOREM TypeCorrect == Spec => []TypeOK
<1>1. IInv => TypeOK
  BY DEF IInv
<1> QED
  BY <1>1, Invariance, PTL
-----------------------------------------------------------------------------
(***************************************************************************)
(* A write that finds its ETag unchanged is a request that is granted at   *)
(* that moment, a read that refuses one that is denied; all other steps of *)
(* a client change nothing.                                                *)
(***************************************************************************)
LEMMA StepRefines == IInv /\ [Next]_vars => [Lease!Next]_<<row, answer>>
<1> SUFFICES ASSUME IInv, Next PROVE [Lease!Next]_<<row, answer>>
  BY DEF vars
<1>1. TypeOK /\ \A c \in Clients : ReadIsCurrent(c)
  BY DEF IInv
<1>2. ASSUME NEW c \in Clients, client[c].pc # "idle", False(c), UNCHANGED row
      PROVE  Lease!Next
  <2>1. client[c].request \in Lease!Request
    BY <1>1, <1>2, Busy
  <2> QED
    BY <1>2, <2>1 DEF False, Lease!Next, Lease!Deny
<1>3. ASSUME NEW c \in Clients, Read(c)
      PROVE  [Lease!Next]_<<row, answer>>
  <2> DEFINE q == client[c].request
  <2>1. q \in Lease!Request /\ client[c].pc # "idle" /\ UNCHANGED row
    BY <1>1, <1>3, Busy DEF Read
  <2>2. ASSUME q.op = "commit", IsCommitted(row, q.link, q.owner), True(c)
        PROVE  Lease!Next
    <3>1. Lease!GrantAgain(q)
      BY <2>1, <2>2 DEF True, Lease!GrantAgain, IsCommitted, Lease!IsCommitted
    <3> QED
      BY <2>1, <3>1 DEF Lease!Next
  <2> QED
    BY <1>2, <1>3, <2>1, <2>2 DEF Read
<1>4. ASSUME NEW c \in Clients, Write(c)
      PROVE  Lease!Next
  <2> DEFINE q == client[c].request
             entity == client[c].entity
  <2>1. /\ q \in Lease!Request /\ entity \in Row
        /\ SameRow(entity) /\ AllowedOn(q, entity)
    BY <1>1, <1>4, Busy DEF Write, Unmodified, ReadIsCurrent
  <2>2. Lease!Permitted(q) /\ row' = Lease!Effect(q)
    BY <1>1, <1>4, <2>1, WriteIsAtomic DEF Write
  <2>3. Lease!Grant(q)
    BY <1>4, <2>2 DEF Write, True, Lease!Grant
  <2> QED
    BY <2>1, <2>3 DEF Lease!Next
<1>5. ASSUME NEW c \in Clients, Conflict(c)
      PROVE  Lease!Next
  BY <1>2, <1>5 DEF Conflict
<1>6. ASSUME NEW l \in Links, Set(l)
      PROVE  Lease!Next
  BY <1>6 DEF Set, Lease!Next, Lease!Seed, Seeded, Lease!Seeded
<1>7. ASSUME Expire
      PROVE  Lease!Next
  BY <1>7 DEF Expire, Lease!Next, Lease!Expire, Expired, Lease!Expired
<1>8. ASSUME NEW c \in Clients, Fail(c) \/ \E q \in Lease!Request : Begin(c, q)
      PROVE  UNCHANGED <<row, answer>>
  BY <1>8 DEF Fail, Begin
<1> QED
  BY <1>3, <1>4, <1>5, <1>6, <1>7, <1>8 DEF Next, Step

(***************************************************************************)
(* The cursor store keeps the promise of CursorLease: each request takes   *)
(* effect at one instant, when its condition holds, or not at all, and the *)
(* answer says which.                                                      *)
(***************************************************************************)
THEOREM LeaseIsImplemented == Spec => ImplementsLease
<1>1. Init => Lease!Init
  BY DEF Init, Lease!Init, BlankRow, Lease!BlankRow
<1> QED
  BY <1>1, Invariance, StepRefines, PTL DEF Spec, ImplementsLease, Lease!Spec
=============================================================================
