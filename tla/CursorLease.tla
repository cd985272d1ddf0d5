---------------------------- MODULE CursorLease -----------------------------
(***************************************************************************)
(* What the cursor store promises: a request that is answered True took    *)
(* effect at one instant, when its condition held; one that is answered    *)
(* False had no effect.  A request whose reply is lost took effect in the  *)
(* same way or not at all.                                                 *)
(***************************************************************************)
CONSTANTS Owners, NoOwner, Links, NoLink

VARIABLES
    row,        \* the row of the drive
    answer      \* the last answer the store gave, and to which request

INSTANCE CursorRow

Operations == {"acquire", "renew", "commit", "release"}

Request == [op : Operations, owner : Owners, link : Links]

NoRequest == [op |-> "none", owner |-> NoOwner, link |-> NoLink]

Answer == [request : Request \cup {NoRequest}, result : BOOLEAN]

NoAnswer == [request |-> NoRequest, result |-> TRUE]

Answers(q, b) == answer' = [request |-> q, result |-> b]

Init == row = BlankRow /\ answer = NoAnswer

Permitted(q) ==
    \/ q.op = "acquire" /\ MayAcquire(row, q.owner)
    \/ q.op = "renew" /\ MayRenew(row, q.owner)
    \/ q.op = "commit" /\ MayCommit(row, q.link, q.owner)
    \/ q.op = "release" /\ MayRelease(row, q.owner)

Effect(q) ==
    CASE q.op = "acquire" -> Acquired(row, q.owner)
      [] q.op = "renew"   -> Renewed(row, q.owner)
      [] q.op = "commit"  -> Committed(row, q.link, q.owner)
      [] q.op = "release" -> Released(row, q.owner)

Grant(q) ==
    /\ Permitted(q)
    /\ row' = Effect(q)
    /\ Answers(q, TRUE) \/ UNCHANGED answer

GrantAgain(q) ==
    /\ q.op = "commit" /\ IsCommitted(row, q.link, q.owner)
    /\ Answers(q, TRUE)
    /\ UNCHANGED row

Deny(q) == Answers(q, FALSE) /\ UNCHANGED row

Seed(l) == row' = Seeded(row, l) /\ UNCHANGED answer

Expire == row' = Expired(row) /\ UNCHANGED answer

Next ==
    \/ \E q \in Request : Grant(q) \/ GrantAgain(q) \/ Deny(q)
    \/ \E l \in Links : Seed(l)
    \/ Expire

Spec == Init /\ [][Next]_<<row, answer>>
=============================================================================
