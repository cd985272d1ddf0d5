----------------------------- MODULE CursorRow ------------------------------
(***************************************************************************)
(* The row of one drive in the delta cursor table of                       *)
(* src/webhook_gateway/onedrive_sync.py: the delta link, and the lease     *)
(* under which a worker reads the drive.  Each request to the store is a   *)
(* condition on the row and a new row.                                     *)
(*                                                                         *)
(* live stands for LeaseUntil > now.  A row with no link and no owner      *)
(* stands for a row that does not exist: no request tells them apart.      *)
(***************************************************************************)
CONSTANTS
    Owners,      \* lease_owner uuids
    NoOwner,     \* the empty LeaseOwner or CommittedLeaseOwner
    Links,       \* delta links
    NoLink

Row == [link : Links \cup {NoLink}, owner : Owners \cup {NoOwner},
        live : BOOLEAN, committed : Owners \cup {NoOwner}]

BlankRow ==
    [link |-> NoLink, owner |-> NoOwner, live |-> FALSE, committed |-> NoOwner]
-----------------------------------------------------------------------------
\* Faulty variants, from which the runs' properties must tell the code apart.

CommitsAnyway(row, l, o) == TRUE

SwappedCommit(row, l, o) ==
    [link |-> o, owner |-> NoOwner, live |-> FALSE, committed |-> l]
-----------------------------------------------------------------------------
MayAcquire(row, o) == row.live => row.owner = o

Acquired(row, o) ==
    [row EXCEPT !.owner = o, !.live = TRUE, !.committed = NoOwner]

\* Only the owner is compared: an expired lease nobody took is renewed.
MayRenew(row, o) == row.owner = o

Renewed(row, o) == [row EXCEPT !.live = TRUE]

\* A commit that is repeated after a lost reply succeeds without a write.
IsCommitted(row, l, o) == row.link = l /\ row.committed = o

MayCommit(row, l, o) == row.owner = o

Committed(row, l, o) ==
    [link |-> l, owner |-> NoOwner, live |-> FALSE, committed |-> o]

MayRelease(row, o) == row.owner = o

Released(row, o) == [row EXCEPT !.owner = NoOwner, !.live = FALSE]

\* set(): an unconditional upsert in MERGE mode, which leaves the lease alone.
Seeded(row, l) == [row EXCEPT !.link = l, !.committed = NoOwner]

Expired(row) == [row EXCEPT !.live = FALSE]
=============================================================================
