---------------------------- MODULE OneDriveSync ----------------------------
(***************************************************************************)
(* The OneDrive delta job: process_event of function_app.py for an event   *)
(* of source onedrive, OneDriveDeltaProcessor of onedrive_sync.py,         *)
(* _dispatch_result_record with its cursor acknowledgement, the result     *)
(* timer, and the seeding of the cursor by _ensure_onedrive_subscription.  *)
(*                                                                         *)
(* The requests to the cursor store are atomic here, and each may be       *)
(* refused though its condition holds (a lost ETag race): CursorTable      *)
(* implements that.  The drive is a sequence of changes, and a delta link  *)
(* the number of the last change it is past.                               *)
(***************************************************************************)
EXTENDS Naturals, FiniteSets

LOCAL INSTANCE FiniteSetsExt

CONSTANTS
    Jobs,          \* queued drive.updated events, none of them equal
    Workers,       \* function instances, one message at a time each
    MaxDelivery,   \* maxDeliveryCount of the queue
    MaxRuns,       \* bound on the deliveries of all jobs together
    MaxChanges,    \* bound on the changes of the drive
    Seeders,       \* invocations of _ensure_onedrive_subscription that overlap
    NoLink,
    NoOwner,
    NoRange

ASSUME SyncConstants ==
    /\ MaxDelivery \in Nat \ {0}
    /\ MaxRuns \in Nat
    /\ MaxChanges \in Nat
    /\ NoLink \notin Nat

Positions == 0..MaxChanges

\* Every run of process() draws a fresh uuid; a run is a delivery of a job.
Owners == Jobs \X (1..MaxDelivery)

ASSUME OwnersAreNamed == NoOwner \notin Owners

\* The part of a private result record that matters: which changes it reports
\* and its _checkpoint.
Ranges == [from : Positions, to : Positions, owner : Owners]

VARIABLES
    head,          \* the number of changes made to the drive
    row,           \* the cursor row
    message,       \* the queue's view of the message of each job
    worker,        \* the local state of each worker
    results,       \* the result-outbox rows
    timer,         \* the local state of dispatch_pending_results
    seeder,        \* the local state of each seeder
    published,     \* public results the results queue has taken
    base,          \* history: the changes that preceded the first cursor
    overwritten    \* history: what seedings have written over

vars ==
    <<head, row, message, worker, results, timer, seeder, published, base, overwritten>>

history == <<base, overwritten>>

INSTANCE CursorRow WITH Links <- Positions

INSTANCE PeekLock

R == INSTANCE EventTable WITH
       Keys <- Jobs, Envelopes <- Ranges, NoEnvelope <- NoRange

Public == [job : Jobs, range : Ranges]

WorkerState ==
    [pc : {"idle"}] \cup
    [pc : {"get", "acquire", "cursor"}, job : Jobs, owner : Owners] \cup
    [pc : {"list"}, job : Jobs, owner : Owners, link : Positions \cup {NoLink}] \cup
    [pc : {"renew", "stage", "created", "existed", "publish", "ack", "mark"},
     job : Jobs, owner : Owners, range : Ranges] \cup
    [pc : {"abandon"}, job : Jobs, owner : Owners, range : Ranges, sent : BOOLEAN]

TimerState ==
    [pc : {"idle"}] \cup
    [pc : {"loop"}, page : SUBSET Jobs] \cup
    [pc : {"ack", "mark"}, page : SUBSET Jobs, job : Jobs]

SeederState == [pc : {"idle", "list"}] \cup [pc : {"set"}, link : Positions]

Idle == [pc |-> "idle"]

Init ==
    /\ head = 0
    /\ row = BlankRow
    /\ message = [j \in Jobs |-> Queued]
    /\ worker = [w \in Workers |-> Idle]
    /\ results = R!EmptyTable
    /\ timer = Idle
    /\ seeder = [s \in Seeders |-> Idle]
    /\ published = {}
    /\ base = 0
    /\ overwritten = {}
-----------------------------------------------------------------------------
(***************************************************************************)
(* Faulty variants, from which the runs' properties must tell the code     *)
(* apart.                                                                  *)
(***************************************************************************)
SendErrorSwallowed(j, r) == published

OwnRangeWins(w) == worker[w].range
-----------------------------------------------------------------------------
Change ==
    /\ head < MaxChanges
    /\ head' = head + 1
    /\ UNCHANGED <<row, message, worker, results, timer, seeder, published, history>>

\* LeaseUntil passes.
Expire ==
    /\ row.live
    /\ row' = Expired(row)
    /\ UNCHANGED <<head, message, worker, results, timer, seeder, published, history>>

\* Deliveries so far; when none is left, a lost lock is no different from a kept
\* one.
Runs == MapThenSumSet(LAMBDA j : message[j].deliveries, Jobs)

Deliver(w, j) ==
    /\ worker[w].pc = "idle"
    /\ message[j].state = "queued"
    /\ Runs < MaxRuns
    /\ message' = [message EXCEPT ![j] = Locked(@, w)]
    /\ worker' = [worker EXCEPT ![w] =
         [pc |-> "get", job |-> j, owner |-> <<j, message'[j].deliveries>>]]
    /\ UNCHANGED <<head, row, results, timer, seeder, published, history>>

LoseLock(j) ==
    /\ message[j].state = "locked"
    /\ Runs < MaxRuns
    /\ message' = [message EXCEPT ![j] = GivenBack(@)]
    /\ UNCHANGED <<head, row, worker, results, timer, seeder, published, history>>

Return(w) ==
    /\ worker' = [worker EXCEPT ![w] = Idle]
    /\ message' = [message EXCEPT ![worker[w].job] = Completed(@, w)]

\* release() of the worker's own lease, which may also be refused.
ReleaseOwn(o) == row' \in {row} \cup {r \in {Released(row, o)} : MayRelease(row, o)}

(***************************************************************************)
(* A step fails.  process() releases the lease on its way out, a failure   *)
(* after process() keeps it, and an acquire whose reply is lost leaves a   *)
(* lease that nobody holds.                                                *)
(***************************************************************************)
Raise(w) ==
    LET o == worker[w].owner IN
    /\ \/ worker[w].pc \in {"get", "stage", "created", "existed", "abandon"} /\ UNCHANGED row
       \/ worker[w].pc = "acquire" /\ row' \in {row} \cup
            {r \in {Acquired(row, o)} : MayAcquire(row, o)}
       \/ worker[w].pc \in {"cursor", "list", "renew"} /\ ReleaseOwn(o)
    /\ worker' = [worker EXCEPT ![w] = Idle]
    /\ message' = [message EXCEPT ![worker[w].job] = Abandoned(@, w)]
    /\ UNCHANGED <<head, results, timer, seeder, published, history>>

Crash(w) ==
    /\ worker[w].pc # "idle"
    /\ worker' = [worker EXCEPT ![w] = Idle]
    /\ UNCHANGED <<head, row, message, results, timer, seeder, published, history>>
-----------------------------------------------------------------------------
(***************************************************************************)
(* process_event: a stored result is dispatched again, or dropped if sent. *)
(***************************************************************************)
GetResult(w) ==
    LET stored == results[worker[w].job] IN
    /\ worker[w].pc = "get"
    /\ \/ /\ stored.state = "absent"
          /\ worker' = [worker EXCEPT ![w].pc = "acquire"]
          /\ UNCHANGED message
       \/ /\ stored.state = "pending"
          /\ worker' = [worker EXCEPT ![w] =
               [pc |-> "publish", job |-> @.job, owner |-> @.owner, range |-> stored.envelope]]
          /\ UNCHANGED message
       \/ stored.state = "sent" /\ Return(w)
    /\ UNCHANGED <<head, row, results, timer, seeder, published, history>>

(***************************************************************************)
(* OneDriveDeltaProcessor.process: take the lease, read the cursor, list   *)
(* the changes after it, renew the lease.  A drive without a cursor, or    *)
(* whose cursor has expired, is listed from the beginning.                 *)
(***************************************************************************)
Acquire(w) ==
    /\ worker[w].pc = "acquire"
    /\ MayAcquire(row, worker[w].owner)
    /\ row' = Acquired(row, worker[w].owner)
    /\ worker' = [worker EXCEPT ![w].pc = "cursor"]
    /\ UNCHANGED <<head, message, results, timer, seeder, published, history>>

ReadCursor(w) ==
    /\ worker[w].pc = "cursor"
    /\ worker' = [worker EXCEPT ![w] =
         [pc |-> "list", job |-> @.job, owner |-> @.owner, link |-> row.link]]
    /\ UNCHANGED <<head, row, message, results, timer, seeder, published, history>>

ListDelta(w) ==
    /\ worker[w].pc = "list"
    /\ \E from \in {0} \cup ({worker[w].link} \ {NoLink}) :
         worker' = [worker EXCEPT ![w] =
           [pc |-> "renew", job |-> @.job, owner |-> @.owner,
            range |-> [from |-> from, to |-> head, owner |-> @.owner]]]
    /\ UNCHANGED <<head, row, message, results, timer, seeder, published, history>>

Renew(w) ==
    /\ worker[w].pc = "renew"
    /\ MayRenew(row, worker[w].owner)
    /\ row' = Renewed(row, worker[w].owner)
    /\ worker' = [worker EXCEPT ![w].pc = "stage"]
    /\ UNCHANGED <<head, message, results, timer, seeder, published, history>>

(***************************************************************************)
(* Stage the result, first wins, read back which one is stored, and give   *)
(* up the lease of a result that was not.                                  *)
(***************************************************************************)
Stage(w) ==
    LET j == worker[w].job IN
    /\ worker[w].pc = "stage"
    /\ results' = R!CreateEntity(results, j, worker[w].range)
    /\ worker' = [worker EXCEPT ![w].pc =
         IF results[j].state = "absent" THEN "created" ELSE "existed"]
    /\ UNCHANGED <<head, row, message, timer, seeder, published, history>>

StoredRange(w) == results[worker[w].job].envelope

\* If the stored result was sent already there is nothing left to do.
Proceed(w, range, sent) ==
    \/ sent /\ Return(w)
    \/ /\ ~sent
       /\ worker' = [worker EXCEPT ![w] =
            [pc |-> "publish", job |-> @.job, owner |-> @.owner, range |-> range]]
       /\ UNCHANGED message

Reread(w) ==
    LET sent == results[worker[w].job].state = "sent" IN
    /\ \/ worker[w].pc = "created" /\ Proceed(w, StoredRange(w), sent)
       \/ /\ worker[w].pc = "existed"
          /\ worker' = [worker EXCEPT ![w] =
               [pc |-> "abandon", job |-> @.job, owner |-> @.owner,
                range |-> StoredRange(w), sent |-> sent]]
          /\ UNCHANGED message
    /\ UNCHANGED <<head, row, results, timer, seeder, published, history>>

Abandon(w) ==
    /\ worker[w].pc = "abandon"
    /\ ReleaseOwn(worker[w].owner)
    /\ Proceed(w, worker[w].range, worker[w].sent)
    /\ UNCHANGED <<head, results, timer, seeder, published, history>>

(***************************************************************************)
(* _dispatch_result_record: publish, commit the cursor in the name of the  *)
(* run that produced the result, mark the row.  A commit that is refused   *)
(* is logged and the row is marked all the same; any other failure leaves  *)
(* the row to the timer.                                                   *)
(***************************************************************************)
HandOver(j, r) == published \cup {[job |-> j, range |-> r]}

Publish(w) ==
    /\ worker[w].pc = "publish"
    /\ published' = HandOver(worker[w].job, worker[w].range)
    /\ worker' = [worker EXCEPT ![w].pc = "ack"]
    /\ UNCHANGED <<head, row, message, results, timer, seeder, history>>

\* commit(), which may also be refused, or be done already.
Commit(r) ==
    row' \in {row} \cup {c \in {Committed(row, r.to, r.owner)} :
                           ~IsCommitted(row, r.to, r.owner) /\ MayCommit(row, r.to, r.owner)}

Acknowledge(w) ==
    /\ worker[w].pc = "ack"
    /\ Commit(worker[w].range)
    /\ worker' = [worker EXCEPT ![w].pc = "mark"]
    /\ UNCHANGED <<head, message, results, timer, seeder, published, history>>

Mark(w) ==
    /\ worker[w].pc = "mark"
    /\ results' = R!MarkSent(results, worker[w].job)
    /\ Return(w)
    /\ UNCHANGED <<head, row, timer, seeder, published, history>>

Defer(w) ==
    /\ worker[w].pc \in {"publish", "ack", "mark"}
    /\ IF worker[w].pc = "ack" THEN Commit(worker[w].range) ELSE UNCHANGED row
    /\ Return(w)
    /\ UNCHANGED <<head, results, timer, seeder, published, history>>
-----------------------------------------------------------------------------
(***************************************************************************)
(* dispatch_pending_results: the same for each row of a page of pending    *)
(* rows, which may have been marked since.  A stored result never changes, *)
(* so the page need only name the jobs.                                    *)
(***************************************************************************)
TimerList ==
    /\ timer.pc = "idle"
    /\ R!PendingKeys(results) # {}
    /\ timer' = [pc |-> "loop", page |-> R!PendingKeys(results)]
    /\ UNCHANGED <<head, row, message, worker, results, seeder, published, history>>

TimerPublish(j) ==
    /\ timer.pc = "loop"
    /\ j \in timer.page
    /\ published' = HandOver(j, results[j].envelope)
    /\ timer' = [pc |-> "ack", page |-> timer.page \ {j}, job |-> j]
    /\ UNCHANGED <<head, row, message, worker, results, seeder, history>>

TimerAcknowledge ==
    /\ timer.pc = "ack"
    /\ Commit(results[timer.job].envelope)
    /\ timer' = [timer EXCEPT !.pc = "mark"]
    /\ UNCHANGED <<head, message, worker, results, seeder, published, history>>

\* The invocation ends with its page.
TimerNext(page) ==
    timer' = IF page = {} THEN Idle ELSE [pc |-> "loop", page |-> page]

TimerMark ==
    /\ timer.pc = "mark"
    /\ results' = R!MarkSent(results, timer.job)
    /\ TimerNext(timer.page)
    /\ UNCHANGED <<head, row, message, worker, seeder, published, history>>

TimerSkip ==
    /\ \/ /\ timer.pc = "loop"
          /\ \E j \in timer.page : TimerNext(timer.page \ {j})
       \/ timer.pc \in {"ack", "mark"} /\ TimerNext(timer.page)
    /\ UNCHANGED <<head, row, message, worker, results, seeder, published, history>>

TimerEnd ==
    /\ timer.pc # "idle"
    /\ timer' = Idle
    /\ UNCHANGED <<head, row, message, worker, results, seeder, published, history>>
-----------------------------------------------------------------------------
(***************************************************************************)
(* _ensure_onedrive_subscription: if the cursor has no link, ask for the   *)
(* latest one and write it, whatever the row then holds.  Bootstrap        *)
(* requests and the maintenance timer run it at once, and jobs go on: by   *)
(* then another may have seeded the cursor, taken the lease or committed.  *)
(***************************************************************************)
NeedsSeed == row.link = NoLink

SeederRead(s) ==
    /\ seeder[s].pc = "idle"
    /\ NeedsSeed
    /\ seeder' = [seeder EXCEPT ![s] = [pc |-> "list"]]
    /\ UNCHANGED <<head, row, message, worker, results, timer, published, history>>

SeederList(s) ==
    /\ seeder[s].pc = "list"
    /\ seeder' = [seeder EXCEPT ![s] = [pc |-> "set", link |-> head]]
    /\ UNCHANGED <<head, row, message, worker, results, timer, published, history>>

\* Another link than l, or a lease under which the drive is listed from the beginning.
WrittenOver(l) ==
    IF row.link = NoLink THEN {x \in {"lease"} : row.owner # NoOwner}
                         ELSE {x \in {"link"} : row.link # l}

SeederSet(s) ==
    LET l == seeder[s].link IN
    /\ seeder[s].pc = "set"
    /\ row' = Seeded(row, l)
    /\ base' = IF row.link = NoLink THEN l ELSE base
    /\ overwritten' = overwritten \cup WrittenOver(l)
    /\ seeder' = [seeder EXCEPT ![s] = Idle]
    /\ UNCHANGED <<head, message, worker, results, timer, published>>

SeederFail(s) ==
    /\ seeder[s].pc # "idle"
    /\ seeder' = [seeder EXCEPT ![s] = Idle]
    /\ UNCHANGED <<head, row, message, worker, results, timer, published, history>>
-----------------------------------------------------------------------------
WorkerStep(w) ==
    \/ GetResult(w) \/ Acquire(w) \/ ReadCursor(w) \/ ListDelta(w) \/ Renew(w)
    \/ Stage(w) \/ Reread(w) \/ Abandon(w) \/ Publish(w) \/ Acknowledge(w) \/ Mark(w)

WorkerFault(w) == Raise(w) \/ Crash(w) \/ Defer(w)

TimerStep ==
    \/ TimerList \/ TimerAcknowledge \/ TimerMark \/ TimerSkip \/ TimerEnd
    \/ \E j \in Jobs : TimerPublish(j)

SeederStep(s) == SeederRead(s) \/ SeederList(s) \/ SeederSet(s) \/ SeederFail(s)

Next ==
    \/ Change \/ Expire \/ TimerStep
    \/ \E s \in Seeders : SeederStep(s)
    \/ \E w \in Workers : WorkerStep(w) \/ WorkerFault(w)
    \/ \E w \in Workers, j \in Jobs : Deliver(w, j)
    \/ \E j \in Jobs : LoseLock(j)

Spec == Init /\ [][Next]_vars
-----------------------------------------------------------------------------
TypeOK ==
    /\ head \in Positions
    /\ row \in Row
    /\ message \in [Jobs -> MessageState]
    /\ worker \in [Workers -> WorkerState]
    /\ results \in [Jobs -> R!Row]
    /\ timer \in TimerState
    /\ seeder \in [Seeders -> SeederState]
    /\ published \subseteq Public
    /\ base \in Positions
    /\ overwritten \subseteq {"link", "lease"}

Reported(c) == \E p \in published : p.range.from < c /\ c <= p.range.to

(***************************************************************************)
(* intake.py:282 "equivalent updates can be collapsed into one delta job   *)
(* without losing file changes": the cursor never moves past a change that *)
(* no published result reports.  Only those before the first cursor of the *)
(* drive are not owed.  The code does not keep this.                       *)
(***************************************************************************)
NoChangeSkipped ==
    row.link # NoLink => \A c \in (base + 1)..row.link : Reported(c)

(***************************************************************************)
(* What it does keep: however seeders, jobs and the timer overlap, a       *)
(* change is skipped only if a seeding has replaced a link, one that       *)
(* another seeder or a job wrote after this seeder had found none.         *)
(***************************************************************************)
OnlySeedingSkips == "link" \notin overwritten => NoChangeSkipped

(***************************************************************************)
(* webhook-setup.md:32 "owner-conditional cursor commit": until a seeding  *)
(* has replaced a link, or set the first one under the lease of a job that *)
(* lists the drive from the beginning, the cursor never goes back,         *)
(* although workers that lost their lease, and the timer, commit late.     *)
(***************************************************************************)
OnlySeedingGoesBack ==
    [][overwritten' = {} /\ row.link # NoLink => row'.link >= row.link]_vars

(***************************************************************************)
(* A cursor that was committed rather than seeded is backed by a result    *)
(* that the results queue has taken: publication precedes the commit.      *)
(***************************************************************************)
CommitIsPublished ==
    row.committed # NoOwner =>
        \E p \in published : p.range.owner = row.committed /\ p.range.to = row.link

(***************************************************************************)
(* Two deliveries of one job, with two leases and two lists of changes,    *)
(* publish the same result: the one that is stored.                        *)
(***************************************************************************)
ResultsAgree ==
    \A p \in published :
        results[p.job].state # "absent" /\ results[p.job].envelope = p.range
=============================================================================
