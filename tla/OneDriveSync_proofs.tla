------------------------ MODULE OneDriveSync_proofs -------------------------
(***************************************************************************)
(* Safety of OneDriveSync for any number of jobs, workers, seeders,        *)
(* deliveries and changes.                                                 *)
(***************************************************************************)
EXTENDS OneDriveSync, TLAPS

\* The result of a job is stored, and it reports r.
Stored(j, r) == results[j].state # "absent" /\ results[j].envelope = r

DeliveriesLeft ==
    \A j \in Jobs : message[j].state = "queued" => message[j].deliveries < MaxDelivery

(***************************************************************************)
(* No two runs have the same owner: a run is a delivery that has been      *)
(* made, its worker keeps its name, and only that worker stages a result   *)
(* in that name.                                                           *)
(***************************************************************************)
IsDelivery(j, o) == o[1] = j /\ o[2] <= message[j].deliveries

OwnersAreRuns ==
    /\ \A w \in Workers :
         worker[w].pc # "idle" => IsDelivery(worker[w].job, worker[w].owner)
    /\ \A j \in Jobs :
         results[j].state # "absent" => IsDelivery(j, results[j].envelope.owner)

OwnersDiffer ==
    \A w, v \in Workers :
        w # v /\ worker[w].pc # "idle" /\ worker[v].pc # "idle" =>
            worker[w].owner # worker[v].owner

(***************************************************************************)
(* What a worker, and the timer, know at each of their steps.              *)
(***************************************************************************)
WorkerKnows(w) ==
    LET j == worker[w].job IN
    /\ worker[w].pc \in {"get", "acquire"} =>
          \A r \in Ranges : Stored(j, r) => r.owner # worker[w].owner
    /\ worker[w].pc \in {"renew", "stage"} =>
          worker[w].range.owner = worker[w].owner /\ worker[w].range.to <= head
    /\ worker[w].pc \in {"created", "existed"} => results[j].state # "absent"
    /\ worker[w].pc \in {"abandon", "publish", "ack", "mark"} => Stored(j, worker[w].range)
    /\ worker[w].pc \in {"ack", "mark"} => [job |-> j, range |-> worker[w].range] \in published

TimerKnows ==
    /\ timer.pc # "idle" => \A j \in timer.page : results[j].state # "absent"
    /\ timer.pc \in {"ack", "mark"} =>
          /\ results[timer.job].state # "absent"
          /\ [job |-> timer.job, range |-> results[timer.job].envelope] \in published

\* Nothing knows of a change that has not been made.
NoForesight ==
    /\ row.link # NoLink => row.link <= head
    /\ \A s \in Seeders : seeder[s].pc = "set" => seeder[s].link <= head
    /\ \A j \in Jobs : results[j].state # "absent" => results[j].envelope.to <= head

(***************************************************************************)
(* Where the list of a run that still has the lease begins and ends: no    *)
(* later than the cursor while no seeding has replaced a link, and no      *)
(* earlier while none has set one under the lease either.                  *)
(***************************************************************************)
Begins(r) ==
    r.owner = row.owner => IF row.link = NoLink THEN r.from = 0 ELSE r.from <= row.link

Ends(r) == r.owner = row.owner /\ row.link # NoLink => row.link <= r.to

ListsBegin ==
    /\ \A w \in Workers :
         /\ worker[w].pc = "list" /\ worker[w].owner = row.owner =>
               worker[w].link \in {NoLink, row.link}
         /\ worker[w].pc \in {"renew", "stage"} => Begins(worker[w].range)
    /\ \A j \in Jobs : results[j].state # "absent" => Begins(results[j].envelope)

ListsEnd ==
    /\ \A w \in Workers : worker[w].pc \in {"renew", "stage"} => Ends(worker[w].range)
    /\ \A j \in Jobs : results[j].state # "absent" => Ends(results[j].envelope)

IInv ==
    /\ TypeOK
    /\ DeliveriesLeft
    /\ OwnersAreRuns
    /\ OwnersDiffer
    /\ \A w \in Workers : WorkerKnows(w)
    /\ TimerKnows
    /\ NoForesight
    /\ ResultsAgree
    /\ CommitIsPublished

CursorInv ==
    /\ row.link = NoLink => base = 0
    /\ "link" \notin overwritten => ListsBegin /\ NoChangeSkipped
    /\ overwritten = {} => ListsEnd
-----------------------------------------------------------------------------
(***************************************************************************)
(* The queue's operations on a message.                                    *)
(***************************************************************************)
MessageOK(m) == m \in MessageState /\ (m.state = "queued" => m.deliveries < MaxDelivery)

\* m becomes n: no delivery is forgotten.
Becomes(m, n) == MessageOK(n) /\ m.deliveries <= n.deliveries

LEMMA QueueOperations ==
  ASSUME NEW m, MessageOK(m), NEW w
  PROVE  /\ w \in Workers /\ m.state = "queued" =>
              /\ Becomes(m, Locked(m, w))
              /\ Locked(m, w).deliveries = m.deliveries + 1
              /\ Locked(m, w).deliveries \in 1..MaxDelivery
         /\ Becomes(m, GivenBack(m))
         /\ Becomes(m, Completed(m, w))
         /\ Becomes(m, Abandoned(m, w))
<1> USE SyncConstants
<1>1. w \in Workers /\ m.state = "queued" =>
        /\ Becomes(m, Locked(m, w))
        /\ Locked(m, w).deliveries = m.deliveries + 1
        /\ Locked(m, w).deliveries \in 1..MaxDelivery
  BY DEF Becomes, MessageOK, MessageState, Locked
<1>2. MessageOK(GivenBack(m))
  BY DEF MessageOK, MessageState, GivenBack
<1>3. m.deliveries \in Nat /\ GivenBack(m).deliveries = m.deliveries
  BY DEF MessageOK, MessageState, GivenBack
<1>4. Becomes(m, m) /\ Becomes(m, GivenBack(m))
  BY <1>2, <1>3 DEF Becomes
<1>5. CASE IsHeldBy(m, w)
  <2>1. Completed(m, w) = [state |-> "done", holder |-> NoWorker, deliveries |-> m.deliveries]
    BY <1>5 DEF MessageOK, MessageState, Completed
  <2>2. Becomes(m, Completed(m, w))
    BY <1>3, <2>1 DEF Becomes, MessageOK, MessageState
  <2> QED
    BY <1>1, <1>4, <1>5, <2>2 DEF Abandoned
<1>6. CASE ~IsHeldBy(m, w)
  BY <1>1, <1>4, <1>6 DEF Completed, Abandoned
<1> QED
  BY <1>5, <1>6

LEMMA Working ==
  ASSUME TypeOK, NEW w \in Workers, worker[w].pc # "idle"
  PROVE  /\ worker[w] \in WorkerState
         /\ worker[w].job \in Jobs
         /\ worker[w].owner \in Owners
         /\ worker[w].pc = "list" => worker[w].link \in Positions \cup {NoLink}
         /\ worker[w].pc \in {"renew", "stage", "created", "existed", "publish", "ack", "mark",
                              "abandon"} => worker[w].range \in Ranges
         /\ worker[w].pc = "abandon" => worker[w].sent \in BOOLEAN
<1>1. worker[w] \in WorkerState
  BY DEF TypeOK
<1> QED
  BY <1>1 DEF WorkerState

(***************************************************************************)
(* Messages stay typed and within their deliveries, and no delivery is     *)
(* forgotten.                                                              *)
(***************************************************************************)
Counted == \A j \in Jobs : message[j].deliveries <= message'[j].deliveries

LEMMA MessageStep ==
  ASSUME TypeOK, DeliveriesLeft, [Next]_vars
  PROVE  message' \in [Jobs -> MessageState] /\ DeliveriesLeft' /\ Counted
<1> DEFINE Goal == message' \in [Jobs -> MessageState] /\ DeliveriesLeft' /\ Counted
<1>1. /\ message \in [Jobs -> MessageState]
      /\ \A j \in Jobs : MessageOK(message[j]) /\ message[j].deliveries \in Nat
  BY DEF TypeOK, DeliveriesLeft, MessageOK, MessageState
<1>2. ASSUME NEW j \in Jobs, NEW m, Becomes(message[j], m),
             message' = [message EXCEPT ![j] = m]
      PROVE  Goal
  BY <1>1, <1>2 DEF DeliveriesLeft, Becomes, MessageOK, Counted
<1>3. ASSUME UNCHANGED message PROVE Goal
  BY <1>1, <1>3 DEF DeliveriesLeft, MessageOK, Counted
<1> HIDE DEF Goal
<1>4. ASSUME NEW w \in Workers, NEW j \in Jobs, Deliver(w, j)
      PROVE  Goal
  <2>1. message[j].state = "queued" /\ message' = [message EXCEPT ![j] = Locked(message[j], w)]
    BY <1>4 DEF Deliver
  <2>2. Becomes(message[j], Locked(message[j], w))
    BY <1>1, <2>1, QueueOperations
  <2> QED
    BY <1>2, <2>1, <2>2
<1>5. ASSUME NEW j \in Jobs, LoseLock(j)
      PROVE  Goal
  <2>1. message' = [message EXCEPT ![j] = GivenBack(message[j])]
    BY <1>5 DEF LoseLock
  <2>2. Becomes(message[j], GivenBack(message[j]))
    BY <1>1, QueueOperations
  <2> QED
    BY <1>2, <2>1, <2>2
<1>6. ASSUME NEW w \in Workers, worker[w].pc # "idle",
             \/ Return(w)
             \/ message' = [message EXCEPT ![worker[w].job] = Abandoned(@, w)]
      PROVE  Goal
  <2>1. worker[w].job \in Jobs
    BY <1>6, Working
  <2> DEFINE m == message[worker[w].job]
  <2>2. Becomes(m, Completed(m, w)) /\ Becomes(m, Abandoned(m, w))
    BY <1>1, <2>1, QueueOperations
  <2>3. \/ message' = [message EXCEPT ![worker[w].job] = Completed(m, w)]
        \/ message' = [message EXCEPT ![worker[w].job] = Abandoned(m, w)]
    BY <1>6 DEF Return
  <2> HIDE DEF m
  <2>4. CASE message' = [message EXCEPT ![worker[w].job] = Completed(m, w)]
    BY <1>2, <2>1, <2>2, <2>4 DEF m
  <2>5. CASE message' = [message EXCEPT ![worker[w].job] = Abandoned(m, w)]
    BY <1>2, <2>1, <2>2, <2>5 DEF m
  <2> QED
    BY <2>3, <2>4, <2>5
<1>7. ASSUME NEW w \in Workers,
             GetResult(w) \/ Reread(w) \/ Abandon(w) \/ Mark(w) \/ Defer(w) \/ Raise(w)
      PROVE  Goal
  <2>1. ASSUME GetResult(w) PROVE Goal
    BY <1>3, <1>6, <2>1 DEF GetResult
  <2>2. ASSUME Reread(w) PROVE Goal
    BY <1>3, <1>6, <2>2 DEF Reread, Proceed
  <2>3. ASSUME Abandon(w) PROVE Goal
    BY <1>3, <1>6, <2>3 DEF Abandon, Proceed
  <2>4. ASSUME Mark(w) \/ Defer(w) PROVE Goal
    BY <1>6, <2>4 DEF Mark, Defer
  <2>5. ASSUME Raise(w) PROVE Goal
    <3>1. worker[w].pc # "idle"
      BY <2>5 DEF Raise
    <3> QED
      BY <1>6, <2>5, <3>1 DEF Raise
  <2> QED
    BY <1>7, <2>1, <2>2, <2>3, <2>4, <2>5
<1>8. Goal
  BY <1>3, <1>4, <1>5, <1>7
     DEF Next, vars, WorkerStep, WorkerFault, TimerStep, SeederStep, Change, Expire, Acquire,
         ReadCursor, ListDelta, Renew, Stage, Publish, Acknowledge, Crash, TimerList,
         TimerPublish, TimerAcknowledge, TimerMark, TimerSkip, TimerEnd, SeederRead,
         SeederList, SeederSet, SeederFail
<1> QED
  BY <1>8 DEF Goal

LEMMA WorkerTypeStep ==
  ASSUME TypeOK, DeliveriesLeft, \A w \in Workers : WorkerKnows(w), [Next]_vars
  PROVE  worker' \in [Workers -> WorkerState]
<1> DEFINE Goal == worker' \in [Workers -> WorkerState]
<1>1. worker \in [Workers -> WorkerState]
  BY DEF TypeOK
<1>2. ASSUME NEW w \in Workers, NEW s \in WorkerState, worker' = [worker EXCEPT ![w] = s]
      PROVE  Goal
  BY <1>1, <1>2
<1>3. ASSUME UNCHANGED worker PROVE Goal
  BY <1>1, <1>3
<1> HIDE DEF Goal
<1>4. ASSUME NEW w \in Workers, worker' = [worker EXCEPT ![w] = Idle]
      PROVE  Goal
  BY <1>2, <1>4 DEF Idle, WorkerState
<1>5. ASSUME NEW w \in Workers, worker[w].pc # "idle", NEW r \in Ranges,
             worker' = [worker EXCEPT ![w] =
               [pc |-> "publish", job |-> @.job, owner |-> @.owner, range |-> r]]
      PROVE  Goal
  <2>1. [pc |-> "publish", job |-> worker[w].job, owner |-> worker[w].owner, range |-> r]
          \in WorkerState
    BY <1>5, Working DEF WorkerState
  <2> QED
    BY <1>2, <1>5, <2>1
<1>6. ASSUME NEW w \in Workers, NEW j \in Jobs, Deliver(w, j)
      PROVE  Goal
  <2>1. message'[j].deliveries \in 1..MaxDelivery
    BY <1>6, QueueOperations DEF Deliver, TypeOK, DeliveriesLeft, MessageOK
  <2>2. [pc |-> "get", job |-> j, owner |-> <<j, message'[j].deliveries>>] \in WorkerState
    BY <2>1 DEF WorkerState, Owners
  <2> QED
    BY <1>2, <1>6, <2>2 DEF Deliver
<1>7. ASSUME NEW w \in Workers, GetResult(w)
      PROVE  Goal
  <2>1. worker[w].pc = "get" /\ worker[w].job \in Jobs /\ worker[w] \in WorkerState
    BY <1>7, Working DEF GetResult
  <2>2. CASE worker' = [worker EXCEPT ![w].pc = "acquire"]
    <3>1. [worker[w] EXCEPT !.pc = "acquire"] \in WorkerState
      BY <2>1 DEF WorkerState
    <3> QED
      BY <1>2, <2>2, <3>1
  <2>3. results[worker[w].job].state = "pending" => results[worker[w].job].envelope \in Ranges
    BY <2>1 DEF TypeOK, R!Row
  <2> QED
    BY <1>4, <1>5, <1>7, <2>1, <2>2, <2>3 DEF GetResult, Return
<1>8. ASSUME NEW w \in Workers, Acquire(w)
      PROVE  Goal
  <2>1. [worker[w] EXCEPT !.pc = "cursor"] \in WorkerState
    BY <1>8, Working DEF Acquire, WorkerState
  <2> QED
    BY <1>2, <1>8, <2>1 DEF Acquire
<1>9. ASSUME NEW w \in Workers, ReadCursor(w)
      PROVE  Goal
  <2>1. worker[w].job \in Jobs /\ worker[w].owner \in Owners
    BY <1>9, Working DEF ReadCursor
  <2>2. row.link \in Positions \cup {NoLink}
    BY DEF TypeOK, Row
  <2>3. [pc |-> "list", job |-> worker[w].job, owner |-> worker[w].owner, link |-> row.link]
          \in WorkerState
    BY <2>1, <2>2 DEF WorkerState
  <2> QED
    BY <1>2, <1>9, <2>3 DEF ReadCursor
<1>10. ASSUME NEW w \in Workers, ListDelta(w)
       PROVE  Goal
  <2>1. PICK from \in {0} \cup ({worker[w].link} \ {NoLink}) :
          worker' = [worker EXCEPT ![w] =
            [pc |-> "renew", job |-> @.job, owner |-> @.owner,
             range |-> [from |-> from, to |-> head, owner |-> @.owner]]]
    BY <1>10 DEF ListDelta
  <2>2. /\ worker[w].job \in Jobs /\ worker[w].owner \in Owners
        /\ worker[w].link \in Positions \cup {NoLink}
    BY <1>10, Working DEF ListDelta
  <2>3. from \in Positions /\ head \in Positions
    BY <2>2, SyncConstants DEF TypeOK, Positions
  <2>4. [pc |-> "renew", job |-> worker[w].job, owner |-> worker[w].owner,
         range |-> [from |-> from, to |-> head, owner |-> worker[w].owner]] \in WorkerState
    BY <2>2, <2>3 DEF WorkerState, Ranges
  <2> QED
    BY <1>2, <2>1, <2>4
<1>11. ASSUME NEW w \in Workers, NEW pc \in {"stage", "created", "existed", "ack", "mark"},
              worker[w].pc \in {"renew", "stage", "publish", "ack"},
              worker' = [worker EXCEPT ![w].pc = pc]
       PROVE  Goal
  <2>1. [worker[w] EXCEPT !.pc = pc] \in WorkerState
    BY <1>11, Working DEF WorkerState
  <2> QED
    BY <1>2, <1>11, <2>1
<1>12. ASSUME NEW w \in Workers, Renew(w) \/ Stage(w) \/ Publish(w) \/ Acknowledge(w)
       PROVE  Goal
  BY <1>11, <1>12 DEF Renew, Stage, Publish, Acknowledge
<1>13. ASSUME NEW w \in Workers, Reread(w)
       PROVE  Goal
  <2>1. /\ worker[w].pc \in {"created", "existed"}
        /\ worker[w].job \in Jobs
        /\ worker[w].owner \in Owners
        /\ results[worker[w].job].state # "absent"
    BY <1>13, Working DEF Reread, WorkerKnows
  <2>2. StoredRange(w) \in Ranges
    BY <2>1 DEF StoredRange, TypeOK, R!Row
  <2>3. \A b \in BOOLEAN : [pc |-> "abandon", job |-> worker[w].job, owner |-> worker[w].owner,
                            range |-> StoredRange(w), sent |-> b] \in WorkerState
    BY <2>1, <2>2 DEF WorkerState
  <2> QED
    BY <1>2, <1>4, <1>5, <1>13, <2>1, <2>2, <2>3 DEF Reread, Proceed, Return
<1>14. ASSUME NEW w \in Workers, Abandon(w)
       PROVE  Goal
  <2>1. worker[w].pc = "abandon" /\ worker[w].range \in Ranges
    BY <1>14, Working DEF Abandon
  <2> QED
    BY <1>4, <1>5, <1>14, <2>1 DEF Abandon, Proceed, Return
<1>15. ASSUME NEW w \in Workers, Mark(w) \/ WorkerFault(w)
       PROVE  Goal
  <2>1. worker' = [worker EXCEPT ![w] = Idle]
    BY <1>15 DEF Mark, Return, WorkerFault, Raise, Crash, Defer
  <2> QED
    BY <1>4, <2>1
<1>16. Goal
  BY <1>3, <1>6, <1>7, <1>8, <1>9, <1>10, <1>12, <1>13, <1>14, <1>15
     DEF Next, vars, WorkerStep, TimerStep, SeederStep, Change, Expire, LoseLock, TimerList,
         TimerPublish, TimerAcknowledge, TimerMark, TimerSkip, TimerEnd, SeederRead,
         SeederList, SeederSet, SeederFail
<1> QED
  BY <1>16 DEF Goal

(***************************************************************************)
(* Every change of the cursor row is one request to it, or the end of the  *)
(* lease; what is committed has been published, and is no later than the   *)
(* drive.                                                                  *)
(***************************************************************************)
CommitsPublished ==
    \E p \in published :
        /\ p \in Public /\ p.range.to <= head
        /\ Stored(p.job, p.range)
        /\ row.owner = p.range.owner
        /\ row' = Committed(row, p.range.to, p.range.owner)

Acquires ==
    \E w \in Workers :
        /\ worker[w].pc = "acquire"
        /\ row' = Acquired(row, worker[w].owner)

Seeds ==
    \E s \in Seeders :
        /\ seeder[s].pc = "set"
        /\ row' = Seeded(row, seeder[s].link)
        /\ base' = IF row.link = NoLink THEN seeder[s].link ELSE base
        /\ overwritten' = overwritten \cup WrittenOver(seeder[s].link)

LeavesLink ==
    /\ row'.link = row.link
    /\ row'.committed = row.committed
    /\ row'.owner \in {row.owner, NoOwner}
    /\ row' \in Row
    /\ UNCHANGED history

LEMMA RowStep ==
  ASSUME TypeOK, \A w \in Workers : WorkerKnows(w), TimerKnows, NoForesight, [Next]_vars
  PROVE  \/ LeavesLink
         \/ UNCHANGED history /\ (CommitsPublished \/ Acquires)
         \/ Seeds
<1> DEFINE Goal == \/ LeavesLink
                   \/ UNCHANGED history /\ (CommitsPublished \/ Acquires)
                   \/ Seeds
<1>1. row \in Row /\ published \subseteq Public
  BY DEF TypeOK
<1>2. ASSUME UNCHANGED history,
             \/ UNCHANGED row
             \/ row' = Expired(row)
             \/ \E o \in Owners : row' = Renewed(row, o) \/ ReleaseOwn(o)
      PROVE  Goal
  <2>1. LeavesLink
    BY <1>1, <1>2 DEF LeavesLink, Expired, Renewed, ReleaseOwn, Released, MayRelease, Row
  <2> QED
    BY <2>1
<1>3. ASSUME UNCHANGED history, NEW j \in Jobs, NEW r, Stored(j, r),
             [job |-> j, range |-> r] \in published, Commit(r)
      PROVE  Goal
  <2>1. CASE UNCHANGED row
    BY <1>2, <1>3, <2>1
  <2>2. CASE row' = Committed(row, r.to, r.owner) /\ MayCommit(row, r.to, r.owner)
    <3>1. r.to <= head
      BY <1>3 DEF Stored, NoForesight
    <3>2. CommitsPublished
      BY <1>1, <1>3, <2>2, <3>1 DEF CommitsPublished, MayCommit
    <3> QED
      BY <1>3, <3>2
  <2> QED
    BY <1>3, <2>1, <2>2 DEF Commit
<1> HIDE DEF Goal
<1>4. ASSUME NEW w \in Workers, Acquire(w)
      PROVE  Goal
  BY <1>4 DEF Acquire, Acquires, Goal
<1>5. ASSUME NEW w \in Workers, Raise(w)
      PROVE  Goal
  <2>1. worker[w].pc # "idle" /\ UNCHANGED history
    BY <1>5 DEF Raise
  <2>2. worker[w].owner \in Owners
    BY <2>1, Working
  <2>3. CASE UNCHANGED row
    BY <1>2, <2>1, <2>3
  <2>4. CASE /\ worker[w].pc = "acquire"
             /\ MayAcquire(row, worker[w].owner)
             /\ row' = Acquired(row, worker[w].owner)
    BY <2>1, <2>4 DEF Acquires, Goal
  <2>5. CASE ReleaseOwn(worker[w].owner)
    BY <1>2, <2>1, <2>2, <2>5
  <2> QED
    BY <1>5, <2>3, <2>4, <2>5 DEF Raise
<1>6. ASSUME NEW w \in Workers, Renew(w) \/ Abandon(w)
      PROVE  Goal
  <2>1. worker[w].owner \in Owners
    BY <1>6, Working DEF Renew, Abandon
  <2> QED
    BY <1>2, <1>6, <2>1 DEF Renew, Abandon
<1>7. ASSUME NEW w \in Workers, Acknowledge(w) \/ Defer(w)
      PROVE  Goal
  <2>1. UNCHANGED history /\ (UNCHANGED row \/ (worker[w].pc = "ack" /\ Commit(worker[w].range)))
    BY <1>7 DEF Acknowledge, Defer
  <2>2. worker[w].pc = "ack" =>
          /\ worker[w].job \in Jobs
          /\ Stored(worker[w].job, worker[w].range)
          /\ [job |-> worker[w].job, range |-> worker[w].range] \in published
    BY Working DEF WorkerKnows
  <2> QED
    BY <1>2, <1>3, <2>1, <2>2
<1>8. ASSUME TimerAcknowledge
      PROVE  Goal
  <2>1. /\ timer.job \in Jobs
        /\ Stored(timer.job, results[timer.job].envelope)
        /\ [job |-> timer.job, range |-> results[timer.job].envelope] \in published
    BY <1>8 DEF TimerAcknowledge, TimerKnows, TypeOK, TimerState, Stored
  <2> QED
    BY <1>3, <1>8, <2>1 DEF TimerAcknowledge
<1>9. ASSUME NEW s \in Seeders, SeederSet(s)
      PROVE  Goal
  BY <1>9 DEF SeederSet, Seeds, Goal
<1>10. ASSUME Expire
       PROVE  Goal
  BY <1>2, <1>10 DEF Expire
<1>11. Goal
  BY <1>2, <1>4, <1>5, <1>6, <1>7, <1>8, <1>9, <1>10
     DEF Next, vars, history, WorkerStep, WorkerFault, TimerStep, SeederStep, Change, Deliver,
         LoseLock, GetResult, ReadCursor, ListDelta, Stage, Reread, Publish, Mark, Crash, TimerList,
         TimerPublish, TimerMark, TimerSkip, TimerEnd, SeederRead, SeederList, SeederFail
<1> QED
  BY <1>11 DEF Goal

(***************************************************************************)
(* Every change of the outbox is one request to it; a result is staged by  *)
(* the run that produced it.                                               *)
(***************************************************************************)
Stages ==
    \E w \in Workers :
        /\ worker[w].pc = "stage"
        /\ results' = R!CreateEntity(results, worker[w].job, worker[w].range)

Marks == \E j \in Jobs : results' = R!MarkSent(results, j)

LEMMA ResultStep ==
  ASSUME TypeOK, [Next]_vars
  PROVE  UNCHANGED results \/ Stages \/ Marks
<1>1. ASSUME NEW w \in Workers, Mark(w)
      PROVE  Marks
  <2>1. worker[w].job \in Jobs
    BY <1>1, Working DEF Mark
  <2> QED
    BY <1>1, <2>1 DEF Mark, Marks
<1>2. ASSUME TimerMark
      PROVE  Marks
  <2>1. timer.job \in Jobs
    BY <1>2 DEF TimerMark, TypeOK, TimerState
  <2> QED
    BY <1>2, <2>1 DEF TimerMark, Marks
<1>3. ASSUME NEW w \in Workers, Stage(w)
      PROVE  Stages
  BY <1>3 DEF Stage, Stages
<1> QED
  BY <1>1, <1>2, <1>3
     DEF Next, vars, WorkerStep, WorkerFault, TimerStep, SeederStep, Change, Expire, Deliver,
         LoseLock, GetResult, Acquire, ReadCursor, ListDelta, Renew, Reread, Abandon, Publish,
         Acknowledge, Defer, Raise, Crash, TimerList, TimerPublish, TimerAcknowledge,
         TimerSkip, TimerEnd, SeederRead, SeederList, SeederSet, SeederFail

(***************************************************************************)
(* What no step takes away: a change of the drive, a delivery, a published *)
(* result, a stored result and its mark.                                   *)
(***************************************************************************)
Kept ==
    /\ head <= head'
    /\ Counted
    /\ published \subseteq published'
    /\ \A j \in Jobs :
         /\ results[j].state # "absent" =>
              results'[j].state # "absent" /\ results'[j].envelope = results[j].envelope
         /\ results[j].state = "sent" => results'[j].state = "sent"

LEMMA StepKeeps ==
  ASSUME TypeOK, DeliveriesLeft, [Next]_vars
  PROVE  Kept
<1>1. results \in [Jobs -> R!Row] /\ head \in Nat
  BY SyncConstants DEF TypeOK, Positions
<1>2. ASSUME NEW j \in Jobs
      PROVE  /\ results[j].state # "absent" =>
                  results'[j].state # "absent" /\ results'[j].envelope = results[j].envelope
             /\ results[j].state = "sent" => results'[j].state = "sent"
  <2>1. UNCHANGED results \/ Stages \/ Marks
    BY ResultStep
  <2>2. CASE Stages
    BY <1>1, <2>2 DEF Stages, R!CreateEntity, R!Row
  <2>3. CASE Marks
    BY <1>1, <2>3 DEF Marks, R!MarkSent, R!Row
  <2> QED
    BY <2>1, <2>2, <2>3
<1>3. published \subseteq published'
  BY DEF Next, vars, WorkerStep, WorkerFault, TimerStep, SeederStep, Change, Expire, Deliver,
         LoseLock, GetResult, Acquire, ReadCursor, ListDelta, Renew, Stage, Reread, Abandon,
         Publish, Acknowledge, Mark, Defer, Raise, Crash, TimerList, TimerPublish,
         TimerAcknowledge, TimerMark, TimerSkip, TimerEnd, SeederRead, SeederList, SeederSet,
         SeederFail, HandOver
<1>4. head <= head'
  <2>1. head' = head \/ head' = head + 1
    BY DEF Next, vars, WorkerStep, WorkerFault, TimerStep, SeederStep, Change, Expire, Deliver,
           LoseLock, GetResult, Acquire, ReadCursor, ListDelta, Renew, Stage, Reread, Abandon,
           Publish, Acknowledge, Mark, Defer, Raise, Crash, TimerList, TimerPublish,
           TimerAcknowledge, TimerMark, TimerSkip, TimerEnd, SeederRead, SeederList,
           SeederSet, SeederFail
  <2> QED
    BY <1>1, <2>1
<1>5. Counted
  BY MessageStep
<1> QED
  BY <1>2, <1>3, <1>4, <1>5 DEF Kept

LEMMA RowTypeStep ==
  ASSUME TypeOK, \A w \in Workers : WorkerKnows(w), TimerKnows, NoForesight, [Next]_vars
  PROVE  row' \in Row /\ base' \in Positions /\ overwritten' \subseteq {"link", "lease"}
<1>1. /\ row \in Row /\ base \in Positions /\ seeder \in [Seeders -> SeederState]
      /\ overwritten \subseteq {"link", "lease"}
  BY DEF TypeOK
<1> DEFINE Goal == row' \in Row /\ base' \in Positions /\ overwritten' \subseteq {"link", "lease"}
<1>2. ASSUME UNCHANGED history, row' \in Row PROVE Goal
  BY <1>1, <1>2 DEF history
<1>3. CASE UNCHANGED history /\ CommitsPublished
  BY <1>1, <1>2, <1>3 DEF CommitsPublished, Committed, Public, Ranges, Row
<1>4. ASSUME UNCHANGED history, Acquires
      PROVE  Goal
  <2>1. PICK w \in Workers : worker[w].pc = "acquire" /\ row' = Acquired(row, worker[w].owner)
    BY <1>4 DEF Acquires
  <2>2. worker[w].owner \in Owners
    BY <2>1, Working
  <2> QED
    BY <1>1, <1>2, <1>4, <2>1, <2>2 DEF Acquired, Row
<1>5. ASSUME Seeds
      PROVE  Goal
  <2>1. PICK s \in Seeders :
          /\ seeder[s].pc = "set"
          /\ row' = Seeded(row, seeder[s].link)
          /\ base' = IF row.link = NoLink THEN seeder[s].link ELSE base
          /\ overwritten' = overwritten \cup WrittenOver(seeder[s].link)
    BY <1>5 DEF Seeds
  <2>2. seeder[s].link \in Positions
    BY <1>1, <2>1 DEF SeederState
  <2>3. WrittenOver(seeder[s].link) \subseteq {"link", "lease"}
    BY DEF WrittenOver
  <2> QED
    BY <1>1, <2>1, <2>2, <2>3 DEF Seeded, Row
<1> QED
  BY <1>2, <1>3, <1>4, <1>5, RowStep DEF LeavesLink

LEMMA OutboxTypeStep ==
  ASSUME TypeOK, \A w \in Workers : WorkerKnows(w), TimerKnows, [Next]_vars
  PROVE  /\ results' \in [Jobs -> R!Row]
         /\ published' \subseteq Public
<1>1. results \in [Jobs -> R!Row] /\ published \subseteq Public
  BY DEF TypeOK
<1>2. ASSUME Stages
      PROVE  results' \in [Jobs -> R!Row]
  <2>1. PICK w \in Workers :
          /\ worker[w].pc = "stage"
          /\ results' = R!CreateEntity(results, worker[w].job, worker[w].range)
    BY <1>2 DEF Stages
  <2>2. worker[w].job \in Jobs /\ worker[w].range \in Ranges
    BY <2>1, Working
  <2> QED
    BY <1>1, <2>1, <2>2 DEF R!CreateEntity, R!Row
<1>3. ASSUME Marks
      PROVE  results' \in [Jobs -> R!Row]
  BY <1>1, <1>3 DEF Marks, R!MarkSent, R!Row
<1>4. results' \in [Jobs -> R!Row]
  BY <1>1, <1>2, <1>3, ResultStep
<1>5. ASSUME NEW w \in Workers, Publish(w)
      PROVE  published' \subseteq Public
  <2>1. worker[w].job \in Jobs /\ worker[w].range \in Ranges
    BY <1>5, Working DEF Publish
  <2> QED
    BY <1>1, <1>5, <2>1 DEF Publish, HandOver, Public
<1>6. ASSUME NEW j \in Jobs, TimerPublish(j)
      PROVE  published' \subseteq Public
  <2>1. results[j].envelope \in Ranges
    BY <1>6 DEF TimerPublish, TimerKnows, TypeOK, R!Row
  <2> QED
    BY <1>1, <1>6, <2>1 DEF TimerPublish, HandOver, Public
<1>7. published' \subseteq Public
  BY <1>1, <1>5, <1>6
     DEF Next, vars, WorkerStep, WorkerFault, TimerStep, SeederStep, Change, Expire, Deliver,
         LoseLock, GetResult, Acquire, ReadCursor, ListDelta, Renew, Stage, Reread, Abandon,
         Acknowledge, Mark, Defer, Raise, Crash, TimerList, TimerAcknowledge, TimerMark,
         TimerSkip, TimerEnd, SeederRead, SeederList, SeederSet, SeederFail
<1> QED
  BY <1>4, <1>7

LEMMA TimerTypeStep ==
  ASSUME TypeOK, [Next]_vars
  PROVE  timer' \in TimerState
<1>1. timer \in TimerState
  BY DEF TypeOK
<1>2. ASSUME TimerList
      PROVE  timer' \in TimerState
  BY <1>2 DEF TimerList, TimerState, R!PendingKeys
<1>3. ASSUME NEW j \in Jobs, TimerPublish(j)
      PROVE  timer' \in TimerState
  BY <1>1, <1>3 DEF TimerPublish, TimerState
<1>4. ASSUME TimerAcknowledge
      PROVE  timer' \in TimerState
  BY <1>1, <1>4 DEF TimerAcknowledge, TimerState
<1>5. ASSUME NEW page \in SUBSET Jobs, TimerNext(page)
      PROVE  timer' \in TimerState
  BY <1>5 DEF TimerNext, TimerState, Idle
<1>6. ASSUME TimerSkip
      PROVE  timer' \in TimerState
  <2>1. CASE timer.pc = "loop"
    <3>1. PICK j \in timer.page : TimerNext(timer.page \ {j})
      BY <1>6, <2>1 DEF TimerSkip
    <3>2. timer.page \ {j} \in SUBSET Jobs
      BY <1>1, <2>1 DEF TimerState
    <3> QED
      BY <1>5, <3>1, <3>2
  <2>2. CASE timer.pc \in {"ack", "mark"} /\ TimerNext(timer.page)
    BY <1>1, <1>5, <2>2 DEF TimerState
  <2> QED
    BY <1>6, <2>1, <2>2 DEF TimerSkip
<1>7. ASSUME TimerMark
      PROVE  timer' \in TimerState
  <2>1. timer.page \in SUBSET Jobs /\ TimerNext(timer.page)
    BY <1>1, <1>7 DEF TimerMark, TimerState
  <2> QED
    BY <1>5, <2>1
<1>8. ASSUME TimerEnd
      PROVE  timer' \in TimerState
  BY <1>8 DEF TimerEnd, TimerState, Idle
<1> QED
  BY <1>1, <1>2, <1>3, <1>4, <1>6, <1>7, <1>8
     DEF Next, vars, WorkerStep, WorkerFault, TimerStep, SeederStep, Change, Expire, Deliver,
         LoseLock, GetResult, Acquire, ReadCursor, ListDelta, Renew, Stage, Reread, Abandon,
         Publish, Acknowledge, Mark, Defer, Raise, Crash, SeederRead, SeederList, SeederSet,
         SeederFail

LEMMA DriveTypeStep ==
  ASSUME TypeOK, [Next]_vars
  PROVE  head' \in Positions /\ seeder' \in [Seeders -> SeederState]
<1>1. head \in Positions /\ seeder \in [Seeders -> SeederState]
  BY DEF TypeOK
<1>2. ASSUME Change
      PROVE  head' \in Positions
  BY <1>1, <1>2, SyncConstants DEF Change, Positions
<1>3. head' \in Positions
  BY <1>1, <1>2
     DEF Next, vars, WorkerStep, WorkerFault, TimerStep, SeederStep, Expire, Deliver, LoseLock,
         GetResult, Acquire, ReadCursor, ListDelta, Renew, Stage, Reread, Abandon, Publish,
         Acknowledge, Mark, Defer, Raise, Crash, TimerList, TimerPublish, TimerAcknowledge,
         TimerMark, TimerSkip, TimerEnd, SeederRead, SeederList, SeederSet, SeederFail
<1>4. ASSUME NEW s \in Seeders, SeederStep(s)
      PROVE  seeder' \in [Seeders -> SeederState]
  <2>1. PICK x \in SeederState : seeder' = [seeder EXCEPT ![s] = x]
    BY <1>1, <1>4
       DEF SeederStep, SeederRead, SeederList, SeederSet, SeederFail, SeederState, Idle
  <2> QED
    BY <1>1, <2>1
<1>5. seeder' \in [Seeders -> SeederState]
  BY <1>1, <1>4
     DEF Next, vars, WorkerStep, WorkerFault, TimerStep, Change, Expire, Deliver, LoseLock,
         GetResult, Acquire, ReadCursor, ListDelta, Renew, Stage, Reread, Abandon, Publish,
         Acknowledge, Mark, Defer, Raise, Crash, TimerList, TimerPublish, TimerAcknowledge,
         TimerMark, TimerSkip, TimerEnd
<1> QED
  BY <1>3, <1>5

LEMMA TypeStep ==
  ASSUME IInv, [Next]_vars
  PROVE  TypeOK' /\ DeliveriesLeft'
<1>1. /\ TypeOK /\ DeliveriesLeft /\ TimerKnows /\ NoForesight
      /\ \A w \in Workers : WorkerKnows(w)
  BY DEF IInv
<1>2. message' \in [Jobs -> MessageState] /\ DeliveriesLeft'
  BY <1>1, MessageStep
<1>3. worker' \in [Workers -> WorkerState]
  BY <1>1, WorkerTypeStep
<1>4. row' \in Row /\ base' \in Positions /\ overwritten' \subseteq {"link", "lease"}
  BY <1>1, RowTypeStep
<1>5. results' \in [Jobs -> R!Row] /\ published' \subseteq Public
  BY <1>1, OutboxTypeStep
<1>6. timer' \in TimerState /\ head' \in Positions /\ seeder' \in [Seeders -> SeederState]
  BY <1>1, TimerTypeStep, DriveTypeStep
<1> QED
  BY <1>2, <1>3, <1>4, <1>5, <1>6 DEF TypeOK
-----------------------------------------------------------------------------
(***************************************************************************)
(* A result that was not stored before is the list of a run that is about  *)
(* to stage it.                                                            *)
(***************************************************************************)
LEMMA NewResult ==
  ASSUME TypeOK, \A w \in Workers : WorkerKnows(w), [Next]_vars,
         NEW j \in Jobs, results'[j].state # "absent"
  PROVE  \/ /\ results[j].state # "absent"
            /\ results'[j].envelope = results[j].envelope
         \/ /\ results[j].state = "absent"
            /\ \E w \in Workers :
                /\ worker[w].pc = "stage"
                /\ worker[w].job = j
                /\ results'[j].envelope = worker[w].range
                /\ worker[w].range.owner = worker[w].owner
                /\ worker[w].range.to <= head
                /\ Stage(w)
<1>1. results \in [Jobs -> R!Row]
  BY DEF TypeOK
<1>2. ASSUME NEW w \in Workers, Stage(w), results[j].state = "absent"
      PROVE  /\ worker[w].job = j
             /\ results'[j].envelope = worker[w].range
  BY <1>1, <1>2 DEF Stage, R!CreateEntity
<1>3. ASSUME NEW w \in Workers, Stage(w)
      PROVE  /\ worker[w].pc = "stage"
             /\ worker[w].range.owner = worker[w].owner
             /\ worker[w].range.to <= head
  BY <1>3 DEF Stage, WorkerKnows
<1>4. CASE results[j].state # "absent"
  <2>1. UNCHANGED results \/ Stages \/ Marks
    BY ResultStep
  <2>2. CASE Stages
    BY <1>1, <1>4, <2>2 DEF Stages, R!CreateEntity
  <2>3. CASE Marks
    BY <1>1, <1>4, <2>3 DEF Marks, R!MarkSent
  <2> QED
    BY <1>4, <2>1, <2>2, <2>3
<1>5. CASE results[j].state = "absent"
  <2>1. ASSUME Marks
        PROVE  FALSE
    BY <1>1, <1>5, <2>1 DEF Marks, R!MarkSent
  <2>2. ASSUME \A w \in Workers : ~Stage(w)
        PROVE  UNCHANGED results \/ Marks
    <3>1. ASSUME NEW w \in Workers, Mark(w)
          PROVE  Marks
      <4>1. worker[w].job \in Jobs
        BY <3>1, Working DEF Mark
      <4> QED
        BY <3>1, <4>1 DEF Mark, Marks
    <3>2. ASSUME TimerMark
          PROVE  Marks
      <4>1. timer.job \in Jobs
        BY <3>2 DEF TimerMark, TypeOK, TimerState
      <4> QED
        BY <3>2, <4>1 DEF TimerMark, Marks
    <3> QED
      BY <2>2, <3>1, <3>2
         DEF Next, vars, WorkerStep, WorkerFault, TimerStep, SeederStep, Change, Expire,
             Deliver, LoseLock, GetResult, Acquire, ReadCursor, ListDelta, Renew, Reread,
             Abandon, Publish, Acknowledge, Defer, Raise, Crash, TimerList, TimerPublish,
             TimerAcknowledge, TimerSkip, TimerEnd, SeederRead, SeederList, SeederSet,
             SeederFail
  <2>3. PICK w \in Workers : Stage(w)
    BY <1>5, <2>1, <2>2
  <2> QED
    BY <1>2, <1>3, <1>5, <2>3
<1> QED
  BY <1>4, <1>5

LEMMA OnlyItsOwnSteps ==
  ASSUME TypeOK, [Next]_vars, NEW w \in Workers, worker'[w] # worker[w]
  PROVE  WorkerStep(w) \/ WorkerFault(w) \/ \E j \in Jobs : Deliver(w, j)
<1>1. ASSUME NEW v \in Workers,
             WorkerStep(v) \/ WorkerFault(v) \/ \E j \in Jobs : Deliver(v, j)
      PROVE  v = w
  <2>1. \A u \in Workers : u # v => worker'[u] = worker[u]
    BY <1>1 DEF TypeOK, WorkerStep, WorkerFault, Deliver, GetResult, Acquire, ReadCursor,
                ListDelta, Renew, Stage, Reread, Abandon, Proceed, Publish, Acknowledge, Mark,
                Defer, Raise, Crash, Return
  <2> QED
    BY <2>1
<1>2. ASSUME Change \/ Expire \/ TimerStep \/ (\E s \in Seeders : SeederStep(s))
             \/ (\E j \in Jobs : LoseLock(j))
             \/ UNCHANGED vars
      PROVE  FALSE
  BY <1>2 DEF Change, Expire, LoseLock, TimerStep, TimerList, TimerPublish, TimerAcknowledge,
              TimerMark, TimerSkip, TimerEnd, SeederStep, SeederRead, SeederList, SeederSet,
              SeederFail, vars
<1> QED
  BY <1>1, <1>2 DEF Next

(***************************************************************************)
(* A worker keeps its job and its name until it is idle.                   *)
(***************************************************************************)
LEMMA WorkerKeepsItsName ==
  ASSUME TypeOK, [Next]_vars, NEW w \in Workers, worker'[w].pc # "idle"
  PROVE  \/ /\ worker[w].pc # "idle"
            /\ worker'[w].job = worker[w].job
            /\ worker'[w].owner = worker[w].owner
         \/ \E j \in Jobs : Deliver(w, j)
<1>1. worker \in [Workers -> WorkerState]
  BY DEF TypeOK
<1>2. CASE worker'[w] = worker[w]
  BY <1>2
<1>3. ASSUME GetResult(w) \/ Acquire(w) \/ ReadCursor(w) \/ ListDelta(w) \/ Renew(w)
             \/ Stage(w) \/ Reread(w) \/ Abandon(w) \/ Publish(w) \/ Acknowledge(w)
      PROVE  /\ worker[w].pc # "idle"
             /\ worker'[w].job = worker[w].job
             /\ worker'[w].owner = worker[w].owner
  <2>1. worker[w].pc # "idle" /\ worker[w] \in WorkerState
    BY <1>1, <1>3 DEF GetResult, Acquire, ReadCursor, ListDelta, Renew, Stage, Reread, Abandon,
                Publish, Acknowledge
  <2>2. ASSUME NEW pc, worker' = [worker EXCEPT ![w].pc = pc]
        PROVE  worker'[w].job = worker[w].job /\ worker'[w].owner = worker[w].owner
    BY <1>1, <2>1, <2>2 DEF WorkerState
  <2>3. ASSUME NEW s, s.job = worker[w].job, s.owner = worker[w].owner,
               worker' = [worker EXCEPT ![w] = s]
        PROVE  worker'[w].job = worker[w].job /\ worker'[w].owner = worker[w].owner
    BY <1>1, <2>3
  <2>4. worker' = [worker EXCEPT ![w] = Idle] => worker'[w].pc = "idle"
    BY <1>1 DEF Idle
  <2>5. CASE Acquire(w) \/ Renew(w) \/ Stage(w) \/ Publish(w) \/ Acknowledge(w)
    BY <2>1, <2>2, <2>5 DEF Acquire, Renew, Stage, Publish, Acknowledge
  <2>6. CASE GetResult(w)
    BY <2>1, <2>2, <2>3, <2>4, <2>6 DEF GetResult, Return
  <2>7. CASE ReadCursor(w)
    BY <2>1, <2>3, <2>7 DEF ReadCursor
  <2>8. CASE ListDelta(w)
    BY <2>1, <2>3, <2>8 DEF ListDelta
  <2>9. CASE Reread(w)
    BY <2>1, <2>3, <2>4, <2>9 DEF Reread, Proceed, Return
  <2>10. CASE Abandon(w)
    BY <2>1, <2>3, <2>4, <2>10 DEF Abandon, Proceed, Return
  <2> QED
    BY <1>3, <2>5, <2>6, <2>7, <2>8, <2>9, <2>10
<1>4. ASSUME Mark(w) \/ WorkerFault(w)
      PROVE  FALSE
  BY <1>1, <1>4 DEF Mark, WorkerFault, Defer, Raise, Crash, Return, Idle
<1> QED
  BY <1>2, <1>3, <1>4, OnlyItsOwnSteps DEF WorkerStep

LEMMA OwnersStep ==
  ASSUME IInv, Kept, [Next]_vars
  PROVE  OwnersAreRuns' /\ OwnersDiffer'
<1>1. /\ TypeOK /\ OwnersAreRuns /\ OwnersDiffer /\ DeliveriesLeft
      /\ \A w \in Workers : WorkerKnows(w)
  BY DEF IInv
<1>2. \A j \in Jobs : message[j].deliveries \in Nat
  BY <1>1 DEF TypeOK, MessageState
<1>3. ASSUME NEW w \in Workers, NEW j \in Jobs, Deliver(w, j)
      PROVE  /\ worker'[w].job = j
             /\ worker'[w].owner = <<j, message[j].deliveries + 1>>
             /\ message'[j].deliveries = message[j].deliveries + 1
             /\ \A v \in Workers : v # w => worker'[v] = worker[v]
  BY <1>1, <1>3 DEF Deliver, TypeOK, Locked
<1>4. ASSUME NEW j \in Jobs, NEW o \in Owners, IsDelivery(j, o)
      PROVE  IsDelivery(j, o)'
  <2>1. o[2] \in Nat /\ message'[j].deliveries \in Nat
    BY <1>1, TypeStep DEF Owners, TypeOK, MessageState
  <2> QED
    BY <1>2, <1>4, <2>1 DEF IsDelivery, Kept, Counted
<1>5. ASSUME NEW w \in Workers, worker'[w].pc # "idle"
      PROVE  IsDelivery(worker[w].job, worker[w].owner)'
  <2>1. CASE \E j \in Jobs : Deliver(w, j)
    BY <1>2, <1>3, <2>1 DEF IsDelivery
  <2>2. CASE /\ worker[w].pc # "idle"
             /\ worker'[w].job = worker[w].job
             /\ worker'[w].owner = worker[w].owner
    <3>1. worker[w].job \in Jobs /\ worker[w].owner \in Owners
      BY <1>1, <2>2, Working
    <3>2. IsDelivery(worker[w].job, worker[w].owner)
      BY <1>1, <2>2 DEF OwnersAreRuns
    <3> QED
      BY <1>4, <2>2, <3>1, <3>2 DEF IsDelivery
  <2> QED
    BY <1>1, <1>5, <2>1, <2>2, WorkerKeepsItsName
<1>6. ASSUME NEW j \in Jobs, results'[j].state # "absent"
      PROVE  IsDelivery(j, results[j].envelope.owner)'
  <2>1. CASE results[j].state # "absent" /\ results'[j].envelope = results[j].envelope
    <3>1. results[j].envelope.owner \in Owners
      BY <1>1, <2>1 DEF TypeOK, R!Row, Ranges
    <3>2. IsDelivery(j, results[j].envelope.owner)
      BY <1>1, <2>1 DEF OwnersAreRuns
    <3> QED
      BY <1>4, <2>1, <3>1, <3>2 DEF IsDelivery
  <2>2. ASSUME NEW w \in Workers, worker[w].pc = "stage", worker[w].job = j,
               results'[j].envelope.owner = worker[w].owner
        PROVE  IsDelivery(j, results[j].envelope.owner)'
    <3>1. worker[w].owner \in Owners
      BY <1>1, <2>2, Working
    <3>2. IsDelivery(j, worker[w].owner)
      BY <1>1, <2>2 DEF OwnersAreRuns
    <3> QED
      BY <1>4, <2>2, <3>1, <3>2 DEF IsDelivery
  <2> QED
    BY <1>1, <1>6, <2>1, <2>2, NewResult
<1>7. ASSUME NEW w \in Workers, NEW v \in Workers, w # v, NEW j \in Jobs, Deliver(w, j),
             worker'[v].pc # "idle"
      PROVE  worker'[w].owner # worker'[v].owner
  <2>1. /\ worker'[w].owner = <<j, message[j].deliveries + 1>>
        /\ worker'[v] = worker[v]
    BY <1>3, <1>7
  <2>2. worker[v].owner \in Owners /\ worker[v].job \in Jobs /\ worker[v].pc # "idle"
    BY <1>1, <1>7, <2>1, Working
  <2>3. IsDelivery(worker[v].job, worker[v].owner)
    BY <1>1, <2>2 DEF OwnersAreRuns
  <2>4. worker[v].owner[2] \in Nat
    BY <2>2 DEF Owners
  <2>5. worker[v].owner[1] = j => worker[v].owner[2] # message[j].deliveries + 1
    BY <1>2, <2>3, <2>4 DEF IsDelivery
  <2> QED
    BY <2>1, <2>5
<1>8. ASSUME NEW w \in Workers, NEW v \in Workers, w # v,
             worker'[w].pc # "idle", worker'[v].pc # "idle"
      PROVE  worker'[w].owner # worker'[v].owner
  <2>1. CASE \E j \in Jobs : Deliver(w, j) \/ Deliver(v, j)
    BY <1>7, <1>8, <2>1
  <2>2. CASE ~(\E j \in Jobs : Deliver(w, j) \/ Deliver(v, j))
    BY <1>1, <1>8, <2>2, WorkerKeepsItsName DEF OwnersDiffer
  <2> QED
    BY <2>1, <2>2
<1> QED
  BY <1>5, <1>6, <1>8 DEF OwnersAreRuns, OwnersDiffer

(***************************************************************************)
(* No result is in the name of a run that has listed nothing yet.          *)
(***************************************************************************)
LEMMA FreshNames ==
  ASSUME IInv, OwnersAreRuns', OwnersDiffer', [Next]_vars, TypeOK',
         NEW w \in Workers, worker'[w].pc \in {"get", "acquire"},
         NEW r \in Ranges, Stored(worker[w].job, r)'
  PROVE  r.owner # worker'[w].owner
<1> DEFINE j == worker'[w].job
<1>1. /\ TypeOK /\ OwnersDiffer /\ OwnersAreRuns
      /\ \A v \in Workers : WorkerKnows(v)
  BY DEF IInv
<1>2. j \in Jobs /\ results'[j].state # "absent" /\ results'[j].envelope = r
  BY DEF TypeOK, WorkerState, Stored
<1>3. CASE \E i \in Jobs : Deliver(w, i)
  <2>1. PICK i \in Jobs : Deliver(w, i)
    BY <1>3
  <2>2. /\ i = j
        /\ worker'[w].owner = <<j, message[j].deliveries + 1>>
        /\ UNCHANGED results
    BY <1>1, <2>1 DEF Deliver, TypeOK, Locked
  <2>3. r.owner \in Owners /\ message[j].deliveries \in Nat
    BY <1>1, <1>2 DEF TypeOK, MessageState, Ranges
  <2>4. r.owner[2] \in Nat /\ r.owner[2] <= message[j].deliveries
    BY <1>1, <1>2, <2>2, <2>3 DEF OwnersAreRuns, IsDelivery, Owners
  <2>5. r.owner[2] # message[j].deliveries + 1
    BY <2>3, <2>4
  <2> QED
    BY <2>2, <2>5
<1>4. CASE ~ \E i \in Jobs : Deliver(w, i)
  <2>1. /\ worker[w].pc # "idle"
        /\ worker'[w].job = worker[w].job
        /\ worker'[w].owner = worker[w].owner
    BY <1>1, <1>4, WorkerKeepsItsName
  <2>2. worker[w].pc \in {"get", "acquire"}
    <3>1. worker \in [Workers -> WorkerState]
      BY <1>1 DEF TypeOK
    <3>2. CASE worker'[w] = worker[w]
      BY <3>2
    <3>3. CASE worker'[w] # worker[w]
      <4>1. WorkerStep(w) \/ WorkerFault(w)
        BY <1>1, <1>4, <3>3, OnlyItsOwnSteps
      <4>2. ASSUME NEW s, s.pc \notin {"get", "acquire"}, worker' = [worker EXCEPT ![w] = s]
            PROVE  FALSE
        BY <3>1, <4>2
      <4>3. ASSUME NEW pc, pc \notin {"get", "acquire"}, worker' = [worker EXCEPT ![w].pc = pc]
            PROVE  FALSE
        BY <2>1, <3>1, <4>3 DEF WorkerState
      <4>4. CASE GetResult(w)
        BY <4>4 DEF GetResult
      <4>5. CASE Acquire(w) \/ Renew(w) \/ Stage(w) \/ Publish(w) \/ Acknowledge(w)
        BY <4>3, <4>5 DEF Acquire, Renew, Stage, Publish, Acknowledge
      <4>6. CASE ReadCursor(w) \/ ListDelta(w)
        BY <4>2, <4>6 DEF ReadCursor, ListDelta
      <4>7. CASE Reread(w)
        BY <4>2, <4>7 DEF Reread, Proceed, Return, Idle
      <4>8. CASE Abandon(w)
        BY <4>2, <4>8 DEF Abandon, Proceed, Return, Idle
      <4>9. CASE Mark(w) \/ WorkerFault(w)
        BY <4>2, <4>9 DEF Mark, WorkerFault, Raise, Crash, Defer, Return, Idle
      <4> QED
        BY <4>1, <4>4, <4>5, <4>6, <4>7, <4>8, <4>9 DEF WorkerStep
    <3> QED
      BY <3>2, <3>3
  <2>3. CASE results[j].state # "absent" /\ results'[j].envelope = results[j].envelope
    BY <1>1, <1>2, <2>1, <2>2, <2>3 DEF WorkerKnows, Stored
  <2>4. ASSUME NEW v \in Workers, worker[v].pc = "stage", r.owner = worker[v].owner
        PROVE  r.owner # worker'[w].owner
    BY <1>1, <2>1, <2>2, <2>4 DEF OwnersDiffer
  <2> QED
    BY <1>1, <1>2, <2>3, <2>4, NewResult
<1> QED
  BY <1>3, <1>4

LEMMA KnowledgeLasts ==
  ASSUME TypeOK, Kept, TypeOK', NEW w \in Workers, WorkerKnows(w), worker'[w] = worker[w],
         worker[w].pc \notin {"get", "acquire"}
  PROVE  WorkerKnows(w)'
<1>1. CASE worker[w].pc = "idle"
  BY <1>1 DEF WorkerKnows
<1>2. CASE worker[w].pc # "idle"
  <2>1. /\ worker[w].job \in Jobs
        /\ worker[w].pc \in {"renew", "stage"} => worker[w].range.to \in Nat
    BY <1>2, Working DEF Ranges, Positions
  <2>2. head \in Nat /\ head' \in Nat
    BY DEF TypeOK, Positions
  <2> QED
    BY <1>2, <2>1, <2>2 DEF WorkerKnows, Kept, Stored
<1> QED
  BY <1>1, <1>2

LEMMA KnowledgeStep ==
  ASSUME IInv, Kept, TypeOK', OwnersAreRuns', OwnersDiffer', [Next]_vars, NEW w \in Workers
  PROVE  WorkerKnows(w)'
<1>1. TypeOK /\ \A v \in Workers : WorkerKnows(v)
  BY DEF IInv
<1>2. worker \in [Workers -> WorkerState] /\ head \in Nat /\ results \in [Jobs -> R!Row]
  BY <1>1 DEF TypeOK, Positions
<1>3. CASE worker'[w].pc \in {"get", "acquire"}
  BY <1>3, FreshNames DEF WorkerKnows
<1>4. CASE worker'[w].pc \in {"idle", "cursor", "list"}
  BY <1>4 DEF WorkerKnows
<1>5. CASE worker'[w] = worker[w] /\ worker[w].pc \notin {"get", "acquire"}
  BY <1>1, <1>5, KnowledgeLasts
<1> DEFINE j == worker[w].job
<1>6. ASSUME NEW r \in Ranges, Stored(worker[w].job, r), worker[w].pc # "idle",
             worker' = [worker EXCEPT ![w] =
               [pc |-> "publish", job |-> @.job, owner |-> @.owner, range |-> r]]
      PROVE  WorkerKnows(w)'
  <2>1. /\ worker'[w].pc = "publish" /\ worker'[w].job = worker[w].job /\ worker'[w].range = r
        /\ worker[w].job \in Jobs
    BY <1>1, <1>2, <1>6, Working
  <2> QED
    BY <1>6, <2>1 DEF WorkerKnows, Stored, Kept
<1>7. ASSUME GetResult(w), worker'[w].pc \notin {"get", "acquire", "idle"}
      PROVE  WorkerKnows(w)'
  <2>1. /\ worker[w].pc = "get" /\ worker[w].job \in Jobs /\ worker[w] \in WorkerState
    BY <1>1, <1>7, Working DEF GetResult
  <2>2. ASSUME worker' = [worker EXCEPT ![w].pc = "acquire"]
        PROVE  FALSE
    BY <1>2, <1>7, <2>1, <2>2 DEF WorkerState
  <2>3. ASSUME worker' = [worker EXCEPT ![w] = Idle]
        PROVE  FALSE
    BY <1>2, <1>7, <2>3 DEF Idle
  <2>4. CASE results[worker[w].job].state = "pending"
    <3>1. results[worker[w].job].envelope \in Ranges
      BY <1>2, <2>1, <2>4 DEF R!Row
    <3>2. Stored(worker[w].job, results[worker[w].job].envelope)
      BY <2>4 DEF Stored
    <3> QED
      BY <1>6, <1>7, <2>1, <2>4, <3>1, <3>2 DEF GetResult
  <2> QED
    BY <1>7, <2>2, <2>3, <2>4 DEF GetResult, Return
<1>8. ASSUME ListDelta(w)
      PROVE  WorkerKnows(w)'
  <2>1. /\ worker'[w].pc = "renew"
        /\ worker'[w].range.owner = worker'[w].owner
        /\ worker'[w].range.to = head
        /\ head' = head
    BY <1>2, <1>8 DEF ListDelta
  <2> QED
    BY <1>2, <2>1 DEF WorkerKnows
<1>9. ASSUME NEW pc \in {"stage", "created", "existed", "ack", "mark"},
             worker' = [worker EXCEPT ![w].pc = pc],
             worker[w].pc \in {"renew", "stage", "publish", "ack"}
      PROVE  /\ worker'[w].pc = pc /\ worker'[w].job = j /\ worker'[w].owner = worker[w].owner
             /\ worker'[w].range = worker[w].range
             /\ j \in Jobs
  BY <1>1, <1>2, <1>9, Working DEF WorkerState
<1>10. ASSUME Renew(w)
       PROVE  WorkerKnows(w)'
  <2>1. /\ worker'[w].pc = "stage" /\ worker'[w].job = j /\ worker'[w].owner = worker[w].owner
        /\ worker'[w].range = worker[w].range
        /\ head' = head
    BY <1>9, <1>10 DEF Renew
  <2>2. worker[w].range.owner = worker[w].owner /\ worker[w].range.to <= head
    BY <1>1, <1>10 DEF Renew, WorkerKnows
  <2> QED
    BY <2>1, <2>2 DEF WorkerKnows
<1>11. ASSUME Stage(w)
       PROVE  WorkerKnows(w)'
  <2>1. worker'[w].pc \in {"created", "existed"} /\ worker'[w].job = j /\ j \in Jobs
    BY <1>9, <1>11 DEF Stage
  <2>2. results'[j].state # "absent"
    BY <1>2, <1>11, <2>1 DEF Stage, R!CreateEntity
  <2> QED
    BY <2>1, <2>2 DEF WorkerKnows
<1>12. ASSUME Reread(w), worker'[w].pc # "idle"
       PROVE  WorkerKnows(w)'
  <2>1. /\ worker[w].pc \in {"created", "existed"} /\ j \in Jobs
        /\ results[j].state # "absent"
        /\ results' = results
    BY <1>1, <1>12, Working DEF Reread, WorkerKnows
  <2>2. Stored(j, StoredRange(w)) /\ StoredRange(w) \in Ranges
    BY <1>2, <2>1 DEF Stored, StoredRange, R!Row
  <2>3. ASSUME worker' = [worker EXCEPT ![w] = Idle]
        PROVE  FALSE
    BY <1>2, <1>12, <2>3 DEF Idle
  <2>4. ASSUME NEW b, worker' = [worker EXCEPT ![w] =
               [pc |-> "abandon", job |-> @.job, owner |-> @.owner,
                range |-> StoredRange(w), sent |-> b]]
        PROVE  WorkerKnows(w)'
    <3>1. worker'[w].pc = "abandon" /\ worker'[w].job = j /\ worker'[w].range = StoredRange(w)
      BY <1>2, <2>4
    <3> QED
      BY <2>1, <2>2, <3>1 DEF WorkerKnows, Stored
  <2> QED
    BY <1>6, <1>12, <2>1, <2>2, <2>3, <2>4 DEF Reread, Proceed, Return
<1>13. ASSUME Abandon(w), worker'[w].pc # "idle"
       PROVE  WorkerKnows(w)'
  <2>1. worker[w].pc = "abandon" /\ worker[w].range \in Ranges /\ Stored(j, worker[w].range)
    BY <1>1, <1>13, Working DEF Abandon, WorkerKnows
  <2>2. ASSUME worker' = [worker EXCEPT ![w] = Idle]
        PROVE  FALSE
    BY <1>2, <1>13, <2>2 DEF Idle
  <2> QED
    BY <1>6, <1>13, <2>1, <2>2 DEF Abandon, Proceed, Return
<1>14. ASSUME Publish(w) \/ Acknowledge(w)
       PROVE  WorkerKnows(w)'
  <2>1. /\ worker'[w].pc \in {"ack", "mark"} /\ worker'[w].job = j
        /\ worker'[w].range = worker[w].range /\ j \in Jobs
    BY <1>9, <1>14 DEF Publish, Acknowledge
  <2>2. Stored(j, worker[w].range)
    BY <1>1, <1>14 DEF Publish, Acknowledge, WorkerKnows
  <2>3. [job |-> j, range |-> worker[w].range] \in published'
    BY <1>1, <1>14 DEF Publish, Acknowledge, WorkerKnows, HandOver
  <2>4. results' = results
    BY <1>14 DEF Publish, Acknowledge
  <2> QED
    BY <2>1, <2>2, <2>3, <2>4 DEF WorkerKnows, Stored
<1>15. ASSUME Acquire(w) \/ ReadCursor(w)
       PROVE  worker'[w].pc \in {"cursor", "list"}
  BY <1>2, <1>15 DEF Acquire, ReadCursor, WorkerState
<1>16. ASSUME NEW i \in Jobs, Deliver(w, i)
       PROVE  worker'[w].pc = "get"
  BY <1>2, <1>16 DEF Deliver
<1>17. ASSUME Mark(w) \/ WorkerFault(w)
       PROVE  worker'[w].pc = "idle"
  BY <1>2, <1>17 DEF Mark, WorkerFault, Raise, Crash, Defer, Return, Idle
<1> QED
  BY <1>1, <1>3, <1>4, <1>5, <1>7, <1>8, <1>10, <1>11, <1>12, <1>13, <1>14, <1>15, <1>16, <1>17,
     OnlyItsOwnSteps DEF WorkerStep

LEMMA TimerStepKnows ==
  ASSUME IInv, Kept, TypeOK', [Next]_vars
  PROVE  TimerKnows'
<1>1. TypeOK /\ TimerKnows /\ timer \in TimerState
  BY DEF IInv, TypeOK
<1>2. ASSUME TimerList
      PROVE  TimerKnows'
  BY <1>2 DEF TimerList, TimerKnows, R!PendingKeys
<1>3. ASSUME NEW j \in Jobs, TimerPublish(j)
      PROVE  TimerKnows'
  <2>1. /\ timer' = [pc |-> "ack", page |-> timer.page \ {j}, job |-> j]
        /\ [job |-> j, range |-> results[j].envelope] \in published'
        /\ results' = results
    BY <1>3 DEF TimerPublish, HandOver
  <2>2. \A i \in timer.page : results[i].state # "absent"
    BY <1>1, <1>3 DEF TimerPublish, TimerKnows
  <2>3. j \in timer.page
    BY <1>3 DEF TimerPublish
  <2> QED
    BY <2>1, <2>2, <2>3 DEF TimerKnows
<1>4. ASSUME TimerAcknowledge \/ TimerMark \/ TimerSkip \/ TimerEnd \/ UNCHANGED timer
      PROVE  TimerKnows'
  <2>1. CASE timer'.pc = "idle"
    BY <2>1 DEF TimerKnows
  <2>2. CASE timer'.pc # "idle"
    <3>1. /\ timer.pc # "idle"
          /\ timer'.page \subseteq timer.page
          /\ timer.page \subseteq Jobs
          /\ timer'.pc \in {"ack", "mark"} =>
               timer.pc \in {"ack", "mark"} /\ timer'.job = timer.job /\ timer.job \in Jobs
      BY <1>1, <1>4, <2>2
         DEF TimerAcknowledge, TimerMark, TimerSkip, TimerNext, TimerEnd, TimerState, Idle
    <3>2. \A i \in timer'.page : results'[i].state # "absent"
      BY <1>1, <3>1 DEF TimerKnows, Kept
    <3>3. timer'.pc \in {"ack", "mark"} =>
            /\ results'[timer'.job].state # "absent"
            /\ [job |-> timer'.job, range |-> results'[timer'.job].envelope] \in published'
      BY <1>1, <3>1 DEF TimerKnows, Kept
    <3> QED
      BY <3>2, <3>3 DEF TimerKnows
  <2> QED
    BY <2>1, <2>2
<1> QED
  BY <1>2, <1>3, <1>4
     DEF Next, vars, WorkerStep, WorkerFault, TimerStep, SeederStep, Change, Expire, Deliver,
         LoseLock, GetResult, Acquire, ReadCursor, ListDelta, Renew, Stage, Reread, Abandon,
         Publish, Acknowledge, Mark, Defer, Raise, Crash, SeederRead, SeederList, SeederSet,
         SeederFail

LEMMA ForesightStep ==
  ASSUME IInv, Kept, TypeOK', [Next]_vars
  PROVE  NoForesight'
<1>1. /\ TypeOK /\ TimerKnows /\ NoForesight /\ \A w \in Workers : WorkerKnows(w)
      /\ head \in Nat /\ head' \in Nat /\ head <= head'
  BY DEF IInv, TypeOK, Positions, Kept
<1>2. row'.link # NoLink => row'.link <= head'
  <2>1. row'.link = NoLink \/ (row'.link \in Nat /\ row'.link <= head)
    <3>1. CASE LeavesLink
      BY <1>1, <3>1 DEF LeavesLink, NoForesight, TypeOK, Row, Positions
    <3>2. CASE CommitsPublished
      BY <1>1, <3>2 DEF CommitsPublished, Committed, Public, Ranges, Positions
    <3>3. ASSUME Acquires
          PROVE  row'.link = NoLink \/ (row'.link \in Nat /\ row'.link <= head)
      <4>1. row'.link = row.link
        BY <1>1, <3>3 DEF Acquires, Acquired, TypeOK, Row
      <4> QED
        BY <1>1, <4>1 DEF NoForesight, TypeOK, Row, Positions
    <3>4. ASSUME Seeds
          PROVE  row'.link \in Nat /\ row'.link <= head
      <4>1. PICK s \in Seeders : seeder[s].pc = "set" /\ row' = Seeded(row, seeder[s].link)
        BY <3>4 DEF Seeds
      <4>2. seeder[s].link \in Nat /\ seeder[s].link <= head
        BY <1>1, <4>1 DEF TypeOK, SeederState, NoForesight, Positions
      <4>3. row'.link = seeder[s].link
        BY <1>1, <4>1 DEF Seeded, TypeOK, Row
      <4> QED
        BY <4>2, <4>3
    <3> QED
      BY <1>1, <3>1, <3>2, <3>3, <3>4, RowStep
  <2> QED
    BY <1>1, <2>1
<1>3. ASSUME NEW s \in Seeders, seeder'[s].pc = "set"
      PROVE  seeder'[s].link <= head'
  <2>1. seeder \in [Seeders -> SeederState]
    BY <1>1 DEF TypeOK
  <2>2. ASSUME NEW t \in Seeders, SeederStep(t)
        PROVE  seeder'[s] = seeder[s] \/ seeder'[s].link = head
    BY <1>3, <2>1, <2>2 DEF SeederStep, SeederRead, SeederList, SeederSet, SeederFail, Idle
  <2>3. (\E t \in Seeders : SeederStep(t)) \/ UNCHANGED seeder
    BY DEF Next, vars, WorkerStep, WorkerFault, TimerStep, Change, Expire, Deliver, LoseLock,
           GetResult, Acquire, ReadCursor, ListDelta, Renew, Stage, Reread, Abandon, Publish,
           Acknowledge, Mark, Defer, Raise, Crash, TimerList, TimerPublish, TimerAcknowledge,
           TimerMark, TimerSkip, TimerEnd
  <2>4. seeder'[s] = seeder[s] \/ seeder'[s].link = head
    BY <2>2, <2>3
  <2>5. seeder'[s].link \in Nat
    BY <1>3 DEF TypeOK, SeederState, Positions
  <2> QED
    BY <1>1, <1>3, <2>4, <2>5 DEF NoForesight
<1>4. ASSUME NEW j \in Jobs, results'[j].state # "absent"
      PROVE  results'[j].envelope.to <= head'
  <2>1. results'[j].envelope.to \in Nat
    BY <1>4 DEF TypeOK, R!Row, Ranges, Positions
  <2>2. results'[j].envelope.to <= head
    BY <1>1, <1>4, NewResult DEF NoForesight
  <2> QED
    BY <1>1, <2>1, <2>2
<1> QED
  BY <1>2, <1>3, <1>4 DEF NoForesight

LEMMA AgreeStep ==
  ASSUME IInv, Kept, TypeOK', [Next]_vars
  PROVE  ResultsAgree'
<1>1. \A p \in published : p.job \in Jobs /\ Stored(p.job, p.range)
  BY DEF IInv, TypeOK, ResultsAgree, Stored, Public
<1>2. \A p \in published' \ published : p.job \in Jobs /\ Stored(p.job, p.range)
  <2>1. ASSUME NEW w \in Workers, Publish(w), NEW p \in published' \ published
        PROVE  p.job \in Jobs /\ Stored(p.job, p.range)
    <3>1. p = [job |-> worker[w].job, range |-> worker[w].range] /\ worker[w].pc = "publish"
      BY <2>1 DEF Publish, HandOver
    <3>2. worker[w].job \in Jobs /\ Stored(worker[w].job, worker[w].range)
      BY <3>1, Working DEF IInv, WorkerKnows
    <3> QED
      BY <3>1, <3>2
  <2>2. ASSUME NEW j \in Jobs, TimerPublish(j), NEW p \in published' \ published
        PROVE  p.job \in Jobs /\ Stored(p.job, p.range)
    <3>1. p = [job |-> j, range |-> results[j].envelope] /\ results[j].state # "absent"
      BY <2>2 DEF TimerPublish, HandOver, IInv, TimerKnows
    <3> QED
      BY <3>1 DEF Stored
  <2> QED
    BY <2>1, <2>2
       DEF Next, vars, WorkerStep, WorkerFault, TimerStep, SeederStep, Change, Expire, Deliver,
           LoseLock, GetResult, Acquire, ReadCursor, ListDelta, Renew, Stage, Reread, Abandon,
           Acknowledge, Mark, Defer, Raise, Crash, TimerList, TimerAcknowledge, TimerMark,
           TimerSkip, TimerEnd, SeederRead, SeederList, SeederSet, SeederFail
<1> QED
  BY <1>1, <1>2 DEF ResultsAgree, Stored, Kept

LEMMA CommitStep ==
  ASSUME IInv, Kept, TypeOK', [Next]_vars
  PROVE  CommitIsPublished'
<1>1. /\ TypeOK /\ TimerKnows /\ NoForesight /\ CommitIsPublished
      /\ \A w \in Workers : WorkerKnows(w)
      /\ row \in Row
  BY DEF IInv, TypeOK
<1>2. CASE LeavesLink
  BY <1>1, <1>2 DEF LeavesLink, CommitIsPublished, Kept
<1>3. CASE CommitsPublished
  BY <1>3 DEF CommitsPublished, Committed, CommitIsPublished, Kept
<1>4. CASE Acquires \/ Seeds
  BY <1>1, <1>4 DEF Acquires, Acquired, Seeds, Seeded, CommitIsPublished, Row
<1> QED
  BY <1>1, <1>2, <1>3, <1>4, RowStep
-----------------------------------------------------------------------------
LEMMA InvInit == Init => IInv /\ CursorInv
<1> SUFFICES ASSUME Init PROVE IInv /\ CursorInv
  OBVIOUS
<1>1. TypeOK
  BY SyncConstants
     DEF Init, TypeOK, MessageState, Queued, WorkerState, TimerState, SeederState, Idle,
         R!EmptyTable, R!Row, BlankRow, Row, Positions
<1>2. DeliveriesLeft
  BY SyncConstants DEF Init, DeliveriesLeft, Queued
<1>3. OwnersAreRuns /\ OwnersDiffer /\ TimerKnows /\ \A w \in Workers : WorkerKnows(w)
  BY DEF Init, OwnersAreRuns, OwnersDiffer, TimerKnows, WorkerKnows, Idle, R!EmptyTable
<1>4. NoForesight /\ ResultsAgree /\ CommitIsPublished
  BY DEF Init, NoForesight, ResultsAgree, CommitIsPublished, BlankRow, Idle, R!EmptyTable
<1>5. CursorInv
  BY DEF Init, CursorInv, ListsBegin, ListsEnd, NoChangeSkipped, BlankRow, Idle,
         R!EmptyTable
<1> QED
  BY <1>1, <1>2, <1>3, <1>4, <1>5 DEF IInv

LEMMA InvStep == IInv /\ [Next]_vars => IInv'
<1> SUFFICES ASSUME IInv, [Next]_vars PROVE IInv'
  OBVIOUS
<1>1. TypeOK' /\ DeliveriesLeft'
  BY TypeStep
<1>2. Kept
  BY StepKeeps DEF IInv
<1>3. OwnersAreRuns' /\ OwnersDiffer'
  BY <1>2, OwnersStep
<1>4. \A w \in Workers : WorkerKnows(w)'
  BY <1>1, <1>2, <1>3, KnowledgeStep
<1>5. TimerKnows' /\ NoForesight' /\ ResultsAgree' /\ CommitIsPublished'
  BY <1>1, <1>2, TimerStepKnows, ForesightStep, AgreeStep, CommitStep
<1> QED
  BY <1>1, <1>3, <1>4, <1>5 DEF IInv

THEOREM Invariance == Spec => []IInv
  BY InvInit, InvStep, PTL DEF Spec

(***************************************************************************)
(* The variables keep their types.                                         *)
(***************************************************************************)
THEOREM TypeCorrect == Spec => []TypeOK
<1>1. IInv => TypeOK
  BY DEF IInv
<1> QED
  BY <1>1, Invariance, PTL

(***************************************************************************)
(* All publishers of a job's result publish the stored one.                *)
(***************************************************************************)
THEOREM PublishersAgree == Spec => []ResultsAgree
<1>1. IInv => ResultsAgree
  BY DEF IInv
<1> QED
  BY <1>1, Invariance, PTL

(***************************************************************************)
(* A committed cursor is backed by a published result, whoever commits it, *)
(* and however seedings overlap.                                           *)
(***************************************************************************)
THEOREM PublicationPrecedesCommit == Spec => []CommitIsPublished
<1>1. IInv => CommitIsPublished
  BY DEF IInv
<1> QED
  BY <1>1, Invariance, PTL
-----------------------------------------------------------------------------
(***************************************************************************)
(* A step leaves the cursor where it is, takes the lease for a run that    *)
(* has listed nothing yet, commits what is published, or seeds the cursor. *)
(***************************************************************************)
LeavesCursor ==
    row'.link = row.link /\ row'.owner \in {row.owner, NoOwner} /\ UNCHANGED history

TakesLease ==
    /\ row'.link = row.link /\ UNCHANGED history
    /\ \E w \in Workers : worker[w].pc = "acquire" /\ row'.owner = worker[w].owner

CommitsCursor == CommitsPublished /\ UNCHANGED history

\* The lease stays, and what is written over is recorded.
SeedsCursor ==
    /\ row'.owner = row.owner
    /\ row'.link \in Positions
    /\ base' = IF row.link = NoLink THEN row'.link ELSE base
    /\ overwritten \subseteq overwritten'
    /\ "link" \notin overwritten' => row.link \in {NoLink, row'.link}
    /\ overwritten' = {} => row'.link = row.link \/ row.owner = NoOwner

LEMMA CursorMoves ==
  ASSUME IInv, [Next]_vars
  PROVE  LeavesCursor \/ TakesLease \/ CommitsCursor \/ SeedsCursor
<1>1. /\ TypeOK /\ TimerKnows /\ NoForesight
      /\ \A w \in Workers : WorkerKnows(w)
      /\ row \in Row /\ seeder \in [Seeders -> SeederState]
  BY DEF IInv, TypeOK
<1>2. LeavesLink => LeavesCursor
  BY DEF LeavesLink, LeavesCursor
<1>3. UNCHANGED history /\ Acquires => TakesLease
  BY <1>1 DEF Acquires, Acquired, TakesLease, Row
<1>4. ASSUME Seeds
      PROVE  SeedsCursor
  <2>1. PICK s \in Seeders :
          /\ seeder[s].pc = "set"
          /\ row' = Seeded(row, seeder[s].link)
          /\ base' = IF row.link = NoLink THEN seeder[s].link ELSE base
          /\ overwritten' = overwritten \cup WrittenOver(seeder[s].link)
    BY <1>4 DEF Seeds
  <2>2. seeder[s].link \in Positions
    BY <1>1, <2>1 DEF SeederState
  <2>3. row'.owner = row.owner /\ row'.link = seeder[s].link
    BY <1>1, <2>1 DEF Seeded, Row
  <2>4. "link" \notin overwritten' => row.link \in {NoLink, row'.link}
    BY <2>1, <2>3 DEF WrittenOver
  <2>5. overwritten' = {} => row'.link = row.link \/ row.owner = NoOwner
    BY <2>1, <2>3 DEF WrittenOver
  <2> QED
    BY <2>1, <2>2, <2>3, <2>4, <2>5 DEF SeedsCursor
<1> QED
  BY <1>1, <1>2, <1>3, <1>4, RowStep DEF CommitsCursor

LEMMA OverwrittenStays ==
  ASSUME IInv, [Next]_vars
  PROVE  overwritten \subseteq overwritten'
BY CursorMoves DEF LeavesCursor, TakesLease, CommitsCursor, SeedsCursor, history

(***************************************************************************)
(* A list that begins, or ends, where it should still does if its run has  *)
(* not just begun.                                                         *)
(***************************************************************************)
LEMMA PlaceLasts ==
  ASSUME IInv, [Next]_vars, NEW r \in Ranges,
         \A w \in Workers : worker[w].pc = "acquire" => worker[w].owner # r.owner
  PROVE  /\ "link" \notin overwritten' /\ Begins(r) => Begins(r)'
         /\ overwritten' = {} /\ Ends(r) => Ends(r)'
<1>1. r.owner # NoOwner /\ r.from \in Nat
  BY OwnersAreNamed DEF Ranges, Positions
<1> DEFINE Goal == /\ "link" \notin overwritten' /\ Begins(r) => Begins(r)'
                   /\ overwritten' = {} /\ Ends(r) => Ends(r)'
<1>2. CASE row'.owner # r.owner
  BY <1>2 DEF Begins, Ends
<1>3. CASE LeavesCursor
  BY <1>1, <1>3 DEF LeavesCursor, Begins, Ends
<1>4. CASE TakesLease \/ CommitsCursor
  <2>1. row'.owner # r.owner
    BY <1>1, <1>4 DEF TakesLease, CommitsCursor, CommitsPublished, Committed
  <2> QED
    BY <1>2, <2>1
<1>5. ASSUME SeedsCursor
      PROVE  Goal
  <2>1. row'.link \in Nat /\ row'.link # NoLink /\ row'.owner = row.owner
    BY <1>5, SyncConstants DEF SeedsCursor, Positions
  <2>2. ASSUME "link" \notin overwritten', Begins(r)
        PROVE  Begins(r)'
    <3>1. row.link \in {NoLink, row'.link}
      BY <1>5, <2>2 DEF SeedsCursor
    <3> QED
      BY <1>1, <2>1, <2>2, <3>1 DEF Begins
  <2>3. ASSUME overwritten' = {}, Ends(r)
        PROVE  Ends(r)'
    <3>1. row'.link = row.link \/ row.owner = NoOwner
      BY <1>5, <2>3 DEF SeedsCursor
    <3> QED
      BY <1>1, <2>1, <2>3, <3>1 DEF Ends
  <2> QED
    BY <2>2, <2>3
<1> QED
  BY <1>3, <1>4, <1>5, CursorMoves

(***************************************************************************)
(* How a worker comes to hold a link, and a list.                          *)
(***************************************************************************)
LEMMA ListingStep ==
  ASSUME TypeOK, [Next]_vars, NEW w \in Workers
  PROVE  /\ worker'[w].pc = "list" =>
              \/ worker'[w] = worker[w]
              \/ worker'[w].link = row.link /\ row' = row
         /\ worker'[w].pc \in {"renew", "stage"} =>
              \/ /\ worker[w].pc \in {"renew", "stage"}
                 /\ worker'[w].range = worker[w].range
              \/ ListDelta(w)
<1>1. worker \in [Workers -> WorkerState]
  BY DEF TypeOK
<1>2. CASE worker'[w] = worker[w]
  BY <1>2
<1>3. ASSUME NEW s, s.pc \notin {"list", "renew", "stage"}, worker' = [worker EXCEPT ![w] = s]
      PROVE  worker'[w].pc \notin {"list", "renew", "stage"}
  BY <1>1, <1>3
<1>4. ASSUME NEW pc, worker[w].pc # "idle", worker' = [worker EXCEPT ![w].pc = pc]
      PROVE  /\ worker'[w].pc = pc
             /\ worker[w].pc = "renew" => worker'[w].range = worker[w].range
  BY <1>1, <1>4 DEF WorkerState
<1>5. ASSUME \E j \in Jobs : Deliver(w, j)
      PROVE  worker'[w].pc = "get"
  BY <1>1, <1>5 DEF Deliver
<1>6. ASSUME GetResult(w)
      PROVE  worker'[w].pc \notin {"list", "renew", "stage"}
  BY <1>3, <1>4, <1>6 DEF GetResult, Return, Idle
<1>7. ASSUME Acquire(w) \/ Stage(w) \/ Publish(w) \/ Acknowledge(w)
      PROVE  worker'[w].pc \notin {"list", "renew", "stage"}
  BY <1>4, <1>7 DEF Acquire, Stage, Publish, Acknowledge
<1>8. ASSUME Renew(w)
      PROVE  /\ worker'[w].pc = "stage" /\ worker[w].pc = "renew"
             /\ worker'[w].range = worker[w].range
  BY <1>4, <1>8 DEF Renew
<1>9. ASSUME ReadCursor(w)
      PROVE  worker'[w].pc = "list" /\ worker'[w].link = row.link /\ row' = row
  BY <1>1, <1>9 DEF ReadCursor
<1>10. ASSUME ListDelta(w)
       PROVE  worker'[w].pc = "renew"
  BY <1>1, <1>10 DEF ListDelta
<1>11. ASSUME Reread(w) \/ Abandon(w)
       PROVE  worker'[w].pc \notin {"list", "renew", "stage"}
  <2>1. CASE Reread(w)
    BY <1>3, <2>1 DEF Reread, Proceed, Return, Idle
  <2>2. CASE Abandon(w)
    BY <1>3, <2>2 DEF Abandon, Proceed, Return, Idle
  <2> QED
    BY <1>11, <2>1, <2>2
<1>12. ASSUME Mark(w) \/ WorkerFault(w)
       PROVE  worker'[w].pc \notin {"list", "renew", "stage"}
  BY <1>3, <1>12 DEF Mark, WorkerFault, Raise, Crash, Defer, Return, Idle
<1> QED
  BY <1>2, <1>5, <1>6, <1>7, <1>8, <1>9, <1>10, <1>11, <1>12, OnlyItsOwnSteps DEF WorkerStep

\* A run that has begun to list is not the one that takes the lease.
LEMMA NotTakingTheLease ==
  ASSUME IInv, NEW w \in Workers, worker[w].pc \in {"list", "renew", "stage"}
  PROVE  /\ worker[w].owner \in Owners /\ worker[w].owner # NoOwner
         /\ \A v \in Workers : worker[v].pc = "acquire" => worker[v].owner # worker[w].owner
<1>1. TypeOK /\ OwnersDiffer
  BY DEF IInv
<1> QED
  BY <1>1, Working, OwnersAreNamed DEF OwnersDiffer

LEMMA WorkerPlaceLasts ==
  ASSUME IInv, [Next]_vars, NEW w \in Workers, worker[w].pc \in {"renew", "stage"},
         NEW r, r = worker[w].range
  PROVE  /\ "link" \notin overwritten' /\ Begins(r) => Begins(r)'
         /\ overwritten' = {} /\ Ends(r) => Ends(r)'
<1>1. r \in Ranges /\ r.owner = worker[w].owner
  BY Working DEF IInv, WorkerKnows
<1>2. \A v \in Workers : worker[v].pc = "acquire" => worker[v].owner # r.owner
  BY <1>1, NotTakingTheLease
<1> QED
  BY <1>1, <1>2, PlaceLasts

LEMMA ResultPlaceLasts ==
  ASSUME IInv, [Next]_vars, NEW j \in Jobs, results[j].state # "absent",
         NEW r, r = results[j].envelope
  PROVE  /\ "link" \notin overwritten' /\ Begins(r) => Begins(r)'
         /\ overwritten' = {} /\ Ends(r) => Ends(r)'
<1>1. TypeOK /\ OwnersAreRuns /\ \A w \in Workers : WorkerKnows(w)
  BY DEF IInv
<1>2. r \in Ranges /\ Stored(j, r) /\ IsDelivery(j, r.owner)
  BY <1>1 DEF TypeOK, R!Row, Stored, OwnersAreRuns
<1>3. ASSUME NEW v \in Workers, worker[v].pc = "acquire"
      PROVE  worker[v].owner # r.owner
  <2>1. CASE worker[v].job = j
    BY <1>1, <1>2, <1>3, <2>1 DEF WorkerKnows
  <2>2. CASE worker[v].job # j
    BY <1>1, <1>2, <1>3, <2>2 DEF OwnersAreRuns, IsDelivery
  <2> QED
    BY <2>1, <2>2
<1> QED
  BY <1>2, <1>3, PlaceLasts

(***************************************************************************)
(* A new list begins at the cursor or at the beginning, and ends at the    *)
(* last change.                                                            *)
(***************************************************************************)
LEMMA NewList ==
  ASSUME IInv, [Next]_vars, NEW w \in Workers, ListDelta(w)
  PROVE  /\ ListsBegin => Begins(worker[w].range)'
         /\ Ends(worker[w].range)'
<1>1. TypeOK /\ NoForesight /\ row \in Row /\ head \in Nat
  BY DEF IInv, TypeOK, Positions
<1>2. PICK from \in {0} \cup ({worker[w].link} \ {NoLink}) :
        worker' = [worker EXCEPT ![w] =
          [pc |-> "renew", job |-> @.job, owner |-> @.owner,
           range |-> [from |-> from, to |-> head, owner |-> @.owner]]]
  BY DEF ListDelta
<1>3. /\ worker'[w].range = [from |-> from, to |-> head, owner |-> worker[w].owner]
      /\ row' = row
  BY <1>1, <1>2 DEF ListDelta, TypeOK
<1>4. row.link # NoLink => row.link \in Nat /\ row.link <= head
  BY <1>1 DEF Row, Positions, NoForesight
<1>5. ASSUME ListsBegin, worker[w].owner = row.owner
      PROVE  IF row.link = NoLink THEN from = 0 ELSE from <= row.link
  <2>1. worker[w].link \in {NoLink, row.link}
    BY <1>5 DEF ListsBegin, ListDelta
  <2> QED
    BY <1>4, <2>1
<1>6. ListsBegin => Begins(worker[w].range)'
  BY <1>3, <1>5 DEF Begins
<1>7. Ends(worker[w].range)'
  BY <1>3, <1>4 DEF Ends
<1> QED
  BY <1>6, <1>7

LEMMA ListsBeginStep ==
  ASSUME IInv, [Next]_vars, ListsBegin, "link" \notin overwritten'
  PROVE  ListsBegin'
<1>1. /\ TypeOK /\ \A w \in Workers : WorkerKnows(w)
  BY DEF IInv
<1>2. ASSUME NEW w \in Workers, worker'[w].pc = "list", worker'[w].owner = row'.owner
      PROVE  worker'[w].link \in {NoLink, row'.link}
  <2>1. CASE worker'[w] = worker[w]
    <3>1. worker[w].owner # NoOwner /\ ~TakesLease
      BY <1>2, <2>1, NotTakingTheLease DEF TakesLease
    <3>2. ~CommitsCursor
      BY <1>2, <2>1, <3>1 DEF CommitsCursor, CommitsPublished, Committed
    <3>3. row'.owner = row.owner /\ row.link \in {NoLink, row'.link}
      BY <1>2, <2>1, <3>1, <3>2, CursorMoves DEF LeavesCursor, SeedsCursor
    <3> QED
      BY <1>2, <2>1, <3>3 DEF ListsBegin
  <2> QED
    BY <1>1, <1>2, <2>1, ListingStep
<1>3. ASSUME NEW w \in Workers, worker[w].pc \in {"renew", "stage"}, NEW r, r = worker[w].range
      PROVE  Begins(r)'
  BY <1>3, WorkerPlaceLasts DEF ListsBegin
<1>4. ASSUME NEW w \in Workers, worker'[w].pc \in {"renew", "stage"}
      PROVE  Begins(worker[w].range)'
  <2>1. CASE worker[w].pc \in {"renew", "stage"} /\ worker'[w].range = worker[w].range
    BY <1>3, <2>1 DEF Begins
  <2>2. CASE ListDelta(w)
    BY <2>2, NewList
  <2> QED
    BY <1>1, <1>4, <2>1, <2>2, ListingStep
<1>5. ASSUME NEW j \in Jobs, results'[j].state # "absent"
      PROVE  Begins(results[j].envelope)'
  <2>1. ASSUME results[j].state # "absent", NEW r, r = results[j].envelope
        PROVE  Begins(r)'
    BY <2>1, ResultPlaceLasts DEF ListsBegin
  <2>2. \/ results[j].state # "absent" /\ results'[j].envelope = results[j].envelope
        \/ \E w \in Workers :
             worker[w].pc = "stage" /\ results'[j].envelope = worker[w].range
    BY <1>1, <1>5, NewResult
  <2> QED
    BY <1>3, <2>1, <2>2 DEF Begins
<1> QED
  BY <1>2, <1>4, <1>5 DEF ListsBegin

LEMMA ListsEndStep ==
  ASSUME IInv, [Next]_vars, ListsEnd, overwritten' = {}
  PROVE  ListsEnd'
<1>1. /\ TypeOK /\ \A w \in Workers : WorkerKnows(w)
  BY DEF IInv
<1>2. ASSUME NEW w \in Workers, worker[w].pc \in {"renew", "stage"}, NEW r, r = worker[w].range
      PROVE  Ends(r)'
  BY <1>2, WorkerPlaceLasts DEF ListsEnd
<1>3. ASSUME NEW w \in Workers, worker'[w].pc \in {"renew", "stage"}
      PROVE  Ends(worker[w].range)'
  <2>1. CASE worker[w].pc \in {"renew", "stage"} /\ worker'[w].range = worker[w].range
    BY <1>2, <2>1 DEF Ends
  <2>2. CASE ListDelta(w)
    BY <2>2, NewList
  <2> QED
    BY <1>1, <1>3, <2>1, <2>2, ListingStep
<1>4. ASSUME NEW j \in Jobs, results'[j].state # "absent"
      PROVE  Ends(results[j].envelope)'
  <2>1. ASSUME results[j].state # "absent", NEW r, r = results[j].envelope
        PROVE  Ends(r)'
    BY <2>1, ResultPlaceLasts DEF ListsEnd
  <2>2. \/ results[j].state # "absent" /\ results'[j].envelope = results[j].envelope
        \/ \E w \in Workers :
             worker[w].pc = "stage" /\ results'[j].envelope = worker[w].range
    BY <1>1, <1>4, NewResult
  <2> QED
    BY <1>2, <2>1, <2>2 DEF Ends
<1> QED
  BY <1>3, <1>4 DEF ListsEnd
-----------------------------------------------------------------------------
LEMMA SkipStep ==
  ASSUME IInv, Kept, [Next]_vars, "link" \notin overwritten',
         row.link = NoLink => base = 0, ListsBegin, NoChangeSkipped
  PROVE  NoChangeSkipped'
<1>1. /\ TypeOK /\ row \in Row /\ base \in Nat
      /\ row.link # NoLink => row.link \in Nat
  BY DEF IInv, TypeOK, Row, Positions
<1>2. \A c : Reported(c) => Reported(c)'
  BY DEF Reported, Kept
<1>3. ASSUME row'.link = row.link, UNCHANGED base
      PROVE  NoChangeSkipped'
  BY <1>2, <1>3 DEF NoChangeSkipped
<1>4. ASSUME CommitsCursor
      PROVE  NoChangeSkipped'
  <2>1. PICK p \in published :
          /\ p \in Public
          /\ Stored(p.job, p.range)
          /\ row.owner = p.range.owner
          /\ row' = Committed(row, p.range.to, p.range.owner)
    BY <1>4 DEF CommitsCursor, CommitsPublished
  <2>2. /\ p.range.from \in Nat /\ p.range.to \in Nat
        /\ row'.link = p.range.to
    BY <2>1 DEF Public, Ranges, Positions, Committed
  <2>3. Begins(p.range)
    BY <2>1 DEF ListsBegin, Stored, Public
  <2>4. IF row.link = NoLink THEN p.range.from = 0 ELSE p.range.from <= row.link
    BY <2>1, <2>3 DEF Begins
  <2>5. ASSUME NEW c \in (base + 1)..p.range.to
        PROVE  Reported(c)
    <3>1. CASE p.range.from < c
      BY <1>1, <2>1, <2>2, <2>5, <3>1 DEF Reported
    <3>2. CASE ~(p.range.from < c)
      <4>1. row.link # NoLink
        BY <1>1, <2>2, <2>4, <2>5, <3>2
      <4>2. c \in (base + 1)..row.link
        BY <1>1, <2>2, <2>4, <2>5, <3>2, <4>1
      <4> QED
        BY <4>1, <4>2 DEF NoChangeSkipped
    <3> QED
      BY <3>1, <3>2
  <2>6. UNCHANGED base
    BY <1>4 DEF CommitsCursor, history
  <2> QED
    BY <1>2, <2>2, <2>5, <2>6 DEF NoChangeSkipped
<1>5. ASSUME SeedsCursor
      PROVE  NoChangeSkipped'
  <2>1. row'.link \in Nat /\ row'.link # NoLink
    BY <1>5, SyncConstants DEF SeedsCursor, Positions
  <2>2. CASE row.link = NoLink
    <3>1. base' = row'.link
      BY <1>5, <2>2 DEF SeedsCursor
    <3> QED
      BY <2>1, <3>1 DEF NoChangeSkipped
  <2>3. CASE row.link # NoLink
    BY <1>3, <1>5, <2>3 DEF SeedsCursor
  <2> QED
    BY <2>2, <2>3
<1> QED
  BY <1>3, <1>4, <1>5, CursorMoves DEF LeavesCursor, TakesLease, history

LEMMA BaseStep ==
  ASSUME IInv, [Next]_vars, row.link = NoLink => base = 0
  PROVE  row'.link = NoLink => base' = 0
<1>1. CASE LeavesCursor \/ TakesLease
  BY <1>1 DEF LeavesCursor, TakesLease, history
<1>2. CASE CommitsCursor
  BY <1>2, SyncConstants DEF CommitsCursor, CommitsPublished, Committed, Public, Ranges, Positions
<1>3. CASE SeedsCursor
  BY <1>3, SyncConstants DEF SeedsCursor, Positions
<1> QED
  BY <1>1, <1>2, <1>3, CursorMoves

LEMMA ForwardStep ==
  ASSUME IInv, [Next]_vars, ListsEnd, overwritten' = {}, row.link # NoLink
  PROVE  row'.link >= row.link
<1>1. TypeOK /\ row.link \in Nat
  BY DEF IInv, TypeOK, Row, Positions
<1>2. CASE LeavesCursor \/ TakesLease
  BY <1>1, <1>2 DEF LeavesCursor, TakesLease
<1>3. ASSUME CommitsCursor
      PROVE  row'.link >= row.link
  <2>1. PICK p \in published :
          /\ p \in Public
          /\ Stored(p.job, p.range)
          /\ row.owner = p.range.owner
          /\ row' = Committed(row, p.range.to, p.range.owner)
    BY <1>3 DEF CommitsCursor, CommitsPublished
  <2>2. p.range.to \in Nat /\ row'.link = p.range.to
    BY <2>1 DEF Public, Ranges, Positions, Committed
  <2>3. row.link <= p.range.to
    BY <2>1 DEF ListsEnd, Stored, Public, Ends
  <2> QED
    BY <1>1, <2>2, <2>3
<1>4. CASE SeedsCursor
  <2>1. row'.link = row.link
    BY <1>4 DEF SeedsCursor
  <2> QED
    BY <1>1, <2>1
<1> QED
  BY <1>2, <1>3, <1>4, CursorMoves

LEMMA CursorStep == IInv /\ CursorInv /\ [Next]_vars => CursorInv'
<1> SUFFICES ASSUME IInv, CursorInv, [Next]_vars PROVE CursorInv'
  OBVIOUS
<1>1. Kept
  BY StepKeeps DEF IInv
<1>2. "link" \notin overwritten' => "link" \notin overwritten
  BY OverwrittenStays
<1>3. overwritten' = {} => overwritten = {}
  BY OverwrittenStays
<1>4. row'.link = NoLink => base' = 0
  BY BaseStep DEF CursorInv
<1>5. "link" \notin overwritten' => ListsBegin' /\ NoChangeSkipped'
  BY <1>1, <1>2, ListsBeginStep, SkipStep DEF CursorInv
<1>6. overwritten' = {} => ListsEnd'
  BY <1>3, ListsEndStep DEF CursorInv
<1> QED
  BY <1>4, <1>5, <1>6 DEF CursorInv

LEMMA CursorInvariance == Spec => [](IInv /\ CursorInv)
  BY InvInit, InvStep, CursorStep, PTL DEF Spec

(***************************************************************************)
(* However many seeders, jobs and timers overlap, and whatever leases,     *)
(* locks and messages are lost, the cursor moves past a change that no     *)
(* published result reports only if a seeding has replaced a link.         *)
(***************************************************************************)
THEOREM ChangesAreReported == Spec => []OnlySeedingSkips
<1>1. CursorInv => OnlySeedingSkips
  BY DEF CursorInv, OnlySeedingSkips
<1> QED
  BY <1>1, CursorInvariance, PTL

(***************************************************************************)
(* Nor do late commits ever take the cursor back, before a seeding has     *)
(* replaced a link or set the first one under a job's lease.               *)
(***************************************************************************)
THEOREM CursorMovesForward == Spec => OnlySeedingGoesBack
<1>1. IInv /\ CursorInv /\ [Next]_vars =>
        [overwritten' = {} /\ row.link # NoLink => row'.link >= row.link]_vars
  <2>1. ASSUME IInv, CursorInv, [Next]_vars, overwritten' = {}, row.link # NoLink
        PROVE  row'.link >= row.link
    <3>1. ListsEnd
      BY <2>1, OverwrittenStays DEF CursorInv
    <3> QED
      BY <2>1, <3>1, ForwardStep
  <2> QED
    BY <2>1
<1> QED
  BY <1>1, CursorInvariance, PTL DEF Spec, OnlySeedingGoesBack
=============================================================================
