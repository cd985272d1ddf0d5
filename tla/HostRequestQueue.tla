-------------------------- MODULE HostRequestQueue --------------------------
(***************************************************************************)
(* RequestQueue of infra/queue/request_queue.py: each host has a queue, a  *)
(* backoff deadline and worker tasks of its own, made by its first         *)
(* request.  A request that is rate limited goes back to the queue after a *)
(* delay, at most max_attempts times in all.                               *)
(*                                                                         *)
(* A step runs from one await that suspends to the next.  Deadlines are    *)
(* counted down: Tick is one unit of time for all of them.                 *)
(***************************************************************************)
EXTENDS Naturals, Sequences, FiniteSets

CONSTANTS
    Requests,
    Hosts,
    HostOf,          \* the host of each request
    Slots,           \* default_concurrency workers for each host
    MaxAttempts,     \* max_attempts
    MaxDelay,        \* max_backoff, in units of time
    None

ASSUME HostQueueConstants ==
    /\ HostOf \in [Requests -> Hosts]
    /\ Slots # {} /\ IsFiniteSet(Slots)
    /\ MaxAttempts \in Nat \ {0}
    /\ MaxDelay \in Nat \ {0}
    /\ None \notin Nat

VARIABLES
    queue,       \* the queue of each host
    future,      \* the future of each request
    attempt,     \* calls made, per request
    worker,      \* the local state of the tasks of each host
    delayed,     \* _requeue_after_delay tasks: units left, per request
    deadline,    \* retry_after: units left, per host
    closer,      \* close(): the hosts it has still to deal with
    early        \* history: calls made before their host's deadline

vars == <<queue, future, attempt, worker, delayed, deadline, closer, early>>

Settled == {"result", "error", "exceeded", "cancelled"}

WorkerState ==
    [pc : {"off", "get", "ended"}] \cup
    [pc : {"call", "dead"}, request : Requests] \cup
    [pc : {"sleep"}, request : Requests, left : 0..MaxDelay]

CloserState == [pc : {"open", "returned", "raised"}] \cup [pc : {"closing"}, todo : SUBSET Hosts]

AllWorkers(s) == [h \in Hosts |-> [w \in Slots |-> [pc |-> s]]]

Init ==
    /\ queue = [h \in Hosts |-> <<>>]
    /\ future = [r \in Requests |-> "none"]
    /\ attempt = [r \in Requests |-> 0]
    /\ worker = AllWorkers("off")
    /\ delayed = [r \in Requests |-> None]
    /\ deadline = [h \in Hosts |-> 0]
    /\ closer = [pc |-> "open"]
    /\ early = {}
-----------------------------------------------------------------------------
\* Faulty variants, from which the runs' properties must tell the code apart.

OneAttemptMore(r) == attempt[r] > MaxAttempts

RequeuedAtOnce(r, d) ==
    /\ delayed' = [delayed EXCEPT ![r] = d]
    /\ queue' = [queue EXCEPT ![HostOf[r]] = Append(@, r)]

IgnoresLastUnit(h) == deadline[h] > 1

SkipsBusyWorkers(h) ==
    [worker EXCEPT ![h] = [w \in Slots |-> IF @[w].pc = "get" THEN [pc |-> "ended"] ELSE @[w]]]
-----------------------------------------------------------------------------
closed == closer.pc # "open"

Opened == {h \in Hosts : \A w \in Slots : worker[h][w].pc # "off"}

\* _ensure_host, then put.
Enqueue(r) ==
    LET h == HostOf[r] IN
    /\ ~closed
    /\ future[r] = "none"
    /\ future' = [future EXCEPT ![r] = "waiting"]
    /\ queue' = [queue EXCEPT ![h] = Append(@, r)]
    /\ worker' = IF h \in Opened THEN worker
                 ELSE [worker EXCEPT ![h] = [w \in Slots |-> [pc |-> "get"]]]
    /\ UNCHANGED <<attempt, delayed, deadline, closer, early>>

\* The caller is cancelled; its operation is executed all the same.
Cancel(r) ==
    /\ future[r] = "waiting"
    /\ future' = [future EXCEPT ![r] = "cancelled"]
    /\ UNCHANGED <<queue, attempt, worker, delayed, deadline, closer, early>>
-----------------------------------------------------------------------------
Goes(h, w, state) == worker' = [worker EXCEPT ![h][w] = state]

Calls(h, w, r) ==
    /\ Goes(h, w, [pc |-> "call", request |-> r])
    /\ attempt' = [attempt EXCEPT ![r] = @ + 1]
    /\ early' = IF deadline[h] > 0 THEN early \cup {r} ELSE early

MustWait(h) == deadline[h] > 0

\* _worker: take a request, sleep until the deadline as it is now, execute.
Take(h, w) ==
    LET r == Head(queue[h]) IN
    /\ worker[h][w].pc = "get"
    /\ queue[h] # <<>>
    /\ queue' = [queue EXCEPT ![h] = Tail(@)]
    /\ \/ /\ MustWait(h)
          /\ Goes(h, w, [pc |-> "sleep", request |-> r, left |-> deadline[h]])
          /\ UNCHANGED <<attempt, early>>
       \/ ~MustWait(h) /\ Calls(h, w, r)
    /\ UNCHANGED <<future, delayed, deadline, closer>>

Wake(h, w) ==
    /\ worker[h][w].pc = "sleep"
    /\ worker[h][w].left = 0
    /\ Calls(h, w, worker[h][w].request)
    /\ UNCHANGED <<queue, future, delayed, deadline, closer>>

\* A future that is done, its caller cancelled, is left alone.
Settle(r, outcome) ==
    future' = IF future[r] = "waiting" THEN [future EXCEPT ![r] = outcome] ELSE future

\* A faulty variant: a worker whose queue is empty ends.
EndsWhenIdle(h, w) == Goes(h, w, [pc |-> IF closed \/ queue[h] = <<>> THEN "ended" ELSE "get"])

\* while not self._closed
Loop(h, w) == Goes(h, w, [pc |-> IF closed THEN "ended" ELSE "get"])

Fails(h, w) ==
    /\ worker[h][w].pc = "call"
    /\ Settle(worker[h][w].request, "error")
    /\ Loop(h, w)
    /\ UNCHANGED <<queue, attempt, delayed, deadline, closer, early>>

\* A success clears the deadline, whoever set it.
Succeeds(h, w) ==
    /\ worker[h][w].pc = "call"
    /\ deadline' = [deadline EXCEPT ![h] = 0]
    /\ Settle(worker[h][w].request, "result")
    /\ Loop(h, w)
    /\ UNCHANGED <<queue, attempt, delayed, closer, early>>

GivesUp(r) == attempt[r] >= MaxAttempts

RequeueLater(r, d) == delayed' = [delayed EXCEPT ![r] = d] /\ UNCHANGED queue

\* _handle_backoff.
Limited(h, w, d) ==
    LET r == worker[h][w].request IN
    /\ worker[h][w].pc = "call"
    /\ deadline' = [deadline EXCEPT ![h] = IF d > @ THEN d ELSE @]
    /\ \/ GivesUp(r) /\ Settle(r, "exceeded") /\ UNCHANGED <<queue, delayed>>
       \/ ~GivesUp(r) /\ RequeueLater(r, d) /\ UNCHANGED future
    /\ Loop(h, w)
    /\ UNCHANGED <<attempt, closer, early>>

\* A Retry-After that is no number raises out of the task, which is over.
Malformed(h, w) ==
    /\ worker[h][w].pc = "call"
    /\ Goes(h, w, [pc |-> "dead", request |-> worker[h][w].request])
    /\ UNCHANGED <<queue, future, attempt, delayed, deadline, closer, early>>

PutBack(r) == queue' = [queue EXCEPT ![HostOf[r]] = Append(@, r)]

\* _requeue_after_delay drops the request of a closed queue.
Requeue(r) ==
    /\ delayed[r] = 0
    /\ delayed' = [delayed EXCEPT ![r] = None]
    /\ \/ closed /\ UNCHANGED queue
       \/ ~closed /\ PutBack(r)
    /\ UNCHANGED <<future, attempt, worker, deadline, closer, early>>
-----------------------------------------------------------------------------
(***************************************************************************)
(* close(): cancel the workers of a host and await them, host by host; a   *)
(* worker that has died makes the await raise.                             *)
(***************************************************************************)
Cancelled(h) ==
    [worker EXCEPT ![h] = [w \in Slots |-> IF @[w].pc = "dead" THEN @[w] ELSE [pc |-> "ended"]]]

CloseHosts(todo) ==
    \/ todo = {} /\ closer' = [pc |-> "returned"] /\ UNCHANGED worker
    \/ \E h \in todo :
         /\ worker' = Cancelled(h)
         /\ closer' = IF \E w \in Slots : worker[h][w].pc = "dead" THEN [pc |-> "raised"]
                      ELSE [pc |-> "closing", todo |-> todo \ {h}]

Close ==
    /\ ~closed
    /\ CloseHosts(Opened)
    /\ UNCHANGED <<queue, future, attempt, delayed, deadline, early>>

CloseOn ==
    /\ closer.pc = "closing"
    /\ CloseHosts(closer.todo)
    /\ UNCHANGED <<queue, future, attempt, delayed, deadline, early>>

Less(n) == IF n \in {0, None} THEN n ELSE n - 1

Tick ==
    /\ \/ \E h \in Hosts : deadline[h] > 0
       \/ \E r \in Requests : delayed[r] \notin {0, None}
       \/ \E h \in Hosts, w \in Slots : worker[h][w].pc = "sleep" /\ worker[h][w].left > 0
    /\ deadline' = [h \in Hosts |-> Less(deadline[h])]
    /\ delayed' = [r \in Requests |-> Less(delayed[r])]
    /\ worker' = [h \in Hosts |-> [w \in Slots |->
         IF worker[h][w].pc = "sleep" THEN [worker[h][w] EXCEPT !.left = Less(@)]
                                      ELSE worker[h][w]]]
    /\ UNCHANGED <<queue, future, attempt, closer, early>>
-----------------------------------------------------------------------------
Answer(h, w) ==
    \/ Fails(h, w) \/ Succeeds(h, w) \/ Malformed(h, w)
    \/ \E d \in 1..MaxDelay : Limited(h, w, d)

WorkerStep(h, w) == Take(h, w) \/ Wake(h, w) \/ Answer(h, w)

Next ==
    \/ \E r \in Requests : Enqueue(r) \/ Cancel(r) \/ Requeue(r)
    \/ \E h \in Hosts, w \in Slots : WorkerStep(h, w)
    \/ Close \/ CloseOn \/ Tick

Spec == Init /\ [][Next]_vars

\* The event loop runs every ready task, time passes, calls return.
Fairness ==
    /\ WF_vars(Tick) /\ WF_vars(CloseOn)
    /\ \A h \in Hosts, w \in Slots : WF_vars(WorkerStep(h, w))
    /\ \A r \in Requests : WF_vars(Requeue(r))

FairSpec == Spec /\ Fairness
-----------------------------------------------------------------------------
TypeOK ==
    /\ queue \in [Hosts -> Seq(Requests)]
    /\ future \in [Requests -> {"none", "waiting"} \cup Settled]
    /\ attempt \in [Requests -> 0..MaxAttempts]
    /\ worker \in [Hosts -> [Slots -> WorkerState]]
    /\ delayed \in [Requests -> 0..MaxDelay \cup {None}]
    /\ deadline \in [Hosts -> 0..MaxDelay]
    /\ closer \in CloserState
    /\ early \subseteq Requests

Copies(r) ==
    LET h == HostOf[r] IN
    Cardinality({i \in DOMAIN queue[h] : queue[h][i] = r})
      + Cardinality({w \in Slots : worker[h][w].pc \in {"sleep", "call", "dead"}
                                   /\ worker[h][w].request = r})
      + (IF delayed[r] = None THEN 0 ELSE 1)

(***************************************************************************)
(* A request is never in two places, and so never called twice at once;    *)
(* while its caller waits and the queue is open it is not lost.            *)
(***************************************************************************)
InOnePlace ==
    \A r \in Requests :
        /\ Copies(r) <= 1
        /\ future[r] = "waiting" /\ ~closed => Copies(r) = 1

(***************************************************************************)
(* tests/test_request_queue.py "persists retry after for subsequent tasks":*)
(* with one worker per host, the default, no call is made to a host before *)
(* the deadline that an earlier answer to any of its requests has set.     *)
(***************************************************************************)
BackoffRespected == Cardinality(Slots) = 1 => early = {}

\* A malformed answer has ended every worker of the host, or the one that had
\* this request.
Abandoned(r) ==
    LET dead == {w \in Slots : worker[HostOf[r]][w].pc = "dead"} IN
    dead = Slots \/ \E w \in dead : worker[HostOf[r]][w].request = r

(***************************************************************************)
(* Whoever awaits enqueue() is answered some day, with RateLimitExceeded   *)
(* at the latest, unless the queue is closed or malformed answers have     *)
(* ended the workers.                                                      *)
(***************************************************************************)
EnqueuedIsSettled ==
    \A r \in Requests :
        future[r] = "waiting" ~> (closed \/ future[r] \in Settled \/ Abandoned(r))

(***************************************************************************)
(* When close() has returned no task works on any host.                    *)
(***************************************************************************)
NothingLeftRunning ==
    closer.pc = "returned" => \A h \in Opened, w \in Slots : worker[h][w].pc = "ended"
=============================================================================
