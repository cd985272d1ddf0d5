-------------------------- MODULE RateLimitedQueue --------------------------
(***************************************************************************)
(* RateLimitedRequestQueue of infra/queue/request_queue.py: worker tasks   *)
(* of one asyncio loop take requests from a FIFO, wait out the backoff of  *)
(* the host, take its semaphore and make the call; a request that is rate  *)
(* limited is put back after a delay by a task of its own.                 *)
(*                                                                         *)
(* A step runs from one await that suspends to the next.  Deadlines are    *)
(* counted down: Tick is one unit of time for all of them.                 *)
(***************************************************************************)
EXTENDS Naturals, Sequences, FiniteSets

CONSTANTS
    Requests,
    Hosts,
    HostOf,          \* the host of each request
    Workers,         \* max_workers tasks
    PerHostLimit,
    MaxDelay,        \* max_backoff_seconds, in units of time
    MaxLimited,      \* bound on the rate-limited answers to one request
    Stop,            \* the None that close() puts in the queue
    MayClose,        \* whether close() is called
    None

ASSUME QueueConstants ==
    /\ HostOf \in [Requests -> Hosts]
    /\ PerHostLimit \in Nat \ {0}
    /\ MaxDelay \in Nat \ {0}
    /\ MaxLimited \in Nat
    /\ IsFiniteSet(Workers)
    /\ Stop \notin Requests
    /\ None \notin Nat
    /\ MayClose \in BOOLEAN

VARIABLES
    queue,       \* _queue
    future,      \* the future of each request
    attempt,     \* attempts that were rate limited, per request
    worker,      \* the local state of each task
    delayed,     \* _requeue_after_delay tasks: units left, per request
    backoff,     \* _host_backoff: units left, per host
    closed,
    early        \* history: calls made while their host was backing off

vars == <<queue, future, attempt, worker, delayed, backoff, closed, early>>

Settled == {"result", "error", "cancelled"}

WorkerState ==
    [pc : {"off", "get", "ended"}] \cup
    [pc : {"acquire", "call"}, request : Requests] \cup
    [pc : {"sleep"}, request : Requests, left : 0..MaxDelay]

Get == [pc |-> "get"]

Init ==
    /\ queue = <<>>
    /\ future = [r \in Requests |-> "none"]
    /\ attempt = [r \in Requests |-> 0]
    /\ worker = [w \in Workers |-> [pc |-> "off"]]
    /\ delayed = [r \in Requests |-> None]
    /\ backoff = [h \in Hosts |-> 0]
    /\ closed = FALSE
    /\ early = {}
-----------------------------------------------------------------------------
\* Faulty variants, from which the runs' properties must tell the code apart.

RequeuedAtOnce(r, d) == queue' = Append(queue, r) /\ delayed' = [delayed EXCEPT ![r] = d]

OneStop == IF worker = [w \in Workers |-> [pc |-> "off"]] THEN queue ELSE Append(queue, Stop)

NeverReleased(w, h) == [worker EXCEPT ![w] = [pc |-> "ended"]]

MarkedWaiting(r) == [future EXCEPT ![r] = "pending"]
-----------------------------------------------------------------------------
Holders(h) == {w \in Workers : worker[w].pc = "call" /\ HostOf[worker[w].request] = h}

Waiters(h) == {w \in Workers : worker[w].pc = "acquire" /\ HostOf[worker[w].request] = h}

Free(h) == Cardinality(Holders(h)) < PerHostLimit

\* start(): nothing when the tasks exist already.
Start ==
    /\ \A w \in Workers : worker[w].pc = "off"
    /\ worker' = [w \in Workers |-> Get]
    /\ UNCHANGED <<queue, future, attempt, delayed, backoff, closed, early>>

Waiting(r) == [future EXCEPT ![r] = "waiting"]

Enqueue(r) ==
    /\ ~closed
    /\ future[r] = "none"
    /\ future' = Waiting(r)
    /\ queue' = Append(queue, r)
    /\ UNCHANGED <<attempt, worker, delayed, backoff, closed, early>>

\* The task that awaits enqueue() is cancelled.
Cancel(r) ==
    /\ future[r] = "waiting"
    /\ future' = [future EXCEPT ![r] = "cancelled"]
    /\ UNCHANGED <<queue, attempt, worker, delayed, backoff, closed, early>>

\* One Stop for each task that start() created.
Stops == IF \A w \in Workers : worker[w].pc = "off"
           THEN queue
           ELSE queue \o [i \in 1..Cardinality(Workers) |-> Stop]

Close ==
    /\ MayClose
    /\ ~closed
    /\ closed' = TRUE
    /\ queue' = Stops
    /\ UNCHANGED <<future, attempt, worker, delayed, backoff, early>>
-----------------------------------------------------------------------------
\* The request of w starts; early remembers whether its host was backing off.
Begins(w, r) ==
    /\ worker' = [worker EXCEPT ![w] = [pc |-> "call", request |-> r]]
    /\ early' = IF backoff[HostOf[r]] > 0 THEN early \cup {r} ELSE early

\* async with semaphore: suspends only if it is taken or others wait for it.
Enters(w, r) ==
    LET h == HostOf[r] IN
    \/ Free(h) /\ Waiters(h) \ {w} = {} /\ Begins(w, r)
    \/ /\ ~Free(h) \/ Waiters(h) \ {w} # {}
       /\ worker' = [worker EXCEPT ![w] = [pc |-> "acquire", request |-> r]]
       /\ UNCHANGED early

(***************************************************************************)
(* _worker: take an item; end on Stop, drop a cancelled request, sleep if  *)
(* the host is backing off, else go on to the semaphore.                   *)
(***************************************************************************)
Take(w) ==
    LET item == Head(queue) IN
    /\ worker[w].pc = "get"
    /\ queue # <<>>
    /\ queue' = Tail(queue)
    /\ \/ /\ item = Stop
          /\ worker' = [worker EXCEPT ![w] = [pc |-> "ended"]]
          /\ UNCHANGED early
       \/ /\ item # Stop
          /\ \/ future[item] = "cancelled" /\ UNCHANGED <<worker, early>>
             \/ /\ future[item] # "cancelled" /\ backoff[HostOf[item]] > 0
                /\ worker' = [worker EXCEPT ![w] =
                     [pc |-> "sleep", request |-> item, left |-> backoff[HostOf[item]]]]
                /\ UNCHANGED early
             \/ /\ future[item] # "cancelled" /\ backoff[HostOf[item]] = 0
                /\ Enters(w, item)
    /\ UNCHANGED <<future, attempt, delayed, backoff, closed>>

\* The deadline read before the sleep is not read again after it.
Wake(w) ==
    /\ worker[w].pc = "sleep"
    /\ worker[w].left = 0
    /\ Enters(w, worker[w].request)
    /\ UNCHANGED <<queue, future, attempt, delayed, backoff, closed>>

\* The semaphore is handed to a task that waits for it.
AcquireSemaphore(w) ==
    /\ worker[w].pc = "acquire"
    /\ Free(HostOf[worker[w].request])
    /\ Begins(w, worker[w].request)
    /\ UNCHANGED <<queue, future, attempt, delayed, backoff, closed>>

\* _try_set_future_result, _try_set_future_exception.
TrySet(r, outcome) ==
    future' = IF future[r] = "waiting" THEN [future EXCEPT ![r] = outcome] ELSE future

AfterCall(w, h) == [worker EXCEPT ![w] = Get]

Finish(w, outcome) ==
    /\ worker[w].pc = "call"
    /\ TrySet(worker[w].request, outcome)
    /\ worker' = AfterCall(w, HostOf[worker[w].request])
    /\ UNCHANGED <<queue, attempt, delayed, backoff, closed, early>>

RequeueLater(r, d) == delayed' = [delayed EXCEPT ![r] = d] /\ UNCHANGED queue

(***************************************************************************)
(* A rate-limited answer: the host's deadline is overwritten, even by an   *)
(* earlier one, and a task is started that will put the request back.      *)
(***************************************************************************)
Limited(w, d) ==
    LET r == worker[w].request IN
    /\ worker[w].pc = "call"
    /\ attempt[r] < MaxLimited
    /\ attempt' = [attempt EXCEPT ![r] = @ + 1]
    /\ backoff' = [backoff EXCEPT ![HostOf[r]] = d]
    /\ RequeueLater(r, d)
    /\ worker' = AfterCall(w, HostOf[r])
    /\ UNCHANGED <<future, closed, early>>

\* _requeue_after_delay; nothing looks at closed.
Requeue(r) ==
    /\ delayed[r] = 0
    /\ delayed' = [delayed EXCEPT ![r] = None]
    /\ queue' = IF future[r] = "cancelled" THEN queue ELSE Append(queue, r)
    /\ UNCHANGED <<future, attempt, worker, backoff, closed, early>>

Less(n) == IF n \in {0, None} THEN n ELSE n - 1

Tick ==
    /\ \/ \E h \in Hosts : backoff[h] > 0
       \/ \E r \in Requests : delayed[r] \notin {0, None}
       \/ \E w \in Workers : worker[w].pc = "sleep" /\ worker[w].left > 0
    /\ backoff' = [h \in Hosts |-> Less(backoff[h])]
    /\ delayed' = [r \in Requests |-> Less(delayed[r])]
    /\ worker' = [w \in Workers |->
         IF worker[w].pc = "sleep" THEN [worker[w] EXCEPT !.left = Less(@)] ELSE worker[w]]
    /\ UNCHANGED <<queue, future, attempt, closed, early>>
-----------------------------------------------------------------------------
Answer(w) ==
    \/ \E outcome \in {"result", "error"} : Finish(w, outcome)
    \/ \E d \in 0..MaxDelay : Limited(w, d)

WorkerStep(w) == Take(w) \/ Wake(w) \/ AcquireSemaphore(w) \/ Answer(w)

Next ==
    \/ Start \/ Close \/ Tick
    \/ \E r \in Requests : Enqueue(r) \/ Cancel(r) \/ Requeue(r)
    \/ \E w \in Workers : WorkerStep(w)

Spec == Init /\ [][Next]_vars

(***************************************************************************)
(* The event loop runs every ready task, time passes, calls return, and    *)
(* start() is called.  A host does not limit one request for ever: that is *)
(* MaxLimited.                                                             *)
(***************************************************************************)
Fairness ==
    /\ WF_vars(Start) /\ WF_vars(Tick)
    /\ \A w \in Workers : WF_vars(WorkerStep(w)) /\ SF_vars(AcquireSemaphore(w))
    /\ \A r \in Requests : WF_vars(Requeue(r))

FairSpec == Spec /\ Fairness
-----------------------------------------------------------------------------
TypeOK ==
    /\ queue \in Seq(Requests \cup {Stop})
    /\ future \in [Requests -> {"none", "waiting"} \cup Settled]
    /\ attempt \in [Requests -> 0..MaxLimited]
    /\ worker \in [Workers -> WorkerState]
    /\ delayed \in [Requests -> 0..MaxDelay \cup {None}]
    /\ backoff \in [Hosts -> 0..MaxDelay]
    /\ closed \in BOOLEAN
    /\ early \subseteq Requests

Copies(r) ==
    Cardinality({i \in DOMAIN queue : queue[i] = r})
      + Cardinality({w \in Workers : worker[w].pc \in {"sleep", "acquire", "call"}
                                     /\ worker[w].request = r})
      + (IF delayed[r] = None THEN 0 ELSE 1)

(***************************************************************************)
(* A request that is waited for is in exactly one place: the queue, the    *)
(* hands of one worker, or the care of a delay task.  No interleaving of   *)
(* backoff, cancellation and close loses it or makes its call twice.       *)
(***************************************************************************)
InOnePlace ==
    \A r \in Requests :
        /\ Copies(r) <= 1
        /\ future[r] = "waiting" => Copies(r) = 1

(***************************************************************************)
(* The class promises to enforce "rate limit backoff" (line 64): no call   *)
(* is made to a host before the deadline that its last rate-limited answer *)
(* set.                                                                    *)
(***************************************************************************)
BackoffRespected == early = {}

(***************************************************************************)
(* Unless the queue is closed, whoever awaits enqueue() gets an answer     *)
(* some day, whatever the order of backoffs and of the semaphore.          *)
(***************************************************************************)
EnqueuedIsSettled ==
    \A r \in Requests : future[r] = "waiting" ~> (closed \/ future[r] \in Settled)

(***************************************************************************)
(* close() of a started queue returns: every worker finds a Stop, also     *)
(* when delay tasks put requests behind or between them.                   *)
(***************************************************************************)
CloseReturns ==
    \A w \in Workers :
        closed /\ worker[w].pc # "off" /\ Stop \in {queue[i] : i \in DOMAIN queue}
            ~> worker[w].pc = "ended"
=============================================================================
