---------------------- MODULE HostRequestQueue_proofs -----------------------
(***************************************************************************)
(* Safety of HostRequestQueue for any number of requests, hosts, workers   *)
(* per host, attempts and units of delay.                                  *)
(***************************************************************************)
EXTENDS HostRequestQueue, FiniteSetTheorems, TLAPS

In(q, x) == \E i \in 1..Len(q) : q[i] = x

NoneTwice(q) == \A i, j \in 1..Len(q) : q[i] = q[j] => i = j

(***************************************************************************)
(* The three places a request can be in.  A worker that died holds its     *)
(* request for ever.                                                       *)
(***************************************************************************)
Queued(r) == In(queue[HostOf[r]], r)

Busy(h, w) == worker[h][w].pc \in {"sleep", "call", "dead"}

Holds(w, r) == Busy(HostOf[r], w) /\ worker[HostOf[r]][w].request = r

Sleeps(w, r) == Holds(w, r) /\ worker[HostOf[r]][w].pc = "sleep"

Held(r) == \E w \in Slots : Holds(w, r)

Delayed(r) == delayed[r] # None

\* The queue and the workers of a host have requests of that host only.
Home ==
    /\ \A h \in Hosts : NoneTwice(queue[h])
    /\ \A h \in Hosts, x \in Requests : In(queue[h], x) => HostOf[x] = h
    /\ \A h \in Hosts, w \in Slots : Busy(h, w) => HostOf[worker[h][w].request] = h

OneHolder(r) == \A w, v \in Slots : Holds(w, r) /\ Holds(v, r) => w = v

(***************************************************************************)
(* A request is in one of its places at most; in none before it is         *)
(* enqueued, and in one as long as it is waited for and the queue is open. *)
(***************************************************************************)
Placed(r) ==
    /\ Queued(r) => ~Held(r) /\ ~Delayed(r)
    /\ Held(r) => ~Delayed(r)
    /\ future[r] = "none" => ~Queued(r) /\ ~Held(r) /\ ~Delayed(r)
    /\ future[r] = "waiting" /\ ~closed => Queued(r) \/ Held(r) \/ Delayed(r)

\* What has still to be called has an attempt left.
Spare(r) ==
    /\ Queued(r) \/ Delayed(r) => attempt[r] < MaxAttempts
    /\ \A w \in Slots : Sleeps(w, r) => attempt[r] < MaxAttempts
    /\ future[r] = "none" => attempt[r] = 0

\* start of a host's workers is all or nothing.
Together ==
    \A h \in Hosts : h \in Opened \/ \A w \in Slots : worker[h][w].pc = "off"

\* close() has done with a host only when its workers have ended.
DealtWith(h) == closer.pc = "returned" \/ (closer.pc = "closing" /\ h \notin closer.todo)

Stopped ==
    \A h \in Opened : DealtWith(h) => \A w \in Slots : worker[h][w].pc = "ended"

\* The only worker of a host does not wake before the host's deadline.
Punctual ==
    Cardinality(Slots) = 1 =>
        /\ early = {}
        /\ \A h \in Hosts, w \in Slots :
             worker[h][w].pc = "sleep" => deadline[h] <= worker[h][w].left

Tidy ==
    /\ TypeOK
    /\ Home
    /\ \A r \in Requests : OneHolder(r) /\ Placed(r) /\ Spare(r)

IInv == Tidy /\ Together /\ Stopped /\ Punctual
-----------------------------------------------------------------------------
(***************************************************************************)
(* The operations on a queue.                                              *)
(***************************************************************************)
LEMMA Appending ==
  ASSUME NEW q \in Seq(Requests), NEW r \in Requests, NoneTwice(q), ~In(q, r)
  PROVE  /\ Append(q, r) \in Seq(Requests)
         /\ NoneTwice(Append(q, r))
         /\ \A x \in Requests : In(Append(q, r), x) <=> In(q, x) \/ x = r
<1> DEFINE a == Append(q, r)
<1>1. /\ a \in Seq(Requests) /\ Len(q) \in Nat /\ Len(a) = Len(q) + 1
      /\ a[Len(q) + 1] = r
      /\ \A i \in 1..Len(q) : a[i] = q[i] /\ a[i] # r
  BY DEF In
<1> HIDE DEF a
<1>2. NoneTwice(a)
  <2> SUFFICES ASSUME NEW i \in 1..Len(a), NEW j \in 1..Len(a), a[i] = a[j]
               PROVE  i = j
    BY DEF NoneTwice
  <2>1. CASE i \in 1..Len(q) /\ j \in 1..Len(q)
    BY <1>1, <2>1 DEF NoneTwice
  <2>2. CASE i = Len(q) + 1 \/ j = Len(q) + 1
    BY <1>1, <2>2
  <2> QED
    BY <1>1, <2>1, <2>2
<1>3. \A x \in Requests : In(a, x) <=> In(q, x) \/ x = r
  BY <1>1 DEF In
<1> QED
  BY <1>1, <1>2, <1>3 DEF a

LEMMA Taking ==
  ASSUME NEW q \in Seq(Requests), q # <<>>, NoneTwice(q)
  PROVE  /\ Head(q) \in Requests
         /\ Tail(q) \in Seq(Requests)
         /\ NoneTwice(Tail(q))
         /\ In(q, Head(q))
         /\ \A x \in Requests : In(Tail(q), x) <=> In(q, x) /\ x # Head(q)
<1> DEFINE t == Tail(q)
<1>1. /\ t \in Seq(Requests) /\ Len(q) \in Nat /\ Len(q) > 0 /\ Len(t) = Len(q) - 1
      /\ Head(q) = q[1] /\ Head(q) \in Requests
      /\ \A i \in 1..Len(t) : t[i] = q[i + 1]
  OBVIOUS
<1> HIDE DEF t
<1>2. NoneTwice(t)
  <2> SUFFICES ASSUME NEW i \in 1..Len(t), NEW j \in 1..Len(t), t[i] = t[j]
               PROVE  i = j
    BY DEF NoneTwice
  <2>1. i + 1 \in 1..Len(q) /\ j + 1 \in 1..Len(q) /\ q[i + 1] = q[j + 1]
    BY <1>1
  <2>2. i + 1 = j + 1
    BY <2>1 DEF NoneTwice
  <2> QED
    BY <1>1, <2>2
<1>3. ASSUME NEW x \in Requests, In(t, x)
      PROVE  In(q, x) /\ x # Head(q)
  <2>1. PICK i \in 1..Len(t) : t[i] = x
    BY <1>3 DEF In
  <2>2. i + 1 \in 1..Len(q) /\ q[i + 1] = x /\ 1 \in 1..Len(q) /\ i + 1 # 1
    BY <1>1, <2>1
  <2>3. q[1] # x
    BY <2>2 DEF NoneTwice
  <2> QED
    BY <1>1, <2>2, <2>3 DEF In
<1>4. ASSUME NEW x \in Requests, In(q, x), x # Head(q)
      PROVE  In(t, x)
  <2>1. PICK i \in 1..Len(q) : q[i] = x
    BY <1>4 DEF In
  <2>2. i - 1 \in 1..Len(t) /\ t[i - 1] = x
    BY <1>1, <1>4, <2>1
  <2> QED
    BY <2>2 DEF In
<1>5. In(q, Head(q))
  BY <1>1 DEF In
<1> QED
  BY <1>1, <1>2, <1>3, <1>4, <1>5 DEF t

\* A request comes to the queue of its host.
LEMMA QueueGrows ==
  ASSUME Tidy, NEW r \in Requests, ~Queued(r),
         queue' = [queue EXCEPT ![HostOf[r]] = Append(@, r)]
  PROVE  /\ queue' \in [Hosts -> Seq(Requests)]
         /\ \A h \in Hosts : NoneTwice(queue'[h])
         /\ \A h \in Hosts, x \in Requests : In(queue'[h], x) => HostOf[x] = h
         /\ \A x \in Requests : Queued(x)' <=> Queued(x) \/ x = r
<1> DEFINE g == HostOf[r]
<1>1. /\ queue \in [Hosts -> Seq(Requests)] /\ g \in Hosts
      /\ queue[g] \in Seq(Requests) /\ NoneTwice(queue[g]) /\ ~In(queue[g], r)
  BY HostQueueConstants DEF Tidy, TypeOK, Home, Queued
<1>2. /\ Append(queue[g], r) \in Seq(Requests) /\ NoneTwice(Append(queue[g], r))
      /\ \A x \in Requests : In(Append(queue[g], r), x) <=> In(queue[g], x) \/ x = r
  BY <1>1, Appending
<1> HIDE DEF g
<1>3. /\ queue'[g] = Append(queue[g], r)
      /\ \A h \in Hosts : h # g => queue'[h] = queue[h]
      /\ queue' \in [Hosts -> Seq(Requests)]
  BY <1>1, <1>2 DEF g
<1>4. \A h \in Hosts : NoneTwice(queue'[h])
  BY <1>2, <1>3 DEF Tidy, Home
<1>5. \A h \in Hosts, x \in Requests :
        In(queue'[h], x) <=> In(queue[h], x) \/ (h = g /\ x = r)
  BY <1>2, <1>3
<1> QED
  BY <1>3, <1>4, <1>5, HostQueueConstants DEF Tidy, Home, Queued, g

\* The first request of a host's queue is taken.
LEMMA QueueShrinks ==
  ASSUME Tidy, NEW h \in Hosts, queue[h] # <<>>,
         queue' = [queue EXCEPT ![h] = Tail(@)]
  PROVE  /\ Head(queue[h]) \in Requests /\ HostOf[Head(queue[h])] = h
         /\ Queued(Head(queue[h]))
         /\ queue' \in [Hosts -> Seq(Requests)]
         /\ \A g \in Hosts : NoneTwice(queue'[g])
         /\ \A g \in Hosts, x \in Requests : In(queue'[g], x) => HostOf[x] = g
         /\ \A x \in Requests : Queued(x)' <=> Queued(x) /\ x # Head(queue[h])
<1> DEFINE r == Head(queue[h])
<1>1. /\ queue \in [Hosts -> Seq(Requests)]
      /\ queue[h] \in Seq(Requests) /\ NoneTwice(queue[h])
  BY DEF Tidy, TypeOK, Home
<1>2. /\ r \in Requests /\ Tail(queue[h]) \in Seq(Requests) /\ NoneTwice(Tail(queue[h]))
      /\ In(queue[h], r)
      /\ \A x \in Requests : In(Tail(queue[h]), x) <=> In(queue[h], x) /\ x # r
  BY <1>1, Taking
<1> HIDE DEF r
<1>3. HostOf[r] = h /\ Queued(r)
  BY <1>2 DEF Tidy, Home, Queued
<1>4. /\ queue'[h] = Tail(queue[h])
      /\ \A g \in Hosts : g # h => queue'[g] = queue[g]
      /\ queue' \in [Hosts -> Seq(Requests)]
  BY <1>1, <1>2
<1>5. \A g \in Hosts : NoneTwice(queue'[g])
  BY <1>2, <1>4 DEF Tidy, Home
<1>6. \A g \in Hosts, x \in Requests :
        In(queue'[g], x) <=> In(queue[g], x) /\ ~(g = h /\ x = r)
  BY <1>2, <1>4
<1> QED
  BY <1>2, <1>3, <1>4, <1>5, <1>6, HostQueueConstants DEF Tidy, Home, Queued, r
-----------------------------------------------------------------------------
LEMMA Ticking ==
  ASSUME NEW n \in 0..MaxDelay \cup {None}
  PROVE  /\ Less(n) \in 0..MaxDelay \cup {None}
         /\ n \in 0..MaxDelay => Less(n) \in 0..MaxDelay
         /\ Less(n) = None <=> n = None
  BY HostQueueConstants DEF Less

LEMMA Occupied ==
  ASSUME Tidy, NEW h \in Hosts, NEW w \in Slots, Busy(h, w)
  PROVE  /\ worker[h][w].request \in Requests
         /\ HostOf[worker[h][w].request] = h
         /\ Holds(w, worker[h][w].request)
         /\ \A x \in Requests : HostOf[x] = h => (Holds(w, x) <=> x = worker[h][w].request)
<1>1. worker[h][w] \in WorkerState
  BY DEF Tidy, TypeOK
<1>2. worker[h][w].request \in Requests
  BY <1>1 DEF Busy, WorkerState
<1>3. HostOf[worker[h][w].request] = h
  BY DEF Tidy, Home
<1> QED
  BY <1>2, <1>3 DEF Holds

(***************************************************************************)
(* One worker goes on to state s; what it then holds is all that changes.  *)
(***************************************************************************)
LEMMA WorkerMoves ==
  ASSUME TypeOK, NEW h \in Hosts, NEW w \in Slots, NEW s \in WorkerState, Goes(h, w, s)
  PROVE  /\ worker' \in [Hosts -> [Slots -> WorkerState]]
         /\ worker'[h][w] = s
         /\ \A g \in Hosts, v \in Slots : g # h \/ v # w => worker'[g][v] = worker[g][v]
  BY DEF TypeOK, Goes

LEMMA HoldsMove ==
  ASSUME TypeOK, NEW h \in Hosts, NEW w \in Slots, NEW s \in WorkerState, Goes(h, w, s)
  PROVE  /\ \A v \in Slots, x \in Requests :
              v # w \/ HostOf[x] # h => (Holds(v, x)' <=> Holds(v, x))
         /\ \A x \in Requests : HostOf[x] = h =>
              (Holds(w, x)' <=> s.pc \in {"sleep", "call", "dead"} /\ s.request = x)
  BY WorkerMoves, HostQueueConstants DEF Holds, Busy

LEMMA SleepsMove ==
  ASSUME TypeOK, NEW h \in Hosts, NEW w \in Slots, NEW s \in WorkerState, Goes(h, w, s)
  PROVE  \A v \in Slots, x \in Requests :
           Sleeps(v, x)' => \/ Sleeps(v, x) /\ (v # w \/ HostOf[x] # h)
                            \/ v = w /\ HostOf[x] = h /\ s.pc = "sleep" /\ s.request = x
  BY WorkerMoves, HostQueueConstants DEF Sleeps, Holds, Busy

\* An idle worker takes a request that nobody holds.
LEMMA TakesUp ==
  ASSUME Tidy, NEW h \in Hosts, NEW w \in Slots, ~Busy(h, w),
         NEW r \in Requests, HostOf[r] = h, ~Held(r),
         NEW s \in WorkerState, s.pc \in {"sleep", "call"}, s.request = r, Goes(h, w, s)
  PROVE  /\ \A x \in Requests : OneHolder(x)' /\ (Held(x)' <=> Held(x) \/ x = r)
         /\ \A g \in Hosts, v \in Slots : Busy(g, v)' => HostOf[worker'[g][v].request] = g
<1>1. TypeOK /\ \A x \in Requests : OneHolder(x) /\ (HostOf[x] = h => ~Holds(w, x))
  BY DEF Tidy, Holds
<1>2. /\ \A v \in Slots, x \in Requests :
           v # w \/ HostOf[x] # h => (Holds(v, x)' <=> Holds(v, x))
      /\ \A x \in Requests : HostOf[x] = h => (Holds(w, x)' <=> x = r)
  BY <1>1, HoldsMove
<1>3. /\ worker'[h][w] = s
      /\ \A g \in Hosts, v \in Slots : g # h \/ v # w => worker'[g][v] = worker[g][v]
  BY <1>1, WorkerMoves
<1> QED
  BY <1>1, <1>2, <1>3 DEF OneHolder, Held, Tidy, Home, Busy

\* A worker lets go of what it held.
LEMMA LetsGo ==
  ASSUME Tidy, NEW h \in Hosts, NEW w \in Slots, Busy(h, w),
         NEW s \in WorkerState, s.pc \in {"get", "ended"}, Goes(h, w, s)
  PROVE  /\ \A x \in Requests :
              OneHolder(x)' /\ (Held(x)' <=> Held(x) /\ x # worker[h][w].request)
         /\ \A g \in Hosts, v \in Slots : Busy(g, v)' => HostOf[worker'[g][v].request] = g
<1> DEFINE r == worker[h][w].request
<1>1. /\ TypeOK /\ \A x \in Requests : OneHolder(x)
      /\ r \in Requests /\ HostOf[r] = h
      /\ \A x \in Requests : HostOf[x] = h => (Holds(w, x) <=> x = r)
  BY Occupied DEF Tidy
<1>2. /\ \A v \in Slots, x \in Requests :
           v # w \/ HostOf[x] # h => (Holds(v, x)' <=> Holds(v, x))
      /\ \A x \in Requests : HostOf[x] = h => ~Holds(w, x)'
  BY <1>1, HoldsMove
<1>3. /\ worker'[h][w] = s
      /\ \A g \in Hosts, v \in Slots : g # h \/ v # w => worker'[g][v] = worker[g][v]
  BY <1>1, WorkerMoves
<1> HIDE DEF r
<1>4. \A x \in Requests : OneHolder(x)' /\ (Held(x)' <=> Held(x) /\ x # r)
  BY <1>1, <1>2 DEF OneHolder, Held
<1> QED
  BY <1>3, <1>4 DEF Tidy, Home, Busy, r

\* A worker goes on with the request that it has.
LEMMA HoldsOn ==
  ASSUME Tidy, NEW h \in Hosts, NEW w \in Slots, Busy(h, w),
         NEW s \in WorkerState, s.pc \in {"call", "dead"}, s.request = worker[h][w].request,
         Goes(h, w, s)
  PROVE  /\ \A x \in Requests : OneHolder(x)' /\ (Held(x)' <=> Held(x))
         /\ \A g \in Hosts, v \in Slots : Busy(g, v)' => HostOf[worker'[g][v].request] = g
<1> DEFINE r == worker[h][w].request
<1>1. /\ TypeOK /\ \A x \in Requests : OneHolder(x)
      /\ r \in Requests /\ HostOf[r] = h
      /\ \A x \in Requests : HostOf[x] = h => (Holds(w, x) <=> x = r)
  BY Occupied DEF Tidy
<1>2. /\ \A v \in Slots, x \in Requests :
           v # w \/ HostOf[x] # h => (Holds(v, x)' <=> Holds(v, x))
      /\ \A x \in Requests : HostOf[x] = h => (Holds(w, x)' <=> x = r)
  BY <1>1, HoldsMove
<1>3. /\ worker'[h][w] = s
      /\ \A g \in Hosts, v \in Slots : g # h \/ v # w => worker'[g][v] = worker[g][v]
  BY <1>1, WorkerMoves
<1> HIDE DEF r
<1>4. \A v \in Slots, x \in Requests : Holds(v, x)' <=> Holds(v, x)
  BY <1>1, <1>2
<1>5. \A x \in Requests : OneHolder(x)' /\ (Held(x)' <=> Held(x))
  BY <1>1, <1>4 DEF OneHolder, Held
<1>6. HostOf[s.request] = h
  BY <1>1 DEF r
<1> QED
  BY <1>3, <1>5, <1>6 DEF Tidy, Home, Busy

\* The attempt that a request still has is used.
LEMMA Spending ==
  ASSUME TypeOK, NEW r \in Requests, attempt[r] < MaxAttempts,
         attempt' = [attempt EXCEPT ![r] = @ + 1]
  PROVE  /\ attempt' \in [Requests -> 0..MaxAttempts]
         /\ \A x \in Requests : x # r => attempt'[x] = attempt[x]
  BY HostQueueConstants DEF TypeOK
-----------------------------------------------------------------------------
(***************************************************************************)
(* The handlers, one by one: each keeps every request in its place.        *)
(***************************************************************************)
LEMMA EnqueueStep == \A r \in Requests : Tidy /\ Together /\ Enqueue(r) => Tidy'
<1> SUFFICES ASSUME NEW r \in Requests, Tidy, Together, Enqueue(r) PROVE Tidy'
  OBVIOUS
<1> DEFINE h == HostOf[r]
<1>1. /\ TypeOK /\ h \in Hosts /\ future[r] = "none" /\ ~Queued(r) /\ ~Held(r)
      /\ ~Delayed(r) /\ attempt[r] = 0
      /\ queue' = [queue EXCEPT ![h] = Append(@, r)]
      /\ UNCHANGED <<attempt, delayed, deadline, closer, early>>
  BY HostQueueConstants DEF Tidy, Placed, Spare, Enqueue
<1>2. /\ queue' \in [Hosts -> Seq(Requests)]
      /\ \A g \in Hosts : NoneTwice(queue'[g])
      /\ \A g \in Hosts, x \in Requests : In(queue'[g], x) => HostOf[x] = g
      /\ \A x \in Requests : Queued(x)' <=> Queued(x) \/ x = r
  BY <1>1, QueueGrows
<1>3. /\ \A x \in Requests : future'[x] = IF x = r THEN "waiting" ELSE future[x]
      /\ future' \in [Requests -> {"none", "waiting"} \cup Settled]
  BY <1>1 DEF Enqueue, TypeOK
<1>4. /\ worker' \in [Hosts -> [Slots -> WorkerState]]
      /\ \A g \in Hosts, w \in Slots :
           \/ worker'[g][w] = worker[g][w]
           \/ worker[g][w].pc = "off" /\ worker'[g][w] = [pc |-> "get"]
  <2>1. CASE h \in Opened
    BY <1>1, <2>1 DEF Enqueue, TypeOK
  <2>2. CASE h \notin Opened
    <3>1. \A w \in Slots : worker[h][w].pc = "off"
      BY <1>1, <2>2 DEF Together
    <3>2. worker' = [worker EXCEPT ![h] = [w \in Slots |-> [pc |-> "get"]]]
      BY <2>2 DEF Enqueue
    <3>3. [pc |-> "get"] \in WorkerState
      BY DEF WorkerState
    <3> QED
      BY <1>1, <3>1, <3>2, <3>3 DEF TypeOK
  <2> QED
    BY <2>1, <2>2
<1> HIDE DEF h
<1>5. TypeOK'
  BY <1>1, <1>2, <1>3, <1>4 DEF TypeOK
<1>6. \A g \in Hosts, w \in Slots :
        /\ Busy(g, w)' <=> Busy(g, w)
        /\ Busy(g, w) => worker'[g][w] = worker[g][w]
  BY <1>4 DEF Busy
<1>7. Home'
  BY <1>2, <1>6 DEF Home, Tidy
<1>8. ASSUME NEW x \in Requests
      PROVE  OneHolder(x)' /\ Placed(x)' /\ Spare(x)'
  <2>1. OneHolder(x) /\ Placed(x) /\ Spare(x) /\ HostOf[x] \in Hosts
    BY HostQueueConstants DEF Tidy
  <2>2. \A w \in Slots : (Holds(w, x)' <=> Holds(w, x)) /\ (Sleeps(w, x)' <=> Sleeps(w, x))
    BY <1>6, <2>1 DEF Holds, Sleeps
  <2>3. OneHolder(x)' /\ (Held(x)' <=> Held(x))
    BY <2>1, <2>2 DEF OneHolder, Held
  <2>4. (Delayed(x)' <=> Delayed(x)) /\ attempt'[x] = attempt[x] /\ (closed' <=> closed)
    BY <1>1 DEF Delayed, closed
  <2>5. Placed(x)'
    BY <1>1, <1>2, <1>3, <2>1, <2>3, <2>4 DEF Placed
  <2>6. Spare(x)'
    BY <1>1, <1>2, <1>3, <2>1, <2>2, <2>4, HostQueueConstants DEF Spare
  <2> QED
    BY <2>3, <2>5, <2>6
<1> QED
  BY <1>5, <1>7, <1>8 DEF Tidy

LEMMA CancelStep == \A r \in Requests : Tidy /\ Cancel(r) => Tidy'
<1> SUFFICES ASSUME NEW r \in Requests, Tidy, Cancel(r) PROVE Tidy'
  OBVIOUS
<1>1. TypeOK /\ UNCHANGED <<queue, attempt, worker, delayed, deadline, closer, early>>
  BY DEF Tidy, Cancel
<1>2. /\ \A x \in Requests : future'[x] = IF x = r THEN "cancelled" ELSE future[x]
      /\ future' \in [Requests -> {"none", "waiting"} \cup Settled]
  BY <1>1 DEF Cancel, TypeOK, Settled
<1>3. TypeOK'
  BY <1>1, <1>2 DEF TypeOK
<1>4. Home'
  BY <1>1 DEF Tidy, Home, Busy
<1>5. ASSUME NEW x \in Requests
      PROVE  OneHolder(x)' /\ Placed(x)' /\ Spare(x)'
  <2>1. OneHolder(x) /\ Placed(x) /\ Spare(x)
    BY DEF Tidy
  <2>2. /\ \A w \in Slots : (Holds(w, x)' <=> Holds(w, x)) /\ (Sleeps(w, x)' <=> Sleeps(w, x))
        /\ (Queued(x)' <=> Queued(x)) /\ (Delayed(x)' <=> Delayed(x))
        /\ (closed' <=> closed) /\ attempt' = attempt
    BY <1>1 DEF Holds, Sleeps, Busy, Queued, Delayed, closed
  <2>3. OneHolder(x)' /\ (Held(x)' <=> Held(x))
    BY <2>1, <2>2 DEF OneHolder, Held
  <2>4. Placed(x)' /\ Spare(x)'
    BY <1>2, <2>1, <2>2, <2>3 DEF Placed, Spare
  <2> QED
    BY <2>3, <2>4
<1> QED
  BY <1>3, <1>4, <1>5 DEF Tidy

(***************************************************************************)
(* A worker that is idle takes r to wait for the host's deadline (s is a   *)
(* sleep) or to call it at once.                                           *)
(***************************************************************************)
LEMMA TakeStep == \A h \in Hosts, w \in Slots : Tidy /\ Take(h, w) => Tidy'
<1> SUFFICES ASSUME NEW h \in Hosts, NEW w \in Slots, Tidy, Take(h, w) PROVE Tidy'
  OBVIOUS
<1> DEFINE r == Head(queue[h])
<1>1. /\ TypeOK /\ worker[h][w].pc = "get" /\ queue[h] # <<>>
      /\ queue' = [queue EXCEPT ![h] = Tail(@)]
      /\ UNCHANGED <<future, delayed, deadline, closer>>
  BY DEF Tidy, Take
<1>2. /\ r \in Requests /\ HostOf[r] = h /\ Queued(r)
      /\ queue' \in [Hosts -> Seq(Requests)]
      /\ \A g \in Hosts : NoneTwice(queue'[g])
      /\ \A g \in Hosts, x \in Requests : In(queue'[g], x) => HostOf[x] = g
      /\ \A x \in Requests : Queued(x)' <=> Queued(x) /\ x # r
  BY <1>1, QueueShrinks
<1>3. /\ \/ /\ Goes(h, w, [pc |-> "sleep", request |-> r, left |-> deadline[h]])
            /\ UNCHANGED <<attempt, early>>
         \/ Calls(h, w, r)
  BY DEF Take
<1> HIDE DEF r
<1>4. ~Busy(h, w) /\ ~Held(r) /\ ~Delayed(r) /\ attempt[r] < MaxAttempts /\ future[r] # "none"
  BY <1>1, <1>2 DEF Busy, Tidy, Placed, Spare
<1>5. /\ attempt' \in [Requests -> 0..MaxAttempts]
      /\ \A x \in Requests : x # r => attempt'[x] = attempt[x]
  BY <1>1, <1>2, <1>3, <1>4, Spending DEF Calls, TypeOK
<1>6. PICK s \in WorkerState :
        /\ s.pc \in {"sleep", "call"} /\ s.request = r /\ Goes(h, w, s)
        /\ s.pc = "sleep" => attempt' = attempt
  <2>1. deadline[h] \in 0..MaxDelay
    BY <1>1 DEF TypeOK
  <2>2. /\ [pc |-> "sleep", request |-> r, left |-> deadline[h]] \in WorkerState
        /\ [pc |-> "call", request |-> r] \in WorkerState
    BY <1>2, <2>1 DEF WorkerState
  <2> QED
    BY <1>3, <2>2 DEF Calls
<1>7. early' \subseteq Requests
  BY <1>1, <1>2, <1>3 DEF Calls, TypeOK
<1>8. worker' \in [Hosts -> [Slots -> WorkerState]]
  BY <1>1, <1>6, WorkerMoves
<1>9. TypeOK'
  BY <1>1, <1>2, <1>5, <1>7, <1>8 DEF TypeOK
<1>10. /\ \A x \in Requests : OneHolder(x)' /\ (Held(x)' <=> Held(x) \/ x = r)
       /\ \A g \in Hosts, v \in Slots : Busy(g, v)' => HostOf[worker'[g][v].request] = g
  BY <1>2, <1>4, <1>6, TakesUp
<1>11. Home'
  BY <1>2, <1>10 DEF Home
<1>12. ASSUME NEW x \in Requests PROVE Placed(x)' /\ Spare(x)'
  <2>1. Placed(x) /\ Spare(x)
    BY DEF Tidy
  <2>2. /\ (Delayed(x)' <=> Delayed(x)) /\ (closed' <=> closed) /\ future' = future
    BY <1>1 DEF Delayed, closed
  <2>3. \A v \in Slots : Sleeps(v, x)' => Sleeps(v, x) \/ (x = r /\ s.pc = "sleep")
    BY <1>1, <1>6, SleepsMove
  <2>4. \A v \in Slots : ~Sleeps(v, r)
    BY <1>4 DEF Sleeps, Held
  <2>5. Placed(x)'
    BY <1>2, <1>4, <1>10, <2>1, <2>2 DEF Placed
  <2>6. CASE x = r
    BY <1>2, <1>4, <1>6, <2>2, <2>3, <2>4, <2>5, <2>6 DEF Spare
  <2>7. CASE x # r
    BY <1>2, <1>5, <2>1, <2>2, <2>3, <2>5, <2>7 DEF Spare
  <2> QED
    BY <2>5, <2>6, <2>7
<1> QED
  BY <1>9, <1>10, <1>11, <1>12 DEF Tidy

LEMMA WakeStep == \A h \in Hosts, w \in Slots : Tidy /\ Wake(h, w) => Tidy'
<1> SUFFICES ASSUME NEW h \in Hosts, NEW w \in Slots, Tidy, Wake(h, w) PROVE Tidy'
  OBVIOUS
<1> DEFINE r == worker[h][w].request
           s == [pc |-> "call", request |-> r]
<1>1. /\ TypeOK /\ worker[h][w].pc = "sleep" /\ Busy(h, w) /\ Calls(h, w, r)
      /\ UNCHANGED <<queue, future, delayed, deadline, closer>>
  BY DEF Tidy, Wake, Busy
<1>2. r \in Requests /\ HostOf[r] = h /\ Holds(w, r)
  BY <1>1, Occupied
<1>3. /\ Sleeps(w, r) /\ attempt[r] < MaxAttempts
      /\ ~Queued(r) /\ ~Delayed(r) /\ future[r] # "none"
  BY <1>1, <1>2 DEF Sleeps, Tidy, Spare, Placed, Held
<1>4. s \in WorkerState /\ s.pc = "call" /\ s.request = r /\ Goes(h, w, s)
  BY <1>1, <1>2 DEF WorkerState, Calls
<1>5. /\ \A x \in Requests : OneHolder(x)' /\ (Held(x)' <=> Held(x))
      /\ \A g \in Hosts, v \in Slots : Busy(g, v)' => HostOf[worker'[g][v].request] = g
  BY <1>1, <1>4, HoldsOn
<1>6. /\ attempt' \in [Requests -> 0..MaxAttempts]
      /\ \A x \in Requests : x # r => attempt'[x] = attempt[x]
  BY <1>1, <1>2, <1>3, Spending DEF Calls
<1>7. early' \subseteq Requests
  BY <1>1, <1>2 DEF Calls, TypeOK
<1>8. worker' \in [Hosts -> [Slots -> WorkerState]]
  BY <1>1, <1>4, WorkerMoves
<1>9. \A v \in Slots, x \in Requests :
        Sleeps(v, x)' => Sleeps(v, x) /\ (v # w \/ HostOf[x] # h)
  BY <1>1, <1>4, SleepsMove
<1> HIDE DEF r, s
<1>10. TypeOK'
  BY <1>1, <1>6, <1>7, <1>8 DEF TypeOK
<1>11. Home'
  BY <1>1, <1>5 DEF Home, Tidy
<1>12. ASSUME NEW x \in Requests PROVE Placed(x)' /\ Spare(x)'
  <2>1. OneHolder(x) /\ Placed(x) /\ Spare(x)
    BY DEF Tidy
  <2>2. /\ (Queued(x)' <=> Queued(x)) /\ (Delayed(x)' <=> Delayed(x))
        /\ (closed' <=> closed) /\ future' = future
    BY <1>1 DEF Queued, Delayed, closed
  <2>3. Placed(x)'
    BY <1>5, <2>1, <2>2 DEF Placed
  <2>4. CASE x = r
    <3>1. \A v \in Slots : ~Sleeps(v, x)'
      BY <1>2, <1>9, <2>1, <2>4 DEF Sleeps, OneHolder
    <3> QED
      BY <1>3, <2>2, <2>3, <2>4, <3>1 DEF Spare
  <2>5. CASE x # r
    BY <1>6, <1>9, <2>1, <2>2, <2>3, <2>5 DEF Spare
  <2> QED
    BY <2>3, <2>4, <2>5
<1> QED
  BY <1>5, <1>10, <1>11, <1>12 DEF Tidy
\* The worker's call is over: it lets its request go.
LEMMA CallOver ==
  ASSUME Tidy, NEW h \in Hosts, NEW w \in Slots, worker[h][w].pc = "call", Loop(h, w)
  PROVE  /\ worker[h][w].request \in Requests /\ HostOf[worker[h][w].request] = h
         /\ Held(worker[h][w].request)
         /\ worker' \in [Hosts -> [Slots -> WorkerState]]
         /\ \A x \in Requests :
              OneHolder(x)' /\ (Held(x)' <=> Held(x) /\ x # worker[h][w].request)
         /\ \A g \in Hosts, v \in Slots : Busy(g, v)' => HostOf[worker'[g][v].request] = g
         /\ \A v \in Slots, x \in Requests : Sleeps(v, x)' => Sleeps(v, x)
<1>1. TypeOK /\ Busy(h, w)
  BY DEF Tidy, Busy
<1>2. /\ worker[h][w].request \in Requests /\ HostOf[worker[h][w].request] = h
      /\ Held(worker[h][w].request)
  BY <1>1, Occupied DEF Held
<1>3. PICK s \in WorkerState : s.pc \in {"get", "ended"} /\ Goes(h, w, s)
  <2>1. [pc |-> "get"] \in WorkerState /\ [pc |-> "ended"] \in WorkerState
    BY DEF WorkerState
  <2>2. CASE closed
    BY <2>1, <2>2 DEF Loop
  <2>3. CASE ~closed
    BY <2>1, <2>3 DEF Loop
  <2> QED
    BY <2>2, <2>3
<1>4. worker' \in [Hosts -> [Slots -> WorkerState]]
  BY <1>1, <1>3, WorkerMoves
<1>5. /\ \A x \in Requests :
           OneHolder(x)' /\ (Held(x)' <=> Held(x) /\ x # worker[h][w].request)
      /\ \A g \in Hosts, v \in Slots : Busy(g, v)' => HostOf[worker'[g][v].request] = g
  BY <1>1, <1>3, LetsGo
<1>6. \A v \in Slots, x \in Requests : Sleeps(v, x)' => Sleeps(v, x)
  BY <1>1, <1>3, SleepsMove
<1> QED
  BY <1>2, <1>4, <1>5, <1>6

LEMMA Settling ==
  ASSUME TypeOK, NEW r \in Requests, NEW outcome \in Settled, Settle(r, outcome)
  PROVE  /\ future' \in [Requests -> {"none", "waiting"} \cup Settled]
         /\ \A x \in Requests : x # r => future'[x] = future[x]
         /\ \A x \in Requests : future'[x] = "none" => future[x] = "none"
         /\ future'[r] # "waiting"
  BY DEF TypeOK, Settle, Settled

\* The call is over and the caller has its answer.
LEMMA Answered ==
  ASSUME Tidy, NEW h \in Hosts, NEW w \in Slots, worker[h][w].pc = "call", Loop(h, w),
         NEW outcome \in Settled, Settle(worker[h][w].request, outcome),
         deadline' \in [Hosts -> 0..MaxDelay],
         UNCHANGED <<queue, attempt, delayed, closer, early>>
  PROVE  Tidy'
<1> DEFINE r == worker[h][w].request
<1>1. TypeOK
  BY DEF Tidy
<1>2. /\ r \in Requests /\ HostOf[r] = h /\ Held(r)
      /\ worker' \in [Hosts -> [Slots -> WorkerState]]
      /\ \A x \in Requests : OneHolder(x)' /\ (Held(x)' <=> Held(x) /\ x # r)
      /\ \A g \in Hosts, v \in Slots : Busy(g, v)' => HostOf[worker'[g][v].request] = g
      /\ \A v \in Slots, x \in Requests : Sleeps(v, x)' => Sleeps(v, x)
  BY CallOver
<1>3. /\ future' \in [Requests -> {"none", "waiting"} \cup Settled]
      /\ \A x \in Requests : x # r => future'[x] = future[x]
      /\ \A x \in Requests : future'[x] = "none" => future[x] = "none"
      /\ future'[r] # "waiting"
  BY <1>1, <1>2, Settling
<1> HIDE DEF r
<1>4. TypeOK'
  BY <1>1, <1>2, <1>3 DEF TypeOK
<1>5. Home'
  BY <1>2 DEF Home, Tidy
<1>6. ASSUME NEW x \in Requests PROVE Placed(x)' /\ Spare(x)'
  <2>1. Placed(x) /\ Spare(x)
    BY DEF Tidy
  <2>2. /\ (Queued(x)' <=> Queued(x)) /\ (Delayed(x)' <=> Delayed(x))
        /\ (closed' <=> closed) /\ attempt' = attempt
    BY DEF Queued, Delayed, closed
  <2>3. Placed(x)'
    BY <1>2, <1>3, <2>1, <2>2 DEF Placed
  <2>4. Spare(x)'
    BY <1>2, <1>3, <2>1, <2>2 DEF Spare
  <2> QED
    BY <2>3, <2>4
<1> QED
  BY <1>2, <1>4, <1>5, <1>6 DEF Tidy

LEMMA FinishStep ==
  \A h \in Hosts, w \in Slots : Tidy /\ (Fails(h, w) \/ Succeeds(h, w)) => Tidy'
<1> SUFFICES ASSUME NEW h \in Hosts, NEW w \in Slots, Tidy, Fails(h, w) \/ Succeeds(h, w)
             PROVE  Tidy'
  OBVIOUS
<1>1. deadline' \in [Hosts -> 0..MaxDelay]
  <2>1. deadline \in [Hosts -> 0..MaxDelay] /\ 0 \in 0..MaxDelay
    BY HostQueueConstants DEF Tidy, TypeOK
  <2>2. deadline' = deadline \/ deadline' = [deadline EXCEPT ![h] = 0]
    BY DEF Fails, Succeeds
  <2> QED
    BY <2>1, <2>2
<1>2. \E outcome \in Settled : Settle(worker[h][w].request, outcome)
  BY DEF Fails, Succeeds, Settled
<1> QED
  BY <1>1, <1>2, Answered DEF Fails, Succeeds

LEMMA LimitedStep ==
  \A h \in Hosts, w \in Slots, d \in 1..MaxDelay : Tidy /\ Limited(h, w, d) => Tidy'
<1> SUFFICES ASSUME NEW h \in Hosts, NEW w \in Slots, NEW d \in 1..MaxDelay, Tidy,
                    Limited(h, w, d)
             PROVE  Tidy'
  OBVIOUS
<1> DEFINE r == worker[h][w].request
<1>1. /\ TypeOK /\ worker[h][w].pc = "call" /\ Loop(h, w)
      /\ UNCHANGED <<queue, attempt, closer, early>>
  BY DEF Tidy, Limited, RequeueLater
<1>2. deadline' \in [Hosts -> 0..MaxDelay]
  <2>1. deadline' = [deadline EXCEPT ![h] = IF d > deadline[h] THEN d ELSE deadline[h]]
    BY DEF Limited
  <2>2. (IF d > deadline[h] THEN d ELSE deadline[h]) \in 0..MaxDelay
    BY <1>1, HostQueueConstants DEF TypeOK
  <2> QED
    BY <1>1, <2>1, <2>2 DEF TypeOK
<1>3. CASE GivesUp(r)
  <2>1. Settle(r, "exceeded") /\ UNCHANGED delayed
    BY <1>3 DEF Limited
  <2>2. "exceeded" \in Settled
    BY DEF Settled
  <2> QED
    BY <1>1, <1>2, <2>1, <2>2, Answered
<1>4. CASE ~GivesUp(r)
  <2>1. delayed' = [delayed EXCEPT ![r] = d] /\ UNCHANGED future
    BY <1>4 DEF Limited, RequeueLater
  <2>2. /\ r \in Requests /\ HostOf[r] = h /\ Held(r)
        /\ worker' \in [Hosts -> [Slots -> WorkerState]]
        /\ \A x \in Requests : OneHolder(x)' /\ (Held(x)' <=> Held(x) /\ x # r)
        /\ \A g \in Hosts, v \in Slots : Busy(g, v)' => HostOf[worker'[g][v].request] = g
        /\ \A v \in Slots, x \in Requests : Sleeps(v, x)' => Sleeps(v, x)
    BY <1>1, CallOver
  <2> HIDE DEF r
  <2>3. attempt[r] < MaxAttempts
    BY <1>1, <1>4, <2>2, HostQueueConstants DEF GivesUp, TypeOK
  <2>4. d \in 0..MaxDelay /\ d # None
    BY HostQueueConstants
  <2>5. /\ delayed' \in [Requests -> 0..MaxDelay \cup {None}]
        /\ \A x \in Requests : Delayed(x)' <=> Delayed(x) \/ x = r
    BY <1>1, <2>1, <2>2, <2>4 DEF TypeOK, Delayed
  <2>6. TypeOK'
    BY <1>1, <1>2, <2>1, <2>2, <2>5 DEF TypeOK
  <2>7. Home'
    BY <1>1, <2>2 DEF Home, Tidy
  <2>8. ASSUME NEW x \in Requests PROVE Placed(x)' /\ Spare(x)'
    <3>1. Placed(x) /\ Spare(x)
      BY DEF Tidy
    <3>2. (Queued(x)' <=> Queued(x)) /\ (closed' <=> closed)
          /\ attempt' = attempt /\ future' = future
      BY <1>1, <2>1 DEF Queued, closed
    <3>3. Placed(x)'
      BY <2>2, <2>5, <3>1, <3>2 DEF Placed
    <3>4. Spare(x)'
      BY <2>2, <2>3, <2>5, <3>1, <3>2 DEF Spare
    <3> QED
      BY <3>3, <3>4
  <2> QED
    BY <2>2, <2>6, <2>7, <2>8 DEF Tidy
<1> QED
  BY <1>3, <1>4

LEMMA MalformedStep == \A h \in Hosts, w \in Slots : Tidy /\ Malformed(h, w) => Tidy'
<1> SUFFICES ASSUME NEW h \in Hosts, NEW w \in Slots, Tidy, Malformed(h, w) PROVE Tidy'
  OBVIOUS
<1> DEFINE r == worker[h][w].request
           s == [pc |-> "dead", request |-> r]
<1>1. /\ TypeOK /\ worker[h][w].pc = "call" /\ Busy(h, w) /\ Goes(h, w, s)
      /\ UNCHANGED <<queue, future, attempt, delayed, deadline, closer, early>>
  BY DEF Tidy, Malformed, Busy
<1>2. r \in Requests
  BY <1>1, Occupied
<1>3. s \in WorkerState /\ s.pc = "dead" /\ s.request = r
  BY <1>2 DEF WorkerState
<1>4. /\ \A x \in Requests : OneHolder(x)' /\ (Held(x)' <=> Held(x))
      /\ \A g \in Hosts, v \in Slots : Busy(g, v)' => HostOf[worker'[g][v].request] = g
  BY <1>1, <1>3, HoldsOn
<1>5. worker' \in [Hosts -> [Slots -> WorkerState]]
  BY <1>1, <1>3, WorkerMoves
<1>6. \A v \in Slots, x \in Requests : Sleeps(v, x)' => Sleeps(v, x)
  BY <1>1, <1>3, SleepsMove
<1> HIDE DEF r, s
<1>7. TypeOK'
  BY <1>1, <1>5 DEF TypeOK
<1>8. Home'
  BY <1>1, <1>4 DEF Home, Tidy
<1>9. ASSUME NEW x \in Requests PROVE Placed(x)' /\ Spare(x)'
  <2>1. Placed(x) /\ Spare(x)
    BY DEF Tidy
  <2>2. /\ (Queued(x)' <=> Queued(x)) /\ (Delayed(x)' <=> Delayed(x))
        /\ (closed' <=> closed) /\ future' = future /\ attempt' = attempt
    BY <1>1 DEF Queued, Delayed, closed
  <2> QED
    BY <1>4, <1>6, <2>1, <2>2 DEF Placed, Spare
<1> QED
  BY <1>4, <1>7, <1>8, <1>9 DEF Tidy

LEMMA RequeueStep == \A r \in Requests : Tidy /\ Requeue(r) => Tidy'
<1> SUFFICES ASSUME NEW r \in Requests, Tidy, Requeue(r) PROVE Tidy'
  OBVIOUS
<1>1. /\ TypeOK /\ Delayed(r) /\ ~Queued(r) /\ attempt[r] < MaxAttempts
      /\ delayed' = [delayed EXCEPT ![r] = None]
      /\ UNCHANGED <<future, attempt, worker, deadline, closer, early>>
  BY HostQueueConstants DEF Tidy, Placed, Spare, Requeue, Delayed
<1>2. /\ delayed' \in [Requests -> 0..MaxDelay \cup {None}]
      /\ \A x \in Requests : Delayed(x)' <=> Delayed(x) /\ x # r
  BY <1>1 DEF TypeOK, Delayed
<1>3. /\ queue' \in [Hosts -> Seq(Requests)]
      /\ \A h \in Hosts : NoneTwice(queue'[h])
      /\ \A h \in Hosts, x \in Requests : In(queue'[h], x) => HostOf[x] = h
      /\ \A x \in Requests : Queued(x)' <=> Queued(x) \/ (x = r /\ ~closed)
  <2>1. CASE closed
    <3>1. queue' = queue
      BY <2>1 DEF Requeue
    <3> QED
      BY <2>1, <3>1 DEF Tidy, TypeOK, Home, Queued
  <2>2. CASE ~closed
    <3>1. queue' = [queue EXCEPT ![HostOf[r]] = Append(@, r)]
      BY <2>2 DEF Requeue, PutBack
    <3> QED
      BY <1>1, <2>2, <3>1, QueueGrows
  <2> QED
    BY <2>1, <2>2
<1>4. TypeOK'
  BY <1>1, <1>2, <1>3 DEF TypeOK
<1>5. Home'
  BY <1>1, <1>3 DEF Home, Tidy, Busy
<1>6. ASSUME NEW x \in Requests
      PROVE  OneHolder(x)' /\ Placed(x)' /\ Spare(x)'
  <2>1. OneHolder(x) /\ Placed(x) /\ Spare(x)
    BY DEF Tidy
  <2>2. /\ \A w \in Slots : (Holds(w, x)' <=> Holds(w, x)) /\ (Sleeps(w, x)' <=> Sleeps(w, x))
        /\ (closed' <=> closed) /\ attempt' = attempt /\ future' = future
    BY <1>1 DEF Holds, Sleeps, Busy, closed
  <2>3. OneHolder(x)' /\ (Held(x)' <=> Held(x))
    BY <2>1, <2>2 DEF OneHolder, Held
  <2>4. Placed(x)'
    BY <1>1, <1>2, <1>3, <2>1, <2>2, <2>3 DEF Placed
  <2>5. Spare(x)'
    BY <1>1, <1>2, <1>3, <2>1, <2>2 DEF Spare
  <2> QED
    BY <2>3, <2>4, <2>5
<1> QED
  BY <1>4, <1>5, <1>6 DEF Tidy
-----------------------------------------------------------------------------
LEMMA Cancelling ==
  ASSUME TypeOK, NEW h \in Hosts, worker' = Cancelled(h)
  PROVE  /\ worker' \in [Hosts -> [Slots -> WorkerState]]
         /\ \A g \in Hosts : g # h => worker'[g] = worker[g]
         /\ \A w \in Slots : worker'[h][w] = IF worker[h][w].pc = "dead" THEN worker[h][w]
                                                                     ELSE [pc |-> "ended"]
<1>1. [pc |-> "ended"] \in WorkerState
  BY DEF WorkerState
<1> QED
  BY <1>1 DEF TypeOK, Cancelled

(***************************************************************************)
(* close() cancels workers, so requests that it finds in their hands are   *)
(* let go of: the queue is no longer open, nobody is owed them.            *)
(***************************************************************************)
LEMMA CloseStep == Tidy /\ (Close \/ CloseOn) => Tidy'
<1> SUFFICES ASSUME Tidy, Close \/ CloseOn PROVE Tidy'
  OBVIOUS
<1>1. TypeOK /\ UNCHANGED <<queue, future, attempt, delayed, deadline, early>>
  BY DEF Tidy, Close, CloseOn
<1>2. PICK todo \in SUBSET Hosts : CloseHosts(todo)
  BY <1>1 DEF Close, CloseOn, Opened, TypeOK, CloserState
<1>3. closer' \in CloserState /\ closed'
  BY <1>2 DEF CloseHosts, CloserState, closed
<1>5. /\ worker' \in [Hosts -> [Slots -> WorkerState]]
      /\ \A h \in Hosts, w \in Slots :
           worker'[h][w] = worker[h][w] \/ worker'[h][w] = [pc |-> "ended"]
  <2> DEFINE Goal == /\ worker' \in [Hosts -> [Slots -> WorkerState]]
                     /\ \A h \in Hosts, w \in Slots :
                          \/ worker'[h][w] = worker[h][w]
                          \/ worker'[h][w] = [pc |-> "ended"]
  <2>1. CASE worker' = worker
    BY <1>1, <2>1 DEF TypeOK
  <2>2. ASSUME NEW h \in Hosts, worker' = Cancelled(h)
        PROVE  Goal
    BY <1>1, <2>2, Cancelling
  <2> QED
    BY <1>2, <2>1, <2>2 DEF CloseHosts
<1>6. TypeOK'
  BY <1>1, <1>3, <1>5 DEF TypeOK
<1>7. \A h \in Hosts, w \in Slots : Busy(h, w)' => Busy(h, w) /\ worker'[h][w] = worker[h][w]
  BY <1>5 DEF Busy
<1>8. Home'
  BY <1>1, <1>7 DEF Home, Tidy
<1>9. ASSUME NEW x \in Requests
      PROVE  OneHolder(x)' /\ Placed(x)' /\ Spare(x)'
  <2>1. OneHolder(x) /\ Placed(x) /\ Spare(x) /\ HostOf[x] \in Hosts
    BY HostQueueConstants DEF Tidy
  <2>2. \A w \in Slots : (Holds(w, x)' => Holds(w, x)) /\ (Sleeps(w, x)' => Sleeps(w, x))
    BY <1>7, <2>1 DEF Holds, Sleeps
  <2>3. /\ (Queued(x)' <=> Queued(x)) /\ (Delayed(x)' <=> Delayed(x))
        /\ attempt' = attempt /\ future' = future
    BY <1>1 DEF Queued, Delayed
  <2>4. OneHolder(x)' /\ (Held(x)' => Held(x))
    BY <2>1, <2>2 DEF OneHolder, Held
  <2>5. Placed(x)' /\ Spare(x)'
    BY <1>3, <2>1, <2>2, <2>3, <2>4 DEF Placed, Spare
  <2> QED
    BY <2>4, <2>5
<1> QED
  BY <1>6, <1>8, <1>9 DEF Tidy

\* What a unit of time does to a worker.
LEMMA WorkerTicks ==
  ASSUME TypeOK, Tick, NEW h \in Hosts, NEW w \in Slots
  PROVE  /\ worker'[h][w] \in WorkerState
         /\ worker'[h][w].pc = worker[h][w].pc
         /\ worker[h][w].pc # "sleep" => worker'[h][w] = worker[h][w]
         /\ worker[h][w].pc = "sleep" =>
              /\ worker'[h][w].request = worker[h][w].request
              /\ worker'[h][w].left = Less(worker[h][w].left)
              /\ worker[h][w].left \in 0..MaxDelay
<1>1. worker[h][w] \in WorkerState
  BY DEF TypeOK
<1>2. CASE worker[h][w].pc = "sleep"
  <2>1. worker[h][w].left \in 0..MaxDelay /\ worker[h][w].request \in Requests
    BY <1>1, <1>2 DEF WorkerState
  <2>2. worker'[h][w] = [worker[h][w] EXCEPT !.left = Less(worker[h][w].left)]
    BY <1>2 DEF Tick
  <2>3. worker'[h][w] = [pc |-> "sleep", request |-> worker[h][w].request,
                         left |-> Less(worker[h][w].left)]
    BY <1>1, <1>2, <2>2 DEF WorkerState
  <2>4. Less(worker[h][w].left) \in 0..MaxDelay
    BY <2>1, Ticking
  <2> QED
    BY <1>2, <2>1, <2>3, <2>4 DEF WorkerState
<1>3. CASE worker[h][w].pc # "sleep"
  BY <1>1, <1>3 DEF Tick
<1> QED
  BY <1>2, <1>3

LEMMA TickStep == Tidy /\ Tick => Tidy'
<1> SUFFICES ASSUME Tidy, Tick PROVE Tidy'
  OBVIOUS
<1>1. /\ TypeOK
      /\ deadline' = [h \in Hosts |-> Less(deadline[h])]
      /\ delayed' = [r \in Requests |-> Less(delayed[r])]
      /\ UNCHANGED <<queue, future, attempt, closer, early>>
  BY DEF Tidy, Tick
<1>2. /\ deadline' \in [Hosts -> 0..MaxDelay]
      /\ delayed' \in [Requests -> 0..MaxDelay \cup {None}]
      /\ \A x \in Requests : Delayed(x)' <=> Delayed(x)
  BY <1>1, Ticking DEF TypeOK, Delayed
<1>3. /\ worker' \in [Hosts -> [Slots -> WorkerState]]
      /\ \A h \in Hosts, w \in Slots :
           /\ worker'[h][w].pc = worker[h][w].pc
           /\ Busy(h, w) => worker'[h][w].request = worker[h][w].request
  <2>1. \A h \in Hosts, w \in Slots : worker'[h][w] \in WorkerState
    BY <1>1, WorkerTicks
  <2>2. worker' \in [Hosts -> [Slots -> WorkerState]]
    BY <2>1 DEF Tick
  <2> QED
    BY <1>1, <2>2, WorkerTicks DEF Busy
<1>4. TypeOK'
  BY <1>1, <1>2, <1>3 DEF TypeOK
<1>5. Home'
  BY <1>1, <1>3 DEF Home, Tidy, Busy
<1>6. ASSUME NEW x \in Requests
      PROVE  OneHolder(x)' /\ Placed(x)' /\ Spare(x)'
  <2>1. OneHolder(x) /\ Placed(x) /\ Spare(x) /\ HostOf[x] \in Hosts
    BY HostQueueConstants DEF Tidy
  <2>2. \A w \in Slots : (Holds(w, x)' <=> Holds(w, x)) /\ (Sleeps(w, x)' <=> Sleeps(w, x))
    BY <1>3, <2>1 DEF Holds, Sleeps, Busy
  <2>3. /\ (Queued(x)' <=> Queued(x)) /\ (closed' <=> closed)
        /\ attempt' = attempt /\ future' = future
    BY <1>1 DEF Queued, closed
  <2>4. OneHolder(x)' /\ (Held(x)' <=> Held(x))
    BY <2>1, <2>2 DEF OneHolder, Held
  <2>5. Placed(x)' /\ Spare(x)'
    BY <1>2, <2>1, <2>2, <2>3, <2>4 DEF Placed, Spare
  <2> QED
    BY <2>4, <2>5
<1> QED
  BY <1>4, <1>5, <1>6 DEF Tidy
-----------------------------------------------------------------------------
LEMMA TidyStep == Tidy /\ Together /\ [Next]_vars => Tidy'
<1> SUFFICES ASSUME Tidy, Together, [Next]_vars PROVE Tidy'
  OBVIOUS
<1>1. CASE UNCHANGED vars
  BY <1>1 DEF vars, Tidy, TypeOK, Home, OneHolder, Placed, Spare, Queued, Busy, Holds, Held,
              Sleeps, Delayed, closed
<1>2. ASSUME NEW h \in Hosts, NEW w \in Slots, WorkerStep(h, w) PROVE Tidy'
  BY <1>2, TakeStep, WakeStep, FinishStep, LimitedStep, MalformedStep DEF WorkerStep, Answer
<1>3. ASSUME NEW r \in Requests, Enqueue(r) \/ Cancel(r) \/ Requeue(r) PROVE Tidy'
  BY <1>3, EnqueueStep, CancelStep, RequeueStep
<1>4. CASE Close \/ CloseOn \/ Tick
  BY <1>4, CloseStep, TickStep
<1> QED
  BY <1>1, <1>2, <1>3, <1>4 DEF Next
-----------------------------------------------------------------------------
(***************************************************************************)
(* The tasks of a host and close().                                        *)
(***************************************************************************)

\* A worker's step is one of a worker that runs; it does not touch close().
LEMMA Proceeds ==
  ASSUME TypeOK, NEW h \in Hosts, NEW w \in Slots, WorkerStep(h, w)
  PROVE  /\ worker[h][w].pc \in {"get", "sleep", "call"}
         /\ worker'[h][w].pc # "off"
         /\ \A g \in Hosts, v \in Slots : g # h \/ v # w => worker'[g][v] = worker[g][v]
         /\ UNCHANGED closer
<1>1. /\ worker[h][w].pc \in {"get", "sleep", "call"} /\ UNCHANGED closer
      /\ \E s : s.pc # "off" /\ Goes(h, w, s)
  <2>1. CASE Take(h, w) \/ Wake(h, w)
    BY <2>1 DEF Take, Wake, Calls
  <2>2. CASE Fails(h, w) \/ Succeeds(h, w) \/ \E d \in 1..MaxDelay : Limited(h, w, d)
    <3>1. worker[h][w].pc = "call" /\ UNCHANGED closer /\ Loop(h, w)
      BY <2>2 DEF Fails, Succeeds, Limited
    <3>2. (IF closed THEN "ended" ELSE "get") # "off"
      OBVIOUS
    <3> QED
      BY <3>1, <3>2 DEF Loop
  <2>3. CASE Malformed(h, w)
    BY <2>3 DEF Malformed
  <2> QED
    BY <2>1, <2>2, <2>3 DEF WorkerStep, Answer
<1> QED
  BY <1>1 DEF TypeOK, Goes

\* close() deals with one more host of todo, all others being dealt with.
LEMMA Closing ==
  ASSUME TypeOK, Together, NEW todo \in SUBSET Hosts, CloseHosts(todo),
         \A g \in Opened \ todo, w \in Slots : worker[g][w].pc = "ended"
  PROVE  Together' /\ Stopped'
<1>1. CASE todo = {} /\ closer' = [pc |-> "returned"] /\ UNCHANGED worker
  BY <1>1 DEF Together, Stopped, Opened
<1>2. ASSUME NEW h \in todo, worker' = Cancelled(h),
             closer' = IF \E w \in Slots : worker[h][w].pc = "dead" THEN [pc |-> "raised"]
                       ELSE [pc |-> "closing", todo |-> todo \ {h}]
      PROVE  Together' /\ Stopped'
  <2>1. /\ h \in Hosts
        /\ \A g \in Hosts : g # h => worker'[g] = worker[g]
        /\ \A w \in Slots : worker'[h][w].pc = IF worker[h][w].pc = "dead" THEN "dead"
                                                                       ELSE "ended"
    BY <1>2, Cancelling
  <2>2. \A w \in Slots : worker'[h][w].pc # "off"
    BY <2>1
  <2>3. Together'
    BY <2>1, <2>2 DEF Together, Opened
  <2>4. Stopped'
    <3>1. CASE \E w \in Slots : worker[h][w].pc = "dead"
      BY <1>2, <3>1 DEF Stopped, DealtWith
    <3>2. CASE ~(\E w \in Slots : worker[h][w].pc = "dead")
      <4>1. closer' = [pc |-> "closing", todo |-> todo \ {h}]
        BY <1>2, <3>2
      <4>2. \A g \in Hosts : DealtWith(g)' => g \notin todo \/ g = h
        BY <4>1 DEF DealtWith
      <4>3. \A w \in Slots : worker'[h][w].pc = "ended"
        BY <2>1, <3>2
      <4>4. \A g \in Opened' : g # h => g \in Opened
        BY <2>1 DEF Opened
      <4>5. \A g \in Opened' : g \in Hosts
        BY DEF Opened
      <4> QED
        BY <2>1, <4>2, <4>3, <4>4, <4>5 DEF Stopped
    <3> QED
      BY <3>1, <3>2
  <2> QED
    BY <2>3, <2>4
<1> QED
  BY <1>1, <1>2 DEF CloseHosts

LEMMA StoppedStep == TypeOK /\ Together /\ Stopped /\ [Next]_vars => Together' /\ Stopped'
<1> SUFFICES ASSUME TypeOK, Together, Stopped, [Next]_vars PROVE Together' /\ Stopped'
  OBVIOUS
<1>1. ASSUME UNCHANGED closer,
             \A h \in Hosts, w \in Slots : worker'[h][w].pc = worker[h][w].pc
      PROVE  Together' /\ Stopped'
  BY <1>1 DEF Together, Stopped, Opened, DealtWith
<1>2. ASSUME NEW r \in Requests, Enqueue(r) PROVE Together' /\ Stopped'
  <2>1. closer.pc = "open" /\ UNCHANGED closer /\ HostOf[r] \in Hosts
    BY <1>2, HostQueueConstants DEF Enqueue, closed
  <2>2. Stopped'
    BY <2>1 DEF Stopped, DealtWith
  <2>3. CASE worker' = worker
    BY <2>2, <2>3 DEF Together, Opened
  <2>4. CASE worker' = [worker EXCEPT ![HostOf[r]] = [w \in Slots |-> [pc |-> "get"]]]
    <3>1. /\ \A w \in Slots : worker'[HostOf[r]][w].pc = "get"
          /\ \A h \in Hosts : h # HostOf[r] => worker'[h] = worker[h]
      BY <2>1, <2>4 DEF TypeOK
    <3> QED
      BY <2>2, <3>1 DEF Together, Opened
  <2> QED
    BY <1>2, <2>3, <2>4 DEF Enqueue
<1>3. ASSUME NEW h \in Hosts, NEW w \in Slots, WorkerStep(h, w) PROVE Together' /\ Stopped'
  <2>1. /\ worker[h][w].pc \in {"get", "sleep", "call"} /\ worker'[h][w].pc # "off"
        /\ \A g \in Hosts, v \in Slots : g # h \/ v # w => worker'[g][v] = worker[g][v]
        /\ UNCHANGED closer
    BY <1>3, Proceeds
  <2>2. h \in Opened
    BY <2>1 DEF Together
  <2>3. Opened' = Opened
    BY <2>1 DEF Opened
  <2>4. Together'
    BY <2>1, <2>2, <2>3 DEF Together
  <2>5. ~DealtWith(h) /\ \A g \in Hosts : DealtWith(g)' <=> DealtWith(g)
    BY <2>1, <2>2 DEF Stopped, DealtWith
  <2>6. \A g \in Opened : g \in Hosts
    BY DEF Opened
  <2>7. Stopped'
    BY <2>1, <2>3, <2>5, <2>6 DEF Stopped
  <2> QED
    BY <2>4, <2>7
<1>4. CASE Close
  <2>1. Opened \in SUBSET Hosts /\ CloseHosts(Opened)
    BY <1>4 DEF Opened, Close
  <2> QED
    BY <2>1, Closing
<1>5. CASE CloseOn
  <2>1. closer.pc = "closing" /\ closer.todo \in SUBSET Hosts /\ CloseHosts(closer.todo)
    BY <1>5 DEF CloseOn, TypeOK, CloserState
  <2>2. \A g \in Opened \ closer.todo, w \in Slots : worker[g][w].pc = "ended"
    BY <2>1 DEF Stopped, DealtWith
  <2> QED
    BY <2>1, <2>2, Closing
<1>6. CASE Tick
  <2>1. \A h \in Hosts, w \in Slots : worker'[h][w].pc = worker[h][w].pc
    BY <1>6, WorkerTicks
  <2> QED
    BY <1>1, <1>6, <2>1 DEF Tick
<1>7. ASSUME NEW r \in Requests, Cancel(r) \/ Requeue(r) PROVE Together' /\ Stopped'
  BY <1>1, <1>7 DEF Cancel, Requeue
<1>8. CASE UNCHANGED vars
  BY <1>1, <1>8 DEF vars
<1> QED
  BY <1>2, <1>3, <1>4, <1>5, <1>6, <1>7, <1>8 DEF Next
-----------------------------------------------------------------------------
(***************************************************************************)
(* The only worker of a host and the host's deadline: nobody else moves    *)
(* the deadline while it sleeps.                                           *)
(***************************************************************************)
LEMMA OneSlot ==
  ASSUME Cardinality(Slots) = 1
  PROVE  \A v, w \in Slots : v = w
<1>1. \E x : Slots = {x}
  BY HostQueueConstants, FS_Singleton
<1> QED
  BY <1>1

LEMMA PunctualStep == TypeOK /\ Punctual /\ [Next]_vars => Punctual'
<1> DEFINE InTime(h, w) == worker[h][w].pc = "sleep" => deadline[h] <= worker[h][w].left
           Goal == early' = {} /\ \A h \in Hosts, w \in Slots : InTime(h, w)'
<1> SUFFICES ASSUME TypeOK, Punctual, [Next]_vars, Cardinality(Slots) = 1 PROVE Goal
  BY DEF Punctual
<1>1. /\ \A v, w \in Slots : v = w
      /\ early = {} /\ \A h \in Hosts, w \in Slots : InTime(h, w)
      /\ deadline \in [Hosts -> 0..MaxDelay] /\ worker \in [Hosts -> [Slots -> WorkerState]]
  BY OneSlot DEF Punctual, TypeOK
<1> HIDE DEF Goal
<1>2. ASSUME UNCHANGED <<deadline, early>>,
             \A h \in Hosts, w \in Slots :
               worker'[h][w].pc = "sleep" => worker'[h][w] = worker[h][w]
      PROVE  Goal
  BY <1>1, <1>2 DEF Goal
<1>3. ASSUME NEW r \in Requests, Enqueue(r) PROVE Goal
  <2>1. UNCHANGED <<deadline, early>> /\ HostOf[r] \in Hosts
    BY <1>3, HostQueueConstants DEF Enqueue
  <2>2. \/ worker' = worker
        \/ worker' = [worker EXCEPT ![HostOf[r]] = [w \in Slots |-> [pc |-> "get"]]]
    BY <1>3 DEF Enqueue
  <2>3. \A h \in Hosts, w \in Slots :
          worker'[h][w].pc = "sleep" => worker'[h][w] = worker[h][w]
    BY <1>1, <2>1, <2>2
  <2> QED
    BY <1>2, <2>1, <2>3
<1>4. ASSUME NEW r \in Requests, Cancel(r) \/ Requeue(r) PROVE Goal
  BY <1>2, <1>4 DEF Cancel, Requeue
<1>5. ASSUME NEW todo, CloseHosts(todo), UNCHANGED <<deadline, early>>, todo \subseteq Hosts
      PROVE  Goal
  <2>1. CASE worker' = worker
    BY <1>2, <1>5, <2>1
  <2>2. ASSUME NEW h \in todo, worker' = Cancelled(h) PROVE Goal
    <3>1. /\ \A g \in Hosts : g # h => worker'[g] = worker[g]
          /\ \A w \in Slots : worker'[h][w] = worker[h][w] \/ worker'[h][w] = [pc |-> "ended"]
      BY <1>5, <2>2, Cancelling
    <3>2. \A g \in Hosts, w \in Slots :
            worker'[g][w].pc = "sleep" => worker'[g][w] = worker[g][w]
      BY <3>1
    <3> QED
      BY <1>2, <1>5, <3>2
  <2> QED
    BY <1>5, <2>1, <2>2 DEF CloseHosts
<1>6. CASE Close \/ CloseOn
  BY <1>5, <1>6 DEF Close, CloseOn, Opened, TypeOK, CloserState
<1>7. CASE Tick
  <2>1. ASSUME NEW h \in Hosts, NEW w \in Slots, worker'[h][w].pc = "sleep"
        PROVE  deadline'[h] <= worker'[h][w].left
    <3>1. /\ worker[h][w].pc = "sleep" /\ worker[h][w].left \in 0..MaxDelay
          /\ worker'[h][w].left = Less(worker[h][w].left)
      BY <1>7, <2>1, WorkerTicks
    <3>2. deadline'[h] = Less(deadline[h]) /\ deadline[h] <= worker[h][w].left
      BY <1>1, <1>7, <3>1 DEF Tick
    <3>3. deadline[h] \in 0..MaxDelay
      BY <1>1
    <3> QED
      BY <3>1, <3>2, <3>3, HostQueueConstants DEF Less
  <2> QED
    BY <1>1, <1>7, <2>1 DEF Tick, Goal
<1>8. ASSUME NEW h \in Hosts, NEW w \in Slots, WorkerStep(h, w) PROVE Goal
  <2>1. ASSUME NEW s, Goes(h, w, s), early' = {}, s.pc # "sleep",
               \A g \in Hosts : g # h => deadline'[g] = deadline[g]
        PROVE  Goal
    <3>1. /\ \A v \in Slots : worker'[h][v] = s
          /\ \A g \in Hosts : g # h => worker'[g] = worker[g]
      BY <1>1, <2>1 DEF Goes
    <3> QED
      BY <1>1, <2>1, <3>1 DEF Goal
  <2>2. CASE Take(h, w)
    <3>1. CASE MustWait(h)
      <4> DEFINE s == [pc |-> "sleep", request |-> Head(queue[h]), left |-> deadline[h]]
      <4>1. Goes(h, w, s) /\ UNCHANGED <<early, deadline>>
        BY <2>2, <3>1 DEF Take
      <4>2. /\ \A v \in Slots : worker'[h][v] = s
            /\ \A g \in Hosts : g # h => worker'[g] = worker[g]
        BY <1>1, <4>1 DEF Goes
      <4>3. deadline'[h] <= s.left
        BY <1>1, <4>1, HostQueueConstants
      <4> HIDE DEF s
      <4> QED
        BY <1>1, <4>1, <4>2, <4>3 DEF Goal
    <3>2. CASE ~MustWait(h)
      <4>1. Calls(h, w, Head(queue[h])) /\ ~(deadline[h] > 0) /\ UNCHANGED deadline
        BY <2>2, <3>2 DEF Take, MustWait
      <4>2. early' = {}
        BY <1>1, <4>1 DEF Calls
      <4> QED
        BY <2>1, <4>1, <4>2 DEF Calls
    <3> QED
      BY <3>1, <3>2
  <2>3. CASE Wake(h, w)
    <3>1. /\ Calls(h, w, worker[h][w].request) /\ UNCHANGED deadline
          /\ deadline[h] <= 0 /\ deadline[h] \in 0..MaxDelay
      BY <1>1, <2>3 DEF Wake
    <3>2. early' = {}
      BY <1>1, <3>1, HostQueueConstants DEF Calls
    <3> QED
      BY <2>1, <3>1, <3>2 DEF Calls
  <2>4. CASE Answer(h, w)
    <3>1. early' = {} /\ \A g \in Hosts : g # h => deadline'[g] = deadline[g]
      BY <1>1, <2>4 DEF Answer, Fails, Succeeds, Malformed, Limited
    <3>2. \E s : s.pc # "sleep" /\ Goes(h, w, s)
      <4>1. CASE Malformed(h, w)
        BY <4>1 DEF Malformed
      <4>2. CASE Loop(h, w)
        BY <4>2 DEF Loop
      <4> QED
        BY <2>4, <4>1, <4>2 DEF Answer, Fails, Succeeds, Limited
    <3> QED
      BY <2>1, <3>1, <3>2
  <2> QED
    BY <1>8, <2>2, <2>3, <2>4 DEF WorkerStep
<1>9. CASE UNCHANGED vars
  BY <1>2, <1>9 DEF vars
<1> QED
  BY <1>3, <1>4, <1>6, <1>7, <1>8, <1>9 DEF Next
-----------------------------------------------------------------------------
LEMMA InvInit == Init => IInv
<1> SUFFICES ASSUME Init PROVE IInv
  OBVIOUS
<1>1. queue \in [Hosts -> Seq(Requests)] /\ \A h \in Hosts : queue[h] = <<>>
  BY DEF Init
<1>2. /\ worker \in [Hosts -> [Slots -> WorkerState]]
      /\ \A h \in Hosts, w \in Slots : worker[h][w].pc = "off"
  BY DEF Init, AllWorkers, WorkerState
<1>3. /\ delayed \in [Requests -> 0..MaxDelay \cup {None}]
      /\ deadline \in [Hosts -> 0..MaxDelay] /\ attempt \in [Requests -> 0..MaxAttempts]
  BY HostQueueConstants DEF Init
<1>4. closer \in CloserState
  BY DEF Init, CloserState
<1>5. TypeOK
  BY <1>1, <1>2, <1>3, <1>4 DEF Init, TypeOK
<1>6. Home
  BY <1>1, <1>2 DEF Home, NoneTwice, In, Busy
<1>7. ASSUME NEW r \in Requests PROVE OneHolder(r) /\ Placed(r) /\ Spare(r)
  <2>1. HostOf[r] \in Hosts
    BY HostQueueConstants
  <2>2. ~Queued(r)
    BY <1>1, <2>1 DEF Queued, In
  <2>3. (\A w \in Slots : ~Holds(w, r) /\ ~Sleeps(w, r)) /\ ~Held(r)
    BY <1>2, <2>1 DEF Holds, Held, Sleeps, Busy
  <2>4. ~Delayed(r) /\ future[r] = "none" /\ attempt[r] = 0
    BY DEF Init, Delayed
  <2> QED
    BY <2>2, <2>3, <2>4 DEF OneHolder, Placed, Spare
<1>8. Together /\ Stopped /\ Punctual
  BY <1>2 DEF Init, Together, Stopped, DealtWith, Punctual
<1> QED
  BY <1>5, <1>6, <1>7, <1>8 DEF IInv, Tidy

THEOREM Invariance == Spec => []IInv
<1>1. IInv /\ [Next]_vars => IInv'
  BY TidyStep, StoppedStep, PunctualStep DEF IInv, Tidy
<1> QED
  BY <1>1, InvInit, PTL DEF Spec

(***************************************************************************)
(* The variables keep their types; in particular no request is called more *)
(* than max_attempts times, however it comes back to the queue.            *)
(***************************************************************************)
THEOREM TypeCorrect == Spec => []TypeOK
<1>1. IInv => TypeOK
  BY DEF IInv, Tidy
<1> QED
  BY <1>1, Invariance, PTL

LEMMA AtMostOne ==
  ASSUME NEW S, \A x, y \in S : x = y
  PROVE  Cardinality(S) = IF S = {} THEN 0 ELSE 1
<1>1. CASE S = {}
  BY <1>1, FS_EmptySet
<1>2. CASE S # {}
  <2>1. PICK x \in S : S = {x}
    BY <1>2
  <2> QED
    BY <2>1, FS_Singleton
<1> QED
  BY <1>1, <1>2

(***************************************************************************)
(* A request is in one place at most, so it is never called twice at once; *)
(* while its caller waits and the queue is open it is in one.              *)
(***************************************************************************)
THEOREM NothingLostOrDoubled == Spec => []InOnePlace
<1>1. IInv => InOnePlace
  <2> SUFFICES ASSUME IInv, NEW r \in Requests
               PROVE  Copies(r) <= 1 /\ (future[r] = "waiting" /\ ~closed => Copies(r) = 1)
    BY DEF InOnePlace
  <2> DEFINE h == HostOf[r]
             Q == {i \in DOMAIN queue[h] : queue[h][i] = r}
             W == {w \in Slots : worker[h][w].pc \in {"sleep", "call", "dead"}
                                   /\ worker[h][w].request = r}
             D == IF delayed[r] = None THEN 0 ELSE 1
  <2>1. h \in Hosts /\ queue[h] \in Seq(Requests) /\ NoneTwice(queue[h])
    BY HostQueueConstants DEF IInv, Tidy, TypeOK, Home
  <2>2. Cardinality(Q) = IF Queued(r) THEN 1 ELSE 0
    <3>1. \A i, j \in Q : i = j
      BY <2>1 DEF NoneTwice
    <3>2. Q = {} <=> ~Queued(r)
      BY <2>1 DEF Queued, In
    <3> HIDE DEF Q
    <3> QED
      BY <3>1, <3>2, AtMostOne
  <2>3. Cardinality(W) = IF Held(r) THEN 1 ELSE 0
    <3>1. \A w, v \in W : w = v
      BY DEF IInv, Tidy, OneHolder, Holds, Busy
    <3>2. W = {} <=> ~Held(r)
      BY DEF Held, Holds, Busy
    <3> HIDE DEF W
    <3> QED
      BY <3>1, <3>2, AtMostOne
  <2>4. D = IF Delayed(r) THEN 1 ELSE 0
    BY DEF Delayed
  <2>5. Copies(r) = Cardinality(Q) + Cardinality(W) + D
    BY DEF Copies
  <2>6. Placed(r)
    BY DEF IInv, Tidy
  <2> HIDE DEF Q, W, D, h
  <2> QED
    BY <2>2, <2>3, <2>4, <2>5, <2>6 DEF Placed
<1> QED
  BY <1>1, Invariance, PTL

(***************************************************************************)
(* With one worker per host, the default, no call is made to a host before *)
(* the deadline that an earlier answer has set.                            *)
(***************************************************************************)
THEOREM DeadlinesAreKept == Spec => []BackoffRespected
<1>1. IInv => BackoffRespected
  BY DEF IInv, Punctual, BackoffRespected
<1> QED
  BY <1>1, Invariance, PTL

(***************************************************************************)
(* close() returns only when no task of any host runs any more.            *)
(***************************************************************************)
THEOREM CloseStopsAll == Spec => []NothingLeftRunning
<1>1. IInv => NothingLeftRunning
  BY DEF IInv, Stopped, DealtWith, NothingLeftRunning
<1> QED
  BY <1>1, Invariance, PTL
=============================================================================
