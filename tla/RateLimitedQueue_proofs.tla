---------------------- MODULE RateLimitedQueue_proofs -----------------------
(***************************************************************************)
(* Safety of RateLimitedQueue for any number of requests, hosts, worker    *)
(* tasks and rate-limited answers.                                         *)
(***************************************************************************)
EXTENDS RateLimitedQueue, FiniteSetTheorems, TLAPS

(***************************************************************************)
(* The three places a request can be in, none of them twice.               *)
(***************************************************************************)
In(q, x) == \E i \in 1..Len(q) : q[i] = x

NoneTwice(q) ==
    \A i, j \in 1..Len(q) : q[i] = q[j] /\ q[i] \in Requests => i = j

Holds(w, r) == worker[w].pc \in {"sleep", "acquire", "call"} /\ worker[w].request = r

Held(r) == \E w \in Workers : Holds(w, r)

Delayed(r) == delayed[r] # None

OneHolder(r) == \A w, v \in Workers : Holds(w, r) /\ Holds(v, r) => w = v

(***************************************************************************)
(* A request is in one of its places at most; in none before it is         *)
(* enqueued, and in one as long as it is waited for.                       *)
(***************************************************************************)
Placed(r) ==
    /\ In(queue, r) => ~Held(r) /\ ~Delayed(r)
    /\ Held(r) => ~Delayed(r)
    /\ future[r] = "none" => ~In(queue, r) /\ ~Held(r) /\ ~Delayed(r)
    /\ future[r] = "waiting" => In(queue, r) \/ Held(r) \/ Delayed(r)

IInv ==
    /\ TypeOK
    /\ NoneTwice(queue)
    /\ \A r \in Requests : OneHolder(r) /\ Placed(r)
-----------------------------------------------------------------------------
(***************************************************************************)
(* The operations on the queue.                                            *)
(***************************************************************************)
Items == Requests \cup {Stop}

LEMMA Appending ==
  ASSUME NEW q \in Seq(Items), NEW r \in Requests, NoneTwice(q), ~In(q, r)
  PROVE  /\ Append(q, r) \in Seq(Items)
         /\ NoneTwice(Append(q, r))
         /\ \A x \in Requests : In(Append(q, r), x) <=> In(q, x) \/ x = r
<1> DEFINE a == Append(q, r)
<1>1. /\ a \in Seq(Items) /\ Len(q) \in Nat /\ Len(a) = Len(q) + 1
      /\ a[Len(q) + 1] = r
      /\ \A i \in 1..Len(q) : a[i] = q[i] /\ a[i] # r
  BY DEF In, Items
<1> HIDE DEF a
<1>2. NoneTwice(a)
  <2> SUFFICES ASSUME NEW i \in 1..Len(a), NEW j \in 1..Len(a), a[i] = a[j], a[i] \in Requests
               PROVE  i = j
    BY DEF NoneTwice
  <2>1. CASE i \in 1..Len(q) /\ j \in 1..Len(q)
    BY <1>1, <2>1 DEF NoneTwice
  <2>2. CASE i = Len(q) + 1 \/ j = Len(q) + 1
    BY <1>1, <2>2
  <2> QED
    BY <1>1, <2>1, <2>2
<1>3. \A x \in Requests : In(a, x) <=> In(q, x) \/ x = r
  BY <1>1 DEF In
<1> QED
  BY <1>1, <1>2, <1>3 DEF a

LEMMA Taking ==
  ASSUME NEW q \in Seq(Items), q # <<>>, NoneTwice(q)
  PROVE  /\ Head(q) \in Items
         /\ Tail(q) \in Seq(Items)
         /\ NoneTwice(Tail(q))
         /\ In(q, Head(q))
         /\ \A x \in Requests : In(Tail(q), x) <=> In(q, x) /\ x # Head(q)
<1> DEFINE t == Tail(q)
<1>1. /\ t \in Seq(Items) /\ Len(q) \in Nat /\ Len(q) > 0 /\ Len(t) = Len(q) - 1
      /\ Head(q) = q[1] /\ Head(q) \in Items
      /\ \A i \in 1..Len(t) : t[i] = q[i + 1]
  OBVIOUS
<1> HIDE DEF t
<1>2. NoneTwice(t)
  <2> SUFFICES ASSUME NEW i \in 1..Len(t), NEW j \in 1..Len(t), t[i] = t[j], t[i] \in Requests
               PROVE  i = j
    BY DEF NoneTwice
  <2>1. i + 1 \in 1..Len(q) /\ j + 1 \in 1..Len(q) /\ q[i + 1] = q[j + 1]
        /\ q[i + 1] \in Requests
    BY <1>1
  <2>2. i + 1 = j + 1
    BY <2>1 DEF NoneTwice
  <2> QED
    BY <2>2
<1>3. ASSUME NEW x \in Requests, In(t, x)
      PROVE  In(q, x) /\ x # Head(q)
  <2>1. PICK i \in 1..Len(t) : t[i] = x
    BY <1>3 DEF In
  <2>2. i + 1 \in 1..Len(q) /\ q[i + 1] = x /\ 1 \in 1..Len(q) /\ i + 1 # 1
    BY <1>1, <2>1
  <2>3. q[1] # x
    BY <2>2 DEF NoneTwice
  <2> QED
    BY <1>1, <2>2, <2>3 DEF In
<1>4. ASSUME NEW x \in Requests, In(q, x), x # Head(q)
      PROVE  In(t, x)
  <2>1. PICK i \in 1..Len(q) : q[i] = x
    BY <1>4 DEF In
  <2>2. i - 1 \in 1..Len(t) /\ t[i - 1] = x
    BY <1>1, <1>4, <2>1
  <2> QED
    BY <2>2 DEF In
<1>5. In(q, Head(q))
  BY <1>1 DEF In
<1> QED
  BY <1>1, <1>2, <1>3, <1>4, <1>5 DEF t

LEMMA Stopping ==
  ASSUME TypeOK, NoneTwice(queue)
  PROVE  /\ Stops \in Seq(Items)
         /\ NoneTwice(Stops)
         /\ \A x \in Requests : In(Stops, x) <=> In(queue, x)
<1> DEFINE n == Cardinality(Workers)
           stops == [i \in 1..n |-> Stop]
           c == queue \o stops
<1>1. n \in Nat /\ queue \in Seq(Items)
  BY QueueConstants, FS_CardinalityType DEF TypeOK, Items
<1>2. stops \in Seq(Items) /\ Len(stops) = n
  BY <1>1 DEF Items
<1>3. /\ c \in Seq(Items) /\ Len(queue) \in Nat /\ Len(c) = Len(queue) + n
      /\ \A i \in 1..Len(queue) : c[i] = queue[i]
      /\ \A i \in 1..Len(c) : i > Len(queue) => c[i] = Stop
  BY <1>1, <1>2
<1> HIDE DEF c
<1>4. NoneTwice(c)
  BY <1>1, <1>3, QueueConstants DEF NoneTwice, Items
<1>5. ASSUME NEW x \in Requests PROVE In(c, x) <=> In(queue, x)
  <2>1. x # Stop
    BY QueueConstants
  <2>2. ASSUME In(c, x) PROVE In(queue, x)
    <3>1. PICK i \in 1..Len(c) : c[i] = x
      BY <2>2 DEF In
    <3>2. i \in 1..Len(queue) /\ queue[i] = x
      BY <1>1, <1>3, <2>1, <3>1
    <3> QED
      BY <3>2 DEF In
  <2>3. ASSUME In(queue, x) PROVE In(c, x)
    <3>1. PICK i \in 1..Len(queue) : queue[i] = x
      BY <2>3 DEF In
    <3>2. i \in 1..Len(c) /\ c[i] = x
      BY <1>1, <1>3, <3>1
    <3> QED
      BY <3>2 DEF In
  <2> QED
    BY <2>2, <2>3
<1>6. CASE \A w \in Workers : worker[w].pc = "off"
  <2>1. Stops = queue
    BY <1>6 DEF Stops
  <2> QED
    BY <1>1, <2>1
<1>7. CASE ~(\A w \in Workers : worker[w].pc = "off")
  <2>1. Stops = c
    BY <1>7 DEF Stops, c
  <2> QED
    BY <1>3, <1>4, <1>5, <2>1
<1> QED
  BY <1>6, <1>7
-----------------------------------------------------------------------------
LEMMA Busy ==
  ASSUME TypeOK, NEW w \in Workers, worker[w].pc \in {"sleep", "acquire", "call"}
  PROVE  /\ worker[w].request \in Requests
         /\ HostOf[worker[w].request] \in Hosts
         /\ Holds(w, worker[w].request)
  BY QueueConstants DEF TypeOK, WorkerState, Holds

LEMMA Ticking ==
  ASSUME NEW n \in 0..MaxDelay \cup {None}
  PROVE  /\ Less(n) \in 0..MaxDelay \cup {None}
         /\ n \in 0..MaxDelay => Less(n) \in 0..MaxDelay
         /\ Less(n) = None <=> n = None
  BY QueueConstants DEF Less

(***************************************************************************)
(* A step of worker w leaves the other workers alone, and what it then     *)
(* holds is all that changes.                                              *)
(***************************************************************************)
LEMMA WorkerMoves ==
  ASSUME TypeOK, NEW w \in Workers, NEW s \in WorkerState, worker' = [worker EXCEPT ![w] = s]
  PROVE  /\ worker' \in [Workers -> WorkerState]
         /\ \A v \in Workers, r \in Requests : v # w => (Holds(v, r)' <=> Holds(v, r))
         /\ \A r \in Requests :
              Holds(w, r)' <=> s.pc \in {"sleep", "acquire", "call"} /\ s.request = r
  BY DEF TypeOK, Holds

\* Enters and Begins leave w at the semaphore or in the call, with r.
LEMMA Entering ==
  ASSUME TypeOK, NEW w \in Workers, NEW r \in Requests, Enters(w, r) \/ Begins(w, r)
  PROVE  /\ \E s \in WorkerState :
               /\ worker' = [worker EXCEPT ![w] = s]
               /\ s.pc \in {"acquire", "call"}
               /\ s.request = r
         /\ early' \subseteq Requests
<1>1. [pc |-> "call", request |-> r] \in WorkerState /\ [pc |-> "acquire", request |-> r] \in WorkerState
  BY DEF WorkerState
<1>2. early \subseteq Requests
  BY DEF TypeOK
<1> QED
  BY <1>1, <1>2 DEF Enters, Begins

(***************************************************************************)
(* Worker w, busy with nothing, comes to hold r; or what it held is let go *)
(* of; or it holds on to it.                                               *)
(***************************************************************************)
LEMMA TakesUp ==
  ASSUME IInv, NEW w \in Workers, worker[w].pc \notin {"sleep", "acquire", "call"},
         NEW r \in Requests, ~Held(r), NEW s \in WorkerState,
         s.pc \in {"sleep", "acquire", "call"}, s.request = r,
         worker' = [worker EXCEPT ![w] = s]
  PROVE  /\ \A x \in Requests : OneHolder(x)' /\ (Held(x)' <=> Held(x) \/ x = r)
         /\ worker' \in [Workers -> WorkerState]
<1>1. TypeOK /\ \A x \in Requests : OneHolder(x) /\ ~Holds(w, x)
  BY DEF IInv, Holds
<1>2. /\ worker' \in [Workers -> WorkerState]
      /\ \A v \in Workers, x \in Requests : v # w => (Holds(v, x)' <=> Holds(v, x))
      /\ \A x \in Requests : Holds(w, x)' <=> x = r
  BY <1>1, WorkerMoves
<1> QED
  BY <1>1, <1>2 DEF OneHolder, Held

LEMMA LetsGo ==
  ASSUME IInv, NEW w \in Workers, NEW s \in WorkerState,
         s.pc \notin {"sleep", "acquire", "call"}, worker' = [worker EXCEPT ![w] = s]
  PROVE  /\ \A x \in Requests :
              OneHolder(x)' /\ (Held(x)' <=> Held(x) /\ ~Holds(w, x))
         /\ worker' \in [Workers -> WorkerState]
<1>1. TypeOK /\ \A x \in Requests : OneHolder(x)
  BY DEF IInv
<1>2. /\ worker' \in [Workers -> WorkerState]
      /\ \A v \in Workers, x \in Requests : v # w => (Holds(v, x)' <=> Holds(v, x))
      /\ \A x \in Requests : ~Holds(w, x)'
  BY <1>1, WorkerMoves
<1> QED
  BY <1>1, <1>2 DEF OneHolder, Held

LEMMA HoldsOn ==
  ASSUME IInv, \A w \in Workers, r \in Requests : Holds(w, r)' <=> Holds(w, r)
  PROVE  \A r \in Requests : OneHolder(r)' /\ (Held(r)' <=> Held(r))
  BY DEF IInv, OneHolder, Held
-----------------------------------------------------------------------------
(***************************************************************************)
(* The handlers, one by one.                                               *)
(***************************************************************************)
LEMMA StartStep == IInv /\ Start => IInv'
<1> SUFFICES ASSUME IInv, Start PROVE IInv'
  OBVIOUS
<1>1. TypeOK /\ UNCHANGED <<queue, future, delayed>>
  BY DEF IInv, Start
<1>2. \A w \in Workers, r \in Requests : ~Holds(w, r) /\ ~Holds(w, r)'
  BY DEF Start, Holds, Get
<1>3. TypeOK'
  BY <1>1 DEF Start, TypeOK, Get, WorkerState
<1>4. \A r \in Requests : OneHolder(r)' /\ (Held(r)' <=> Held(r))
  BY <1>2, HoldsOn
<1> QED
  BY <1>1, <1>3, <1>4 DEF IInv, Placed, Delayed, NoneTwice

LEMMA EnqueueStep == \A r \in Requests : IInv /\ Enqueue(r) => IInv'
<1> SUFFICES ASSUME NEW r \in Requests, IInv, Enqueue(r) PROVE IInv'
  OBVIOUS
<1>1. TypeOK /\ queue \in Seq(Items) /\ NoneTwice(queue) /\ ~In(queue, r)
  BY DEF IInv, Placed, Enqueue, TypeOK, Items
<1>2. /\ queue' \in Seq(Items) /\ NoneTwice(queue')
      /\ \A x \in Requests : In(queue', x) <=> In(queue, x) \/ x = r
  BY <1>1, Appending DEF Enqueue
<1>3. TypeOK'
  BY <1>1, <1>2 DEF Enqueue, Waiting, TypeOK, Items
<1>4. /\ \A x \in Requests : future'[x] = IF x = r THEN "waiting" ELSE future[x]
      /\ future[r] = "none"
      /\ UNCHANGED <<worker, delayed>>
  BY <1>1 DEF Enqueue, Waiting, TypeOK
<1>5. \A x \in Requests : OneHolder(x)' /\ (Held(x)' <=> Held(x)) /\ (Delayed(x)' <=> Delayed(x))
  BY <1>4 DEF IInv, OneHolder, Held, Holds, Delayed
<1>6. ASSUME NEW x \in Requests PROVE Placed(x)'
  <2>1. Placed(x)
    BY DEF IInv
  <2> QED
    BY <1>2, <1>4, <1>5, <2>1 DEF Placed
<1> QED
  BY <1>2, <1>3, <1>5, <1>6 DEF IInv

LEMMA CancelStep == \A r \in Requests : IInv /\ Cancel(r) => IInv'
<1> SUFFICES ASSUME NEW r \in Requests, IInv, Cancel(r) PROVE IInv'
  OBVIOUS
<1>1. TypeOK /\ UNCHANGED <<queue, attempt, worker, delayed, backoff, closed, early>>
  BY DEF IInv, Cancel
<1>2. \A x \in Requests : future'[x] = IF x = r THEN "cancelled" ELSE future[x]
  BY <1>1 DEF Cancel, TypeOK
<1>3. TypeOK'
  BY <1>1 DEF Cancel, TypeOK, Settled
<1>4. \A x \in Requests : OneHolder(x)' /\ (Held(x)' <=> Held(x)) /\ (Delayed(x)' <=> Delayed(x))
  BY <1>1 DEF IInv, OneHolder, Held, Holds, Delayed
<1> QED
  BY <1>1, <1>2, <1>3, <1>4 DEF IInv, Placed, NoneTwice

LEMMA CloseStep == IInv /\ Close => IInv'
<1> SUFFICES ASSUME IInv, Close PROVE IInv'
  OBVIOUS
<1>1. TypeOK /\ NoneTwice(queue) /\ queue' = Stops
      /\ UNCHANGED <<future, attempt, worker, delayed, backoff, early>>
  BY DEF IInv, Close
<1>2. /\ queue' \in Seq(Items) /\ NoneTwice(queue')
      /\ \A x \in Requests : In(queue', x) <=> In(queue, x)
  BY <1>1, Stopping
<1>3. TypeOK'
  BY <1>1, <1>2 DEF Close, TypeOK, Items
<1>4. \A x \in Requests : OneHolder(x)' /\ (Held(x)' <=> Held(x)) /\ (Delayed(x)' <=> Delayed(x))
  BY <1>1 DEF IInv, OneHolder, Held, Holds, Delayed
<1> QED
  BY <1>1, <1>2, <1>3, <1>4 DEF IInv, Placed

LEMMA TakeStep == \A w \in Workers : IInv /\ Take(w) => IInv'
<1> SUFFICES ASSUME NEW w \in Workers, IInv, Take(w) PROVE IInv'
  OBVIOUS
<1> DEFINE item == Head(queue)
<1>1. /\ TypeOK /\ queue \in Seq(Items) /\ NoneTwice(queue) /\ queue # <<>>
      /\ queue' = Tail(queue) /\ worker[w].pc = "get"
      /\ UNCHANGED <<future, attempt, delayed, backoff, closed>>
  BY DEF IInv, TypeOK, Items, Take
<1>2. /\ item \in Items /\ queue' \in Seq(Items) /\ NoneTwice(queue') /\ In(queue, item)
      /\ \A x \in Requests : In(queue', x) <=> In(queue, x) /\ x # item
  BY <1>1, Taking
<1>3. \A x \in Requests : ~Holds(w, x)
  BY <1>1 DEF Holds
<1> HIDE DEF item
<1>4. ASSUME worker' \in [Workers -> WorkerState], early' \subseteq Requests
      PROVE  TypeOK'
  BY <1>1, <1>2, <1>4 DEF TypeOK, Items
<1>5. CASE item = Stop
  <2>1. worker' = [worker EXCEPT ![w] = [pc |-> "ended"]] /\ UNCHANGED early
    BY <1>5 DEF Take, item
  <2>2. [pc |-> "ended"] \in WorkerState
    BY DEF WorkerState
  <2>3. /\ worker' \in [Workers -> WorkerState]
        /\ \A x \in Requests : OneHolder(x)' /\ (Held(x)' <=> Held(x))
    BY <1>3, <2>1, <2>2, LetsGo
  <2>4. TypeOK'
    BY <1>1, <1>4, <2>1, <2>3 DEF TypeOK
  <2> QED
    BY <1>1, <1>2, <1>5, <2>3, <2>4, QueueConstants DEF IInv, Placed, Delayed
<1>6. CASE item # Stop /\ future[item] = "cancelled"
  <2>1. UNCHANGED <<worker, early>>
    BY <1>6 DEF Take, item
  <2>2. \A x \in Requests : OneHolder(x)' /\ (Held(x)' <=> Held(x))
    BY <2>1 DEF IInv, OneHolder, Held, Holds
  <2>3. TypeOK'
    BY <1>1, <1>4, <2>1 DEF TypeOK
  <2> QED
    BY <1>1, <1>2, <1>6, <2>2, <2>3 DEF IInv, Placed, Delayed
<1>7. CASE item # Stop /\ future[item] # "cancelled"
  <2>1. item \in Requests /\ ~Held(item)
    BY <1>2, <1>7 DEF Items, IInv, Placed
  <2>2. /\ \E s \in WorkerState :
             /\ worker' = [worker EXCEPT ![w] = s]
             /\ s.pc \in {"sleep", "acquire", "call"}
             /\ s.request = item
        /\ early' \subseteq Requests
    <3>1. CASE Enters(w, item)
      BY <1>1, <2>1, <3>1, Entering
    <3>2. CASE /\ worker' = [worker EXCEPT ![w] =
                    [pc |-> "sleep", request |-> item, left |-> backoff[HostOf[item]]]]
               /\ UNCHANGED early
      <4>1. backoff[HostOf[item]] \in 0..MaxDelay
        BY <1>1, <2>1, QueueConstants DEF TypeOK
      <4>2. [pc |-> "sleep", request |-> item, left |-> backoff[HostOf[item]]] \in WorkerState
        BY <2>1, <4>1 DEF WorkerState
      <4> QED
        BY <1>1, <3>2, <4>2 DEF TypeOK
    <3> QED
      BY <1>7, <3>1, <3>2 DEF Take, item
  <2>3. /\ worker' \in [Workers -> WorkerState]
        /\ \A x \in Requests : OneHolder(x)' /\ (Held(x)' <=> Held(x) \/ x = item)
    BY <1>1, <2>1, <2>2, TakesUp
  <2>4. TypeOK'
    BY <1>4, <2>2, <2>3
  <2>5. ASSUME NEW x \in Requests PROVE Placed(x)'
    <3>1. Placed(x) /\ (Delayed(x)' <=> Delayed(x)) /\ future'[x] = future[x]
      BY <1>1 DEF IInv, Delayed
    <3> QED
      BY <1>2, <2>1, <2>3, <3>1 DEF Placed
  <2> QED
    BY <1>2, <2>3, <2>4, <2>5 DEF IInv
<1> QED
  BY <1>5, <1>6, <1>7

LEMMA EnterStep == \A w \in Workers : IInv /\ (Wake(w) \/ AcquireSemaphore(w)) => IInv'
<1> SUFFICES ASSUME NEW w \in Workers, IInv, Wake(w) \/ AcquireSemaphore(w) PROVE IInv'
  OBVIOUS
<1> DEFINE r == worker[w].request
<1>1. /\ TypeOK /\ r \in Requests /\ Holds(w, r)
      /\ UNCHANGED <<queue, future, attempt, delayed, backoff, closed>>
  BY Busy DEF IInv, Wake, AcquireSemaphore
<1>2. /\ \E s \in WorkerState :
            /\ worker' = [worker EXCEPT ![w] = s]
            /\ s.pc \in {"acquire", "call"}
            /\ s.request = r
      /\ early' \subseteq Requests
  BY <1>1, Entering DEF Wake, AcquireSemaphore
<1>3. /\ worker' \in [Workers -> WorkerState]
      /\ \A v \in Workers, x \in Requests : v # w => (Holds(v, x)' <=> Holds(v, x))
      /\ \A x \in Requests : Holds(w, x)' <=> x = r
  BY <1>1, <1>2, WorkerMoves
<1>4. \A x \in Requests : Holds(w, x) <=> x = r
  BY <1>1 DEF Holds
<1>5. \A x \in Requests : OneHolder(x)' /\ (Held(x)' <=> Held(x))
  BY <1>3, <1>4, HoldsOn
<1>6. TypeOK'
  BY <1>1, <1>2, <1>3 DEF TypeOK
<1> QED
  BY <1>1, <1>5, <1>6 DEF IInv, Placed, Delayed, NoneTwice

\* The call of w has returned: w lets its request go and looks for another.
LEMMA AfterCallStep ==
  ASSUME IInv, NEW w \in Workers, worker[w].pc = "call",
         worker' = AfterCall(w, HostOf[worker[w].request])
  PROVE  /\ worker' \in [Workers -> WorkerState]
         /\ \A x \in Requests :
              OneHolder(x)' /\ (Held(x)' <=> Held(x) /\ x # worker[w].request)
         /\ worker[w].request \in Requests /\ HostOf[worker[w].request] \in Hosts
         /\ Held(worker[w].request)
<1>1. /\ TypeOK /\ worker[w].request \in Requests /\ Holds(w, worker[w].request)
      /\ HostOf[worker[w].request] \in Hosts
  BY Busy DEF IInv
<1>2. \A x \in Requests : Holds(w, x) <=> x = worker[w].request
  BY <1>1 DEF Holds
<1>3. worker' = [worker EXCEPT ![w] = Get] /\ Get \in WorkerState /\ Get.pc = "get"
  BY DEF AfterCall, Get, WorkerState
<1>4. /\ worker' \in [Workers -> WorkerState]
      /\ \A x \in Requests : OneHolder(x)' /\ (Held(x)' <=> Held(x) /\ ~Holds(w, x))
  BY <1>3, LetsGo
<1> QED
  BY <1>1, <1>2, <1>4 DEF Held

LEMMA FinishStep ==
  \A w \in Workers, outcome \in {"result", "error"} : IInv /\ Finish(w, outcome) => IInv'
<1> SUFFICES ASSUME NEW w \in Workers, NEW outcome \in {"result", "error"}, IInv,
                    Finish(w, outcome)
             PROVE  IInv'
  OBVIOUS
<1> DEFINE r == worker[w].request
<1>1. /\ TypeOK /\ worker[w].pc = "call" /\ worker' = AfterCall(w, HostOf[r])
      /\ UNCHANGED <<queue, attempt, delayed, backoff, closed, early>>
  BY DEF IInv, Finish
<1>2. /\ worker' \in [Workers -> WorkerState] /\ r \in Requests /\ Held(r)
      /\ \A x \in Requests : OneHolder(x)' /\ (Held(x)' <=> Held(x) /\ x # r)
  BY <1>1, AfterCallStep
<1>3. /\ future' \in [Requests -> {"none", "waiting"} \cup Settled]
      /\ \A x \in Requests : x # r => future'[x] = future[x]
      /\ future'[r] # "waiting"
      /\ future'[r] = "none" => future[r] = "none"
  BY <1>1, <1>2 DEF TypeOK, Finish, TrySet, Settled
<1>4. TypeOK'
  BY <1>1, <1>2, <1>3 DEF TypeOK
<1>5. ASSUME NEW x \in Requests PROVE Placed(x)'
  <2>1. Placed(x) /\ (Delayed(x)' <=> Delayed(x)) /\ (In(queue, x)' <=> In(queue, x))
    BY <1>1 DEF IInv, Delayed, In
  <2> QED
    BY <1>1, <1>2, <1>3, <2>1 DEF Placed
<1> QED
  BY <1>1, <1>2, <1>4, <1>5 DEF IInv, NoneTwice

LEMMA LimitedStep == \A w \in Workers, d \in 0..MaxDelay : IInv /\ Limited(w, d) => IInv'
<1> SUFFICES ASSUME NEW w \in Workers, NEW d \in 0..MaxDelay, IInv, Limited(w, d)
             PROVE  IInv'
  OBVIOUS
<1> DEFINE r == worker[w].request
<1>1. /\ TypeOK /\ worker[w].pc = "call" /\ worker' = AfterCall(w, HostOf[r])
      /\ attempt[r] < MaxLimited /\ attempt' = [attempt EXCEPT ![r] = @ + 1]
      /\ backoff' = [backoff EXCEPT ![HostOf[r]] = d]
      /\ delayed' = [delayed EXCEPT ![r] = d]
      /\ UNCHANGED <<queue, future, closed, early>>
  BY DEF IInv, Limited, RequeueLater
<1>2. /\ worker' \in [Workers -> WorkerState] /\ r \in Requests /\ HostOf[r] \in Hosts
      /\ Held(r)
      /\ \A x \in Requests : OneHolder(x)' /\ (Held(x)' <=> Held(x) /\ x # r)
  BY <1>1, AfterCallStep
<1> HIDE DEF r
<1>3. \A x \in Requests : Delayed(x)' <=> Delayed(x) \/ x = r
  BY <1>1, <1>2, QueueConstants DEF TypeOK, Delayed
<1>4. attempt' \in [Requests -> 0..MaxLimited]
  BY <1>1, <1>2, QueueConstants DEF TypeOK
<1>5. TypeOK'
  BY <1>1, <1>2, <1>4 DEF TypeOK
<1>6. ASSUME NEW x \in Requests PROVE Placed(x)'
  <2>1. Placed(x) /\ (In(queue, x)' <=> In(queue, x)) /\ future'[x] = future[x]
    BY <1>1 DEF IInv, In
  <2> QED
    BY <1>1, <1>2, <1>3, <2>1 DEF Placed
<1> QED
  BY <1>1, <1>2, <1>5, <1>6 DEF IInv, NoneTwice

LEMMA RequeueStep == \A r \in Requests : IInv /\ Requeue(r) => IInv'
<1> SUFFICES ASSUME NEW r \in Requests, IInv, Requeue(r) PROVE IInv'
  OBVIOUS
<1>1. /\ TypeOK /\ queue \in Seq(Items) /\ NoneTwice(queue)
      /\ delayed' = [delayed EXCEPT ![r] = None]
      /\ Delayed(r)
      /\ UNCHANGED <<future, attempt, worker, backoff, closed, early>>
  BY QueueConstants DEF IInv, TypeOK, Items, Requeue, Delayed
<1>2. /\ queue' \in Seq(Items) /\ NoneTwice(queue')
      /\ \A x \in Requests :
           In(queue', x) <=> In(queue, x) \/ (x = r /\ future[r] # "cancelled")
  <2>1. CASE future[r] = "cancelled"
    BY <1>1, <2>1 DEF Requeue
  <2>2. CASE future[r] # "cancelled"
    <3>1. ~In(queue, r) /\ queue' = Append(queue, r)
      BY <1>1, <2>2 DEF Requeue, IInv, Placed
    <3> QED
      BY <1>1, <2>2, <3>1, Appending
  <2> QED
    BY <2>1, <2>2
<1>3. \A x \in Requests : Delayed(x)' <=> Delayed(x) /\ x # r
  BY <1>1 DEF TypeOK, Delayed
<1>4. TypeOK'
  BY <1>1, <1>2 DEF TypeOK, Items
<1>5. \A x \in Requests : OneHolder(x)' /\ (Held(x)' <=> Held(x))
  BY <1>1 DEF IInv, OneHolder, Held, Holds
<1>6. ASSUME NEW x \in Requests PROVE Placed(x)'
  <2>1. Placed(x) /\ future'[x] = future[x]
    BY <1>1 DEF IInv
  <2> QED
    BY <1>1, <1>2, <1>3, <1>5, <2>1 DEF Placed
<1> QED
  BY <1>2, <1>4, <1>5, <1>6 DEF IInv

LEMMA TickStep == IInv /\ Tick => IInv'
<1> SUFFICES ASSUME IInv, Tick PROVE IInv'
  OBVIOUS
<1>1. /\ TypeOK
      /\ backoff' = [h \in Hosts |-> Less(backoff[h])]
      /\ delayed' = [r \in Requests |-> Less(delayed[r])]
      /\ UNCHANGED <<queue, future, attempt, closed, early>>
  BY DEF IInv, Tick
<1>2. /\ backoff' \in [Hosts -> 0..MaxDelay]
      /\ delayed' \in [Requests -> 0..MaxDelay \cup {None}]
      /\ \A x \in Requests : Delayed(x)' <=> Delayed(x)
  BY <1>1, Ticking DEF TypeOK, Delayed
<1>3. ASSUME NEW w \in Workers
      PROVE  worker'[w] \in WorkerState /\ \A x \in Requests : Holds(w, x)' <=> Holds(w, x)
  <2>1. worker[w] \in WorkerState
    BY <1>1 DEF TypeOK
  <2>2. CASE worker[w].pc = "sleep"
    <3>1. worker[w].left \in 0..MaxDelay /\ worker[w].request \in Requests
      BY <2>1, <2>2 DEF WorkerState
    <3>2. worker'[w] = [worker[w] EXCEPT !.left = Less(worker[w].left)]
      BY <2>2 DEF Tick
    <3>3. worker'[w] = [pc |-> "sleep", request |-> worker[w].request,
                        left |-> Less(worker[w].left)]
      BY <2>1, <2>2, <3>2 DEF WorkerState
    <3>4. Less(worker[w].left) \in 0..MaxDelay
      BY <3>1, Ticking
    <3> QED
      BY <2>2, <3>1, <3>3, <3>4 DEF WorkerState, Holds
  <2>3. CASE worker[w].pc # "sleep"
    BY <2>1, <2>3 DEF Tick, Holds
  <2> QED
    BY <2>2, <2>3
<1>4. worker' \in [Workers -> WorkerState]
  BY <1>3 DEF Tick
<1>5. \A x \in Requests : OneHolder(x)' /\ (Held(x)' <=> Held(x))
  BY <1>3, HoldsOn
<1>6. TypeOK'
  BY <1>1, <1>2, <1>4 DEF TypeOK
<1> QED
  BY <1>1, <1>2, <1>5, <1>6 DEF IInv, Placed, NoneTwice
-----------------------------------------------------------------------------
LEMMA InvInit == Init => IInv
<1> SUFFICES ASSUME Init PROVE IInv
  OBVIOUS
<1>1. queue \in Seq(Items) /\ attempt \in [Requests -> 0..MaxLimited]
  BY QueueConstants DEF Init
<1>2. worker \in [Workers -> WorkerState]
  BY DEF Init, WorkerState
<1>3. delayed \in [Requests -> 0..MaxDelay \cup {None}] /\ backoff \in [Hosts -> 0..MaxDelay]
  BY QueueConstants DEF Init
<1>4. TypeOK
  BY <1>1, <1>2, <1>3 DEF Init, TypeOK, Items
<1>5. \A r \in Requests : ~In(queue, r) /\ ~Held(r) /\ ~Delayed(r) /\ OneHolder(r)
  BY DEF Init, In, Held, Holds, Delayed, OneHolder
<1> QED
  BY <1>4, <1>5 DEF Init, IInv, NoneTwice, Placed

LEMMA InvStep == IInv /\ [Next]_vars => IInv'
<1> SUFFICES ASSUME IInv, [Next]_vars PROVE IInv'
  OBVIOUS
<1>1. CASE UNCHANGED vars
  BY <1>1 DEF vars, IInv, TypeOK, NoneTwice, OneHolder, Placed, In, Held, Holds, Delayed
<1>2. ASSUME NEW w \in Workers, WorkerStep(w) PROVE IInv'
  BY <1>2, TakeStep, EnterStep, FinishStep, LimitedStep DEF WorkerStep, Answer
<1> QED
  BY <1>1, <1>2, StartStep, EnqueueStep, CancelStep, CloseStep, RequeueStep, TickStep DEF Next

THEOREM Invariance == Spec => []IInv
  BY InvInit, InvStep, PTL DEF Spec

(***************************************************************************)
(* The variables keep their types.                                         *)
(***************************************************************************)
THEOREM TypeCorrect == Spec => []TypeOK
<1>1. IInv => TypeOK
  BY DEF IInv
<1> QED
  BY <1>1, Invariance, PTL

LEMMA AtMostOne ==
  ASSUME NEW S, \A x, y \in S : x = y
  PROVE  Cardinality(S) = IF S = {} THEN 0 ELSE 1
<1>1. CASE S = {}
  BY <1>1, FS_EmptySet
<1>2. CASE S # {}
  <2>1. PICK x \in S : S = {x}
    BY <1>2
  <2> QED
    BY <2>1, FS_Singleton
<1> QED
  BY <1>1, <1>2

(***************************************************************************)
(* No interleaving of backoff, cancellation and close loses a request that *)
(* is waited for, or has it in two places, to be called twice.             *)
(***************************************************************************)
THEOREM NothingLostOrDoubled == Spec => []InOnePlace
<1>1. IInv => InOnePlace
  <2> SUFFICES ASSUME IInv, NEW r \in Requests
               PROVE  Copies(r) <= 1 /\ (future[r] = "waiting" => Copies(r) = 1)
    BY DEF InOnePlace
  <2> DEFINE Q == {i \in DOMAIN queue : queue[i] = r}
             W == {w \in Workers : worker[w].pc \in {"sleep", "acquire", "call"}
                                     /\ worker[w].request = r}
             D == IF delayed[r] = None THEN 0 ELSE 1
  <2>1. DOMAIN queue = 1..Len(queue)
    BY DEF IInv, TypeOK
  <2>2. Cardinality(Q) = IF In(queue, r) THEN 1 ELSE 0
    <3>1. \A i, j \in Q : i = j
      BY <2>1 DEF IInv, NoneTwice
    <3>2. Q = {} <=> ~In(queue, r)
      BY <2>1 DEF In
    <3> HIDE DEF Q
    <3> QED
      BY <3>1, <3>2, AtMostOne
  <2>3. Cardinality(W) = IF Held(r) THEN 1 ELSE 0
    <3>1. \A w, v \in W : w = v
      BY DEF IInv, OneHolder, Holds
    <3>2. W = {} <=> ~Held(r)
      BY DEF Held, Holds
    <3> HIDE DEF W
    <3> QED
      BY <3>1, <3>2, AtMostOne
  <2>4. D = IF Delayed(r) THEN 1 ELSE 0
    BY DEF Delayed
  <2>5. Copies(r) = Cardinality(Q) + Cardinality(W) + D
    BY DEF Copies
  <2>6. Placed(r)
    BY DEF IInv
  <2> HIDE DEF Q, W, D
  <2> QED
    BY <2>2, <2>3, <2>4, <2>5, <2>6 DEF Placed
<1> QED
  BY <1>1, Invariance, PTL
=============================================================================
