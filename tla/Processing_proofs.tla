-------------------------- MODULE Processing_proofs --------------------------
(***************************************************************************)
(* Safety of Processing for any number of events, providers, workers and   *)
(* deliveries.                                                             *)
(***************************************************************************)
EXTENDS Processing, TLAPS

\* The result of an event is stored, and it is v.
Stored(e, v) == results[e].state # "absent" /\ results[e].envelope = v

\* The message of a delivery that is not over can be delivered no more often
\* than the queue allows.
DeliveriesLeft ==
    \A e \in Events : message[e].state = "queued" => message[e].deliveries < MaxDelivery

(***************************************************************************)
(* What w has gathered for its event: the recorded and marked answer of    *)
(* each provider of the route that is not left to do, and nothing else.    *)
(***************************************************************************)
Gathered(w) ==
    LET e == worker[w].event  done == ToSet(Route[e]) \ ToSet(worker[w].todo) IN
    \A p \in Providers :
        /\ p \in done =>
              checkpoints[<<e, p>>] = [state |-> "sent", envelope |-> worker[w].output[p]]
        /\ p \notin ToSet(Route[e]) => worker[w].output[p] = 0

Analysing(w) ==
    /\ worker[w].pc \in {"get", "lookup", "call", "checkpoint", "settle", "stage"}
    /\ worker[w].event \notin Callbacks

(***************************************************************************)
(* What a worker knows at each of its steps.                               *)
(***************************************************************************)
WorkerKnows(w) ==
    LET e == worker[w].event  todo == worker[w].todo IN
    /\ worker[w].pc # "idle" => worker[w].knew \subseteq Recorded(e)
    /\ Analysing(w) => Gathered(w) /\ ToSet(todo) \subseteq ToSet(Route[e])
    /\ worker[w].pc \in {"lookup", "call", "checkpoint", "settle"} =>
          todo # <<>> /\ e \notin Callbacks
    /\ worker[w].pc = "retrieve" => e \in Callbacks
    /\ worker[w].pc \in {"call", "checkpoint"} => Head(todo) \notin worker[w].knew
    /\ worker[w].pc = "settle" => IsRecorded(e, Head(todo))
    /\ worker[w].pc = "stage" /\ e \notin Callbacks => todo = <<>>
    /\ worker[w].pc = "reread" => results[e].state # "absent"
    /\ worker[w].pc \in {"publish", "mark"} => Stored(e, worker[w].output)
    /\ worker[w].pc = "mark" => PublicOf(e) \in published

TimerKnows ==
    /\ timer.pc # "idle" => \A r \in timer.page : Stored(r.event, r.output)
    /\ timer.pc = "mark" =>
          timer.current \in published /\ Stored(timer.current.event, timer.current.output)

IInv ==
    /\ TypeOK
    /\ DeliveriesLeft
    /\ ResultsAgree
    /\ ResultsAreRecorded
    /\ NothingForgotten
    /\ \A w \in Workers : WorkerKnows(w)
    /\ TimerKnows
-----------------------------------------------------------------------------
(***************************************************************************)
(* The queue's operations on a message.                                    *)
(***************************************************************************)
MessageOK(m) == m \in MessageState /\ (m.state = "queued" => m.deliveries < MaxDelivery)

LEMMA QueueOperations ==
  ASSUME NEW m, MessageOK(m), NEW w \in Workers
  PROVE  /\ m.state = "queued" => MessageOK(Locked(m, w)) /\ Locked(m, w).deliveries \in Answers
         /\ MessageOK(GivenBack(m))
         /\ MessageOK(Completed(m, w))
         /\ MessageOK(Abandoned(m, w))
         /\ Locked(m, w).state # "done"
         /\ m.state # "done" => GivenBack(m).state # "done"
         /\ Completed(m, w).state = "done" => m.state \in {"done", "locked"}
         /\ Abandoned(m, w).state = "done" => m.state = "done"
<1> USE ProcessingConstants
<1>1. m.state = "queued" => MessageOK(Locked(m, w)) /\ Locked(m, w).deliveries \in Answers
  BY DEF MessageOK, MessageState, Locked, Answers
<1>2. MessageOK(GivenBack(m))
  BY DEF MessageOK, MessageState, GivenBack
<1>3. /\ MessageOK(Completed(m, w))
      /\ Completed(m, w).state = "done" => m.state \in {"done", "locked"}
  BY DEF MessageOK, MessageState, Completed, IsHeldBy
<1>4. MessageOK(Abandoned(m, w))
  BY <1>2 DEF Abandoned
<1>5. Locked(m, w).state # "done" /\ GivenBack(m).state # "done"
  BY DEF MessageOK, MessageState, Locked, GivenBack
<1>6. Abandoned(m, w).state = "done" => m.state = "done"
  BY <1>5 DEF Abandoned
<1> QED
  BY <1>1, <1>2, <1>3, <1>4, <1>5, <1>6

(***************************************************************************)
(* The requests to the two tables.                                         *)
(***************************************************************************)
LEMMA ResultRequests ==
  ASSUME results \in [Events -> R!Row], NEW e \in Events, NEW v \in Outputs
  PROVE  /\ R!CreateEntity(results, e, v) \in [Events -> R!Row]
         /\ R!MarkSent(results, e) \in [Events -> R!Row]
         /\ \A f \in Events :
              /\ f # e => R!CreateEntity(results, e, v)[f] = results[f]
              /\ f # e => R!MarkSent(results, e)[f] = results[f]
         /\ results[e].state # "absent" =>
              /\ R!CreateEntity(results, e, v)[e] = results[e]
              /\ R!MarkSent(results, e)[e] = [state |-> "sent", envelope |-> results[e].envelope]
         /\ results[e].state = "absent" =>
              /\ R!CreateEntity(results, e, v)[e] = [state |-> "pending", envelope |-> v]
              /\ R!MarkSent(results, e)[e] = results[e]
  BY DEF R!CreateEntity, R!MarkSent, R!Row

LEMMA CheckpointRequests ==
  ASSUME checkpoints \in [Events \X Providers -> C!Row],
         NEW k \in Events \X Providers, NEW a \in Answers
  PROVE  /\ C!CreateEntity(checkpoints, k, a) \in [Events \X Providers -> C!Row]
         /\ C!MarkSent(checkpoints, k) \in [Events \X Providers -> C!Row]
         /\ \A l \in Events \X Providers :
              /\ l # k => C!CreateEntity(checkpoints, k, a)[l] = checkpoints[l]
              /\ l # k => C!MarkSent(checkpoints, k)[l] = checkpoints[l]
         /\ checkpoints[k].state # "absent" =>
              /\ C!CreateEntity(checkpoints, k, a)[k] = checkpoints[k]
              /\ C!MarkSent(checkpoints, k)[k]
                   = [state |-> "sent", envelope |-> checkpoints[k].envelope]
         /\ checkpoints[k].state = "absent" =>
              /\ C!CreateEntity(checkpoints, k, a)[k] = [state |-> "pending", envelope |-> a]
              /\ C!MarkSent(checkpoints, k)[k] = checkpoints[k]
  BY DEF C!CreateEntity, C!MarkSent, C!Row

LEMMA HeadAndTail ==
  ASSUME NEW S, NEW s \in Seq(S), s # <<>>
  PROVE  ToSet(s) = {Head(s)} \cup ToSet(Tail(s))
<1>1. /\ Head(s) = s[1]
      /\ Len(s) \in Nat \ {0}
      /\ Len(Tail(s)) = Len(s) - 1
      /\ \A i \in 1..Len(s) - 1 : Tail(s)[i] = s[i + 1]
      /\ DOMAIN s = 1..Len(s)
      /\ DOMAIN Tail(s) = 1..Len(s) - 1
  OBVIOUS
<1>2. ASSUME NEW i \in 1..Len(s)
      PROVE  s[i] \in {Head(s)} \cup ToSet(Tail(s))
  <2>1. CASE i = 1
    BY <1>1, <2>1
  <2>2. CASE i # 1
    <3>1. i - 1 \in 1..Len(s) - 1 /\ Tail(s)[i - 1] = s[i]
      BY <1>1, <2>2
    <3> QED
      BY <1>1, <3>1 DEF ToSet
  <2> QED
    BY <2>1, <2>2
<1>3. ASSUME NEW i \in 1..Len(s) - 1
      PROVE  Tail(s)[i] \in ToSet(s)
  <2>1. i + 1 \in 1..Len(s)
    BY <1>1
  <2> QED
    BY <1>1, <2>1 DEF ToSet
<1> QED
  BY <1>1, <1>2, <1>3 DEF ToSet

(***************************************************************************)
(* A worker that is not idle is working on an event.                       *)
(***************************************************************************)
LEMMA Working ==
  ASSUME TypeOK, NEW w \in Workers, worker[w].pc # "idle"
  PROVE  /\ worker[w] \in WorkerState
         /\ worker[w].event \in Events
         /\ worker[w].delivery \in Answers
         /\ worker[w].todo \in Seq(Providers)
         /\ worker[w].output \in Outputs
         /\ worker[w].knew \subseteq Providers
         /\ worker[w].todo # <<>> =>
              /\ Head(worker[w].todo) \in Providers
              /\ Tail(worker[w].todo) \in Seq(Providers)
              /\ CheckpointId(w) \in Events \X Providers
              /\ ToSet(worker[w].todo)
                   = {Head(worker[w].todo)} \cup ToSet(Tail(worker[w].todo))
<1>1. worker[w] \in WorkerState
  BY DEF TypeOK
<1>2. /\ worker[w].event \in Events
      /\ worker[w].delivery \in Answers
      /\ worker[w].todo \in Seq(Providers)
      /\ worker[w].output \in Outputs
      /\ worker[w].knew \subseteq Providers
  BY <1>1 DEF WorkerState
<1>3. ASSUME worker[w].todo # <<>>
      PROVE  /\ Head(worker[w].todo) \in Providers
             /\ Tail(worker[w].todo) \in Seq(Providers)
             /\ CheckpointId(w) \in Events \X Providers
  BY <1>2, <1>3 DEF CheckpointId
<1>4. worker[w].todo # <<>> =>
        ToSet(worker[w].todo) = {Head(worker[w].todo)} \cup ToSet(Tail(worker[w].todo))
  BY <1>2, HeadAndTail
<1> QED
  BY <1>1, <1>2, <1>3, <1>4

(***************************************************************************)
(* Every step keeps the variables typed, and messages within their         *)
(* deliveries.                                                             *)
(***************************************************************************)
LEMMA MessageStep == TypeOK /\ DeliveriesLeft /\ [Next]_vars
                       => message' \in [Events -> MessageState] /\ DeliveriesLeft'
<1> SUFFICES ASSUME TypeOK, DeliveriesLeft, [Next]_vars
             PROVE  message' \in [Events -> MessageState] /\ DeliveriesLeft'
  OBVIOUS
<1>1. message \in [Events -> MessageState] /\ \A e \in Events : MessageOK(message[e])
  BY DEF TypeOK, DeliveriesLeft, MessageOK
<1>2. ASSUME NEW e \in Events, NEW m, MessageOK(m), message' = [message EXCEPT ![e] = m]
      PROVE  message' \in [Events -> MessageState] /\ DeliveriesLeft'
  BY <1>1, <1>2 DEF DeliveriesLeft, MessageOK
<1>3. ASSUME NEW w \in Workers, NEW e \in Events, Deliver(w, e)
      PROVE  message' \in [Events -> MessageState] /\ DeliveriesLeft'
  BY <1>1, <1>2, <1>3, QueueOperations DEF Deliver
<1>4. ASSUME NEW e \in Events, LoseLock(e)
      PROVE  message' \in [Events -> MessageState] /\ DeliveriesLeft'
  <2>1. CASE Workers = {}
    BY <1>1, <1>2, <1>4, <2>1 DEF LoseLock, GivenBack, MessageOK, MessageState
  <2>2. CASE Workers # {}
    BY <1>1, <1>2, <1>4, <2>2, QueueOperations DEF LoseLock
  <2> QED
    BY <2>1, <2>2
<1>5. ASSUME NEW w \in Workers, worker[w].pc # "idle", Return(w)
      PROVE  message' \in [Events -> MessageState] /\ DeliveriesLeft'
  <2>1. worker[w].event \in Events
    BY <1>5, Working
  <2>2. MessageOK(Completed(message[worker[w].event], w))
    BY <1>1, <2>1, QueueOperations
  <2> QED
    BY <1>2, <1>5, <2>1, <2>2 DEF Return
<1>6. ASSUME NEW w \in Workers, Raise(w)
      PROVE  message' \in [Events -> MessageState] /\ DeliveriesLeft'
  <2>1. worker[w].event \in Events
    BY <1>6, Working DEF Raise
  <2>2. MessageOK(Abandoned(message[worker[w].event], w))
    BY <1>1, <2>1, QueueOperations
  <2> QED
    BY <1>2, <1>6, <2>1, <2>2 DEF Raise, Interrupted
<1>7. CASE UNCHANGED message
  BY <1>1, <1>7 DEF DeliveriesLeft, MessageOK
<1> QED
  BY <1>3, <1>4, <1>5, <1>6, <1>7
     DEF Next, vars, WorkerStep, WorkerFault, TimerStep, GetResult, Retrieve, Lookup, Call,
         Checkpoint, Settle, Stage, Reread, Publish, Mark, Defer, Crash, TimerList,
         TimerPublish, TimerMark, TimerSkip, TimerEnd

LEMMA WorkerTypeStep ==
  ASSUME TypeOK, DeliveriesLeft, \A w \in Workers : WorkerKnows(w), [Next]_vars
  PROVE  worker' \in [Workers -> WorkerState]
<1>1. worker \in [Workers -> WorkerState]
  BY DEF TypeOK
<1>2. ASSUME NEW w \in Workers, NEW s \in WorkerState, worker' = [worker EXCEPT ![w] = s]
      PROVE  worker' \in [Workers -> WorkerState]
  BY <1>1, <1>2
<1>3. ASSUME NEW w \in Workers, NEW e \in Events, Deliver(w, e)
      PROVE  worker' \in [Workers -> WorkerState]
  <2>1. message'[e].deliveries \in Answers
    BY <1>3, QueueOperations DEF Deliver, TypeOK, DeliveriesLeft, MessageOK
  <2>2. Route[e] \in Seq(Providers) /\ NoOutput \in Outputs /\ Recorded(e) \subseteq Providers
    BY ProcessingConstants DEF NoOutput, Outputs, Recorded
  <2> QED
    BY <1>2, <1>3, <2>1, <2>2 DEF Deliver, WorkerState
<1>4. ASSUME NEW w \in Workers, Return(w) \/ Raise(w) \/ Crash(w)
      PROVE  worker' \in [Workers -> WorkerState]
  BY <1>2, <1>4 DEF Return, Raise, Crash, Idle, WorkerState
<1>5. ASSUME NEW w \in Workers, worker[w].pc # "idle", NEW rest \in Seq(Providers),
             NEW out \in Outputs,
             worker' = [worker EXCEPT ![w] = Continue([@ EXCEPT !.output = out], rest)]
      PROVE  worker' \in [Workers -> WorkerState]
  <2>1. Continue([worker[w] EXCEPT !.output = out], rest) \in WorkerState
    BY <1>5, Working DEF Continue, WorkerState
  <2> QED
    BY <1>2, <1>5, <2>1
<1>6. ASSUME NEW w \in Workers, worker[w].pc # "idle", NEW out \in Outputs,
             NEW pc \in {"retrieve", "settle", "call", "checkpoint", "stage", "reread",
                        "publish", "mark"},
             worker' = [worker EXCEPT ![w].pc = pc, ![w].output = out]
      PROVE  worker' \in [Workers -> WorkerState]
  <2>1. [worker[w] EXCEPT !.pc = pc, !.output = out] \in WorkerState
    BY <1>6, Working DEF WorkerState
  <2> QED
    BY <1>1, <1>6, <2>1
<1>7. ASSUME NEW w \in Workers, worker[w].pc # "idle",
             NEW pc \in {"retrieve", "settle", "call", "checkpoint", "stage", "reread",
                        "publish", "mark"},
             worker' = [worker EXCEPT ![w].pc = pc]
      PROVE  worker' \in [Workers -> WorkerState]
  <2>1. [worker[w] EXCEPT !.pc = pc] \in WorkerState
    BY <1>7, Working DEF WorkerState
  <2> QED
    BY <1>1, <1>7, <2>1
<1>8. ASSUME NEW w \in Workers, GetResult(w)
      PROVE  worker' \in [Workers -> WorkerState]
  <2>1. worker[w].pc # "idle" /\ worker[w] \in WorkerState /\ worker[w].event \in Events
    BY <1>8, Working DEF GetResult
  <2>2. CASE worker' = [worker EXCEPT ![w].pc = "retrieve"]
    BY <1>7, <2>1, <2>2
  <2>3. CASE worker' = [worker EXCEPT ![w] = Continue(@, @.todo)]
    <3>1. worker[w].todo \in Seq(Providers)
      BY <2>1, Working
    <3>2. Continue(worker[w], worker[w].todo) \in WorkerState
      BY <2>1, <3>1, Working DEF Continue, WorkerState
    <3> QED
      BY <1>2, <2>3, <3>2
  <2>4. CASE results[worker[w].event].state = "pending"
    <3>1. results[worker[w].event].envelope \in Outputs
      BY <2>1, <2>4 DEF TypeOK, R!Row
    <3> QED
      BY <1>6, <1>8, <2>1, <2>4, <3>1 DEF GetResult, DispatchStart
  <2>5. CASE Return(w)
    BY <1>4, <2>5
  <2> QED
    BY <1>8, <2>2, <2>3, <2>4, <2>5 DEF GetResult
<1>9. ASSUME NEW w \in Workers, Retrieve(w)
      PROVE  worker' \in [Workers -> WorkerState]
  <2>1. worker[w].pc # "idle" /\ worker[w].output \in Outputs /\ worker[w].delivery \in Answers
    BY <1>9, Working DEF Retrieve
  <2>2. [worker[w].output EXCEPT ![Retriever] = worker[w].delivery] \in Outputs
    BY <2>1, ProcessingConstants DEF Outputs, Answers
  <2>3. worker' = [worker EXCEPT ![w].pc = "stage",
                     ![w].output = [worker[w].output EXCEPT ![Retriever] = worker[w].delivery]]
    BY <1>1, <1>9 DEF Retrieve
  <2> QED
    BY <1>6, <2>1, <2>2, <2>3
<1>10. ASSUME NEW w \in Workers, Lookup(w) \/ Call(w) \/ Checkpoint(w)
       PROVE  worker' \in [Workers -> WorkerState]
  BY <1>7, <1>10 DEF Lookup, Call, Checkpoint
<1>11. ASSUME NEW w \in Workers, Settle(w)
       PROVE  worker' \in [Workers -> WorkerState]
  <2>1. /\ worker[w].pc # "idle"
        /\ worker[w].todo # <<>>
        /\ IsRecorded(worker[w].event, Head(worker[w].todo))
    BY <1>11 DEF Settle, WorkerKnows
  <2>2. /\ Tail(worker[w].todo) \in Seq(Providers)
        /\ worker[w].output \in Outputs
        /\ CheckpointId(w) \in Events \X Providers
    BY <2>1, Working
  <2>3. RecordedAnswer(w) \in Answers
    BY <2>1, <2>2 DEF IsRecorded, RecordedAnswer, CheckpointId, TypeOK, C!Row
  <2>4. [worker[w].output EXCEPT ![Head(worker[w].todo)] = RecordedAnswer(w)] \in Outputs
    BY <2>2, <2>3 DEF Outputs, Answers
  <2>5. worker[w] \in WorkerState
    BY <2>1, Working
  <2>6. [worker[w] EXCEPT !.output[Head(worker[w].todo)] = RecordedAnswer(w)]
          = [worker[w] EXCEPT !.output =
               [worker[w].output EXCEPT ![Head(worker[w].todo)] = RecordedAnswer(w)]]
    OBVIOUS
  <2> QED
    BY <1>5, <1>11, <2>1, <2>2, <2>4, <2>6 DEF Settle
<1>12. ASSUME NEW w \in Workers, Stage(w) \/ Publish(w)
       PROVE  worker' \in [Workers -> WorkerState]
  BY <1>7, <1>12 DEF Stage, Publish
<1>13. ASSUME NEW w \in Workers, Reread(w)
       PROVE  worker' \in [Workers -> WorkerState]
  <2>1. worker[w].pc # "idle" /\ worker[w].event \in Events
    BY <1>13, Working DEF Reread
  <2>2. CASE results[worker[w].event].state = "pending"
    <3>1. results[worker[w].event].envelope \in Outputs
      BY <2>1, <2>2 DEF TypeOK, R!Row
    <3> QED
      BY <1>6, <1>13, <2>1, <2>2, <3>1 DEF Reread, DispatchStart, StoredOutput
  <2> QED
    BY <1>4, <1>13, <2>2 DEF Reread
<1>14. CASE UNCHANGED worker
  BY <1>1, <1>14
<1> QED
  BY <1>3, <1>4, <1>8, <1>9, <1>10, <1>11, <1>12, <1>13, <1>14
     DEF Next, vars, WorkerStep, WorkerFault, TimerStep, Mark, Defer, LoseLock, TimerList,
         TimerPublish, TimerMark, TimerSkip, TimerEnd

(***************************************************************************)
(* All that a step does to the tables is one request to one of them.       *)
(***************************************************************************)
CheckpointRequest ==
    \/ UNCHANGED checkpoints
    \/ \E k \in Events \X Providers, a \in Answers :
          checkpoints' = C!CreateEntity(checkpoints, k, a)
    \/ \E k \in Events \X Providers : checkpoints' = C!MarkSent(checkpoints, k)

ResultRequest ==
    \/ UNCHANGED results
    \/ \E e \in Events, v \in Outputs : results' = R!CreateEntity(results, e, v)
    \/ \E e \in Events : results' = R!MarkSent(results, e)

LEMMA TableSteps ==
  ASSUME TypeOK, \A w \in Workers : WorkerKnows(w), [Next]_vars
  PROVE  CheckpointRequest /\ ResultRequest
<1>1. ASSUME NEW w \in Workers, Checkpoint(w)
      PROVE  CheckpointRequest
  <2>1. CheckpointId(w) \in Events \X Providers /\ worker[w].delivery \in Answers
    BY <1>1, Working DEF Checkpoint, WorkerKnows
  <2> QED
    BY <1>1, <2>1 DEF Checkpoint, CheckpointRequest
<1>2. ASSUME NEW w \in Workers, Settle(w)
      PROVE  CheckpointRequest
  <2>1. CheckpointId(w) \in Events \X Providers
    BY <1>2, Working DEF Settle, WorkerKnows
  <2> QED
    BY <1>2, <2>1 DEF Settle, CheckpointRequest
<1>3. ASSUME NEW w \in Workers, Stage(w) \/ Mark(w)
      PROVE  ResultRequest
  <2>1. worker[w].event \in Events /\ worker[w].output \in Outputs
    BY <1>3, Working DEF Stage, Mark
  <2> QED
    BY <1>3, <2>1 DEF Stage, Mark, ResultRequest
<1>4. ASSUME TimerMark
      PROVE  ResultRequest
  <2>1. timer.current.event \in Events
    BY <1>4 DEF TimerMark, TypeOK, TimerState, Public
  <2> QED
    BY <1>4, <2>1 DEF TimerMark, ResultRequest
<1>5. CheckpointRequest
  <2> USE DEF CheckpointRequest
  <2> QED
    BY <1>1, <1>2
       DEF Next, vars, WorkerStep, WorkerFault, TimerStep, Deliver, LoseLock, GetResult,
           Retrieve, Lookup, Call, Stage, Reread, Publish, Mark, Defer, Raise, Crash, TimerList,
           TimerPublish, TimerMark, TimerSkip, TimerEnd
<1>6. ResultRequest
  <2> USE DEF ResultRequest
  <2> QED
    BY <1>3, <1>4
       DEF Next, vars, WorkerStep, WorkerFault, TimerStep, Deliver, LoseLock, GetResult,
           Retrieve, Lookup, Call, Checkpoint, Settle, Reread, Publish, Defer, Raise, Crash,
           TimerList, TimerPublish, TimerSkip, TimerEnd
<1> QED
  BY <1>5, <1>6

LEMMA TableTypeStep ==
  ASSUME TypeOK, CheckpointRequest, ResultRequest
  PROVE  /\ checkpoints' \in [Events \X Providers -> C!Row]
         /\ results' \in [Events -> R!Row]
<1>1. checkpoints \in [Events \X Providers -> C!Row] /\ results \in [Events -> R!Row]
  BY DEF TypeOK
<1>2. Answers # {} /\ Outputs # {}
  <2>1. 1 \in Answers /\ NoOutput \in Outputs
    BY ProcessingConstants DEF Answers, Outputs, NoOutput
  <2> QED
    BY <2>1
<1>3. checkpoints' \in [Events \X Providers -> C!Row]
  <2>1. ASSUME NEW k \in Events \X Providers, NEW a \in Answers
        PROVE  /\ C!CreateEntity(checkpoints, k, a) \in [Events \X Providers -> C!Row]
               /\ C!MarkSent(checkpoints, k) \in [Events \X Providers -> C!Row]
    BY <1>1, CheckpointRequests
  <2> QED
    BY <1>1, <1>2, <2>1 DEF CheckpointRequest
<1>4. results' \in [Events -> R!Row]
  <2>1. ASSUME NEW e \in Events, NEW v \in Outputs
        PROVE  /\ R!CreateEntity(results, e, v) \in [Events -> R!Row]
               /\ R!MarkSent(results, e) \in [Events -> R!Row]
    BY <1>1, ResultRequests
  <2> QED
    BY <1>1, <1>2, <2>1 DEF ResultRequest
<1> QED
  BY <1>3, <1>4

\* A stored result is a public one.
LEMMA StoredIsPublic ==
  ASSUME TypeOK, NEW e \in Events, results[e].state # "absent"
  PROVE  PublicOf(e) \in Public /\ Stored(e, PublicOf(e).output)
  BY DEF TypeOK, R!Row, PublicOf, Public, Stored

LEMMA TimerTypeStep ==
  ASSUME TypeOK, \A w \in Workers : WorkerKnows(w), [Next]_vars
  PROVE  /\ timer' \in TimerState
         /\ published' \subseteq Public
<1>2. timer \in TimerState /\ published \subseteq Public
  BY DEF TypeOK
<1>3. ASSUME NEW w \in Workers, Publish(w)
      PROVE  published' \subseteq Public
  <2>1. worker[w].event \in Events /\ worker[w].output \in Outputs
    BY <1>3, Working DEF Publish
  <2> QED
    BY <1>2, <1>3, <2>1 DEF Publish, Public
<1>4. ASSUME TimerList
      PROVE  timer' \in TimerState
  <2>1. \A e \in R!PendingPage(results, RowRank, Room) :
          e \in Events /\ PublicOf(e) \in Public
    BY StoredIsPublic DEF R!PendingPage, R!PendingKeys
  <2> QED
    BY <1>4, <2>1 DEF TimerList, TimerState
<1>5. ASSUME NEW e \in Events, TimerPublish(PublicOf(e))
      PROVE  timer' \in TimerState /\ published' \subseteq Public
  <2>1. timer.page \subseteq Public /\ PublicOf(e) \in timer.page
    BY <1>2, <1>5 DEF TimerPublish, TimerState
  <2> QED
    BY <1>2, <1>5, <2>1 DEF TimerPublish, TimerState
<1>6. ASSUME TimerMark \/ TimerEnd
      PROVE  timer' \in TimerState
  BY <1>2, <1>6 DEF TimerMark, TimerEnd, TimerState, Idle
<1>7. ASSUME TimerSkip
      PROVE  timer' \in TimerState
  <2>1. CASE timer.pc = "mark"
    BY <1>2, <1>7, <2>1 DEF TimerSkip, TimerState
  <2>2. CASE timer.pc = "loop"
    <3>1. PICK r \in timer.page : timer' = [timer EXCEPT !.page = @ \ {r}]
      BY <1>7, <2>2 DEF TimerSkip
    <3> QED
      BY <1>2, <2>2, <3>1 DEF TimerState
  <2> QED
    BY <1>7, <2>1, <2>2 DEF TimerSkip
<1>8. timer' \in TimerState
  BY <1>2, <1>4, <1>5, <1>6, <1>7
     DEF Next, vars, WorkerStep, WorkerFault, TimerStep, Deliver, LoseLock, GetResult,
         Retrieve, Lookup, Call, Checkpoint, Settle, Stage, Reread, Publish, Mark, Defer,
         Raise, Crash
<1>9. published' \subseteq Public
  BY <1>2, <1>3, <1>5
     DEF Next, vars, WorkerStep, WorkerFault, TimerStep, Deliver, LoseLock, GetResult,
         Retrieve, Lookup, Call, Checkpoint, Settle, Stage, Reread, Mark, Defer, Raise,
         Crash, TimerMark, TimerEnd, TimerSkip, TimerList
<1> QED
  BY <1>8, <1>9

LEMMA TypeStep ==
  ASSUME IInv, [Next]_vars
  PROVE  TypeOK' /\ DeliveriesLeft'
<1>1. TypeOK /\ DeliveriesLeft /\ \A w \in Workers : WorkerKnows(w)
  BY DEF IInv
<1>2. message' \in [Events -> MessageState] /\ DeliveriesLeft'
  BY <1>1, MessageStep
<1>3. worker' \in [Workers -> WorkerState]
  BY <1>1, WorkerTypeStep
<1> QED
  BY <1>1, <1>2, <1>3, TableSteps, TableTypeStep, TimerTypeStep DEF TypeOK
-----------------------------------------------------------------------------
(***************************************************************************)
(* What no step takes away: what is published, a stored result and its     *)
(* mark, a recorded answer and its mark.                                   *)
(***************************************************************************)
Kept ==
    /\ published \subseteq published'
    /\ \A e \in Events :
         /\ results[e].state # "absent" =>
              results'[e].state # "absent" /\ results'[e].envelope = results[e].envelope
         /\ results[e].state = "sent" => results'[e].state = "sent"
    /\ \A k \in Events \X Providers :
         /\ checkpoints[k].state # "absent" => checkpoints'[k].state # "absent"
         /\ checkpoints[k].state = "sent" => checkpoints'[k] = checkpoints[k]

LEMMA StepKeeps ==
  ASSUME TypeOK, CheckpointRequest, ResultRequest, [Next]_vars
  PROVE  Kept
<1>1. checkpoints \in [Events \X Providers -> C!Row] /\ results \in [Events -> R!Row]
  BY DEF TypeOK
<1>2. published \subseteq published'
  BY DEF Next, vars, WorkerStep, WorkerFault, TimerStep, Deliver, LoseLock, GetResult,
         Retrieve, Lookup, Call, Checkpoint, Settle, Stage, Reread, Publish, Mark, Defer,
         Raise, Crash, TimerList, TimerPublish, TimerMark, TimerSkip, TimerEnd
<1>3. ASSUME NEW k \in Events \X Providers
      PROVE  /\ checkpoints[k].state # "absent" => checkpoints'[k].state # "absent"
             /\ checkpoints[k].state = "sent" => checkpoints'[k] = checkpoints[k]
  BY <1>1 DEF CheckpointRequest, C!CreateEntity, C!MarkSent, C!Row
<1>4. ASSUME NEW e \in Events
      PROVE  /\ results[e].state # "absent" =>
                  results'[e].state # "absent" /\ results'[e].envelope = results[e].envelope
             /\ results[e].state = "sent" => results'[e].state = "sent"
  BY <1>1 DEF ResultRequest, R!CreateEntity, R!MarkSent, R!Row
<1> QED
  BY <1>2, <1>3, <1>4 DEF Kept

(***************************************************************************)
(* What a worker knows stays true while it does not move.                  *)
(***************************************************************************)
LEMMA KnowledgeLasts ==
  ASSUME TypeOK, Kept, NEW w \in Workers, WorkerKnows(w), worker'[w] = worker[w]
  PROVE  WorkerKnows(w)'
<1>1. CASE worker[w].pc = "idle"
  BY <1>1 DEF WorkerKnows, Analysing
<1>2. CASE worker[w].pc # "idle"
  <2>1. /\ worker[w].event \in Events
        /\ worker[w].knew \subseteq Providers
        /\ worker[w].todo # <<>> => Head(worker[w].todo) \in Providers
    BY <1>2, Working
  <2>2. worker[w].knew \subseteq Recorded(worker[w].event)'
    BY <1>2, <2>1 DEF WorkerKnows, Kept, Recorded
  <2>3. Analysing(w) => Gathered(w)'
    BY <2>1 DEF WorkerKnows, Kept, Gathered, Analysing
  <2>4. worker[w].pc = "settle" => IsRecorded(worker[w].event, Head(worker[w].todo))'
    BY <2>1 DEF WorkerKnows, Kept, IsRecorded
  <2>5. results[worker[w].event].state # "absent" =>
          /\ results'[worker[w].event].state # "absent"
          /\ results'[worker[w].event].envelope = results[worker[w].event].envelope
    BY <2>1 DEF Kept
  <2>6. worker[w].pc \in {"publish", "mark"} => Stored(worker[w].event, worker[w].output)'
    BY <2>5 DEF WorkerKnows, Stored
  <2>7. worker[w].pc = "mark" => PublicOf(worker[w].event)' \in published'
    BY <2>5 DEF WorkerKnows, Stored, PublicOf, Kept
  <2> QED
    BY <2>2, <2>3, <2>4, <2>5, <2>6, <2>7 DEF WorkerKnows, Analysing
<1> QED
  BY <1>1, <1>2

LEMMA OnlyItsOwnSteps ==
  ASSUME TypeOK, [Next]_vars, NEW w \in Workers, worker'[w] # worker[w]
  PROVE  WorkerStep(w) \/ WorkerFault(w) \/ \E e \in Events : Deliver(w, e)
<1>1. ASSUME NEW v \in Workers,
             WorkerStep(v) \/ WorkerFault(v) \/ \E e \in Events : Deliver(v, e)
      PROVE  v = w
  <2>1. \A u \in Workers : u # v => worker'[u] = worker[u]
    BY <1>1 DEF TypeOK, WorkerStep, WorkerFault, Deliver, GetResult, Retrieve, Lookup, Call,
                Checkpoint, Settle, Stage, Reread, Publish, Mark, Defer, Raise, Crash, Return
  <2> QED
    BY <2>1
<1>2. ASSUME (\E e \in Events : LoseLock(e)) \/ TimerStep \/ UNCHANGED vars
      PROVE  FALSE
  BY <1>2 DEF LoseLock, TimerStep, TimerList, TimerPublish, TimerMark, TimerSkip, TimerEnd, vars
<1> QED
  BY <1>1, <1>2 DEF Next


(***************************************************************************)
(* Each step of a worker teaches it what its next step relies on.          *)
(***************************************************************************)
LEMMA StartingKnowledge ==
  ASSUME TypeOK, Kept, NEW w \in Workers, WorkerKnows(w),
         \/ \E e \in Events : Deliver(w, e)
         \/ GetResult(w) \/ Retrieve(w) \/ Lookup(w) \/ Call(w)
         \/ WorkerFault(w)
  PROVE  WorkerKnows(w)'
<1>1. worker \in [Workers -> WorkerState]
  BY DEF TypeOK
<1>2. ASSUME NEW e \in Events, Deliver(w, e)
      PROVE  WorkerKnows(w)'
  <2>1. worker'[w] = [pc |-> "get", event |-> e, delivery |-> message'[e].deliveries,
                      todo |-> Route[e], output |-> NoOutput, knew |-> Recorded(e)]
    BY <1>1, <1>2 DEF Deliver
  <2>2. Recorded(e) \subseteq Recorded(e)'
    BY DEF Recorded, Kept
  <2>3. Gathered(w)'
    BY <2>1 DEF Gathered, NoOutput
  <2> QED
    BY <2>1, <2>2, <2>3 DEF WorkerKnows, Analysing
<1>3. ASSUME worker' = [worker EXCEPT ![w] = Idle]
      PROVE  WorkerKnows(w)'
  <2>1. worker'[w].pc = "idle"
    BY <1>1, <1>3 DEF Idle
  <2> QED
    BY <2>1 DEF WorkerKnows, Analysing
<1>4. ASSUME GetResult(w)
      PROVE  WorkerKnows(w)'
  <2> DEFINE e == worker[w].event
  <2>1. /\ worker[w].pc = "get"
        /\ e \in Events
        /\ worker[w].knew \subseteq Recorded(e)
        /\ UNCHANGED <<checkpoints, results, published>>
        /\ worker[w] \in WorkerState
    BY <1>4, Working DEF GetResult, WorkerKnows
  <2>2. CASE worker' = [worker EXCEPT ![w].pc = "retrieve"] /\ e \in Callbacks
    BY <1>1, <2>1, <2>2 DEF WorkerKnows, Analysing, Recorded
  <2>3. CASE worker' = [worker EXCEPT ![w] = Continue(@, @.todo)] /\ e \notin Callbacks
    <3>1. /\ worker'[w].event = e
          /\ worker'[w].todo = worker[w].todo
          /\ worker'[w].output = worker[w].output
          /\ worker'[w].knew \subseteq worker[w].knew
          /\ worker'[w].pc = IF worker[w].todo = <<>> THEN "stage" ELSE "lookup"
      BY <1>1, <2>1, <2>3 DEF Continue, WorkerState
    <3>2. Gathered(w)' /\ ToSet(worker[w].todo) \subseteq ToSet(Route[e])
      BY <2>1, <2>3, <3>1 DEF Gathered, WorkerKnows, Analysing
    <3> QED
      BY <2>1, <2>3, <3>1, <3>2 DEF WorkerKnows, Analysing, Recorded
  <2>4. CASE /\ results[e].state = "pending"
             /\ worker' = [worker EXCEPT ![w].pc = "publish", ![w].output = results[e].envelope]
    <3>1. /\ worker'[w].event = e
          /\ worker'[w].output = results[e].envelope
          /\ worker'[w].knew = worker[w].knew
          /\ worker'[w].pc = "publish"
      BY <1>1, <2>1, <2>4 DEF WorkerState
    <3> QED
      BY <2>1, <2>4, <3>1 DEF WorkerKnows, Analysing, Recorded, Stored
  <2> QED
    BY <1>3, <1>4, <2>2, <2>3, <2>4 DEF GetResult, Return, DispatchStart
<1>5. ASSUME Retrieve(w)
      PROVE  WorkerKnows(w)'
  <2>1. /\ worker[w].pc = "retrieve"
        /\ worker[w].knew \subseteq Recorded(worker[w].event)
        /\ UNCHANGED <<checkpoints, results, published>>
        /\ worker[w] \in WorkerState
    BY <1>5, Working DEF Retrieve, WorkerKnows
  <2>2. /\ worker'[w].event = worker[w].event
        /\ worker'[w].pc = "stage"
        /\ worker'[w].knew = worker[w].knew
    BY <1>1, <1>5, <2>1 DEF Retrieve, WorkerState
  <2>3. worker[w].event \in Callbacks
    BY <2>1 DEF WorkerKnows
  <2> QED
    BY <2>1, <2>2, <2>3 DEF WorkerKnows, Analysing, Recorded
<1>6. ASSUME NEW pc \in {"settle", "call", "checkpoint"}, worker' = [worker EXCEPT ![w].pc = pc],
             worker[w].pc \in {"lookup", "call"},
             UNCHANGED <<checkpoints, results, published>>,
             pc = "settle" => IsRecorded(worker[w].event, Head(worker[w].todo)),
             pc \in {"call", "checkpoint"} => Head(worker[w].todo) \notin worker[w].knew
      PROVE  WorkerKnows(w)'
  <2>1. worker[w] \in WorkerState
    BY <1>6, Working
  <2>2. worker'[w] = [worker[w] EXCEPT !.pc = pc]
    BY <1>1, <1>6
  <2>3. /\ worker'[w].event = worker[w].event
        /\ worker'[w].todo = worker[w].todo
        /\ worker'[w].output = worker[w].output
        /\ worker'[w].knew = worker[w].knew
        /\ worker'[w].pc = pc
    BY <1>6, <2>1, <2>2 DEF WorkerState
  <2>4. Gathered(w)'
    BY <1>6, <2>3 DEF Gathered, WorkerKnows, Analysing
  <2> QED
    BY <1>6, <2>3, <2>4 DEF WorkerKnows, Analysing, Recorded, IsRecorded
<1>7. ASSUME Lookup(w)
      PROVE  WorkerKnows(w)'
  <2>1. Head(worker[w].todo) \in Providers /\ worker[w].knew \subseteq Recorded(worker[w].event)
    BY <1>7, Working DEF Lookup, WorkerKnows
  <2>2. ~IsRecorded(worker[w].event, Head(worker[w].todo)) =>
          Head(worker[w].todo) \notin worker[w].knew
    BY <2>1 DEF IsRecorded, Recorded
  <2> QED
    BY <1>6, <1>7, <2>2 DEF Lookup
<1>8. ASSUME Call(w)
      PROVE  WorkerKnows(w)'
  BY <1>6, <1>8 DEF Call, WorkerKnows
<1> QED
  BY <1>2, <1>3, <1>4, <1>5, <1>7, <1>8 DEF WorkerFault, Raise, Crash, Defer, Return

LEMMA AnalysisKnowledge ==
  ASSUME TypeOK, TypeOK', Kept, NEW w \in Workers, WorkerKnows(w), Checkpoint(w) \/ Settle(w)
  PROVE  WorkerKnows(w)'
<1>1. worker \in [Workers -> WorkerState]
  BY DEF TypeOK
<1> DEFINE e == worker[w].event
           p == Head(worker[w].todo)
<1>2. /\ worker[w].pc \in {"checkpoint", "settle"}
      /\ worker[w] \in WorkerState
      /\ e \in Events \ Callbacks
      /\ p \in Providers
      /\ worker[w].todo \in Seq(Providers)
      /\ Tail(worker[w].todo) \in Seq(Providers)
      /\ CheckpointId(w) = <<e, p>>
      /\ <<e, p>> \in Events \X Providers
      /\ worker[w].delivery \in Answers
      /\ worker[w].output \in Outputs
      /\ ToSet(worker[w].todo) = {p} \cup ToSet(Tail(worker[w].todo))
      /\ ToSet(worker[w].todo) \subseteq ToSet(Route[e])
      /\ worker[w].knew \subseteq Recorded(e)
      /\ Gathered(w)
  <2>1. /\ worker[w].pc \in {"checkpoint", "settle"}
        /\ worker[w].todo # <<>>
        /\ e \notin Callbacks
        /\ ToSet(worker[w].todo) \subseteq ToSet(Route[e])
        /\ worker[w].knew \subseteq Recorded(e)
        /\ Gathered(w)
    BY DEF Checkpoint, Settle, WorkerKnows, Analysing
  <2>2. CheckpointId(w) = <<e, p>>
    BY DEF CheckpointId
  <2> QED
    BY <2>1, <2>2, Working
<1>3. \A f \in Events : Recorded(f) \subseteq Recorded(f)'
  BY DEF Recorded, Kept
<1>4. checkpoints \in [Events \X Providers -> C!Row]
  BY DEF TypeOK
<1>5. ASSUME Checkpoint(w)
      PROVE  WorkerKnows(w)'
  <2>1. worker'[w] = [worker[w] EXCEPT !.pc = "settle"]
    BY <1>1, <1>5 DEF Checkpoint
  <2>2. /\ worker'[w].event = e
        /\ worker'[w].todo = worker[w].todo
        /\ worker'[w].output = worker[w].output
        /\ worker'[w].knew = worker[w].knew
        /\ worker'[w].pc = "settle"
    BY <1>2, <2>1 DEF WorkerState
  <2>3. checkpoints'[<<e, p>>].state # "absent"
    BY <1>2, <1>4, <1>5 DEF Checkpoint, C!CreateEntity
  <2>4. Gathered(w)'
    BY <1>2, <2>2 DEF Gathered, Kept
  <2> QED
    BY <1>2, <1>3, <1>5, <2>2, <2>3, <2>4 DEF WorkerKnows, Analysing, IsRecorded, Checkpoint
<1>6. ASSUME Settle(w)
      PROVE  WorkerKnows(w)'
  <2> DEFINE rest == Tail(worker[w].todo)
             out == [worker[w].output EXCEPT ![p] = RecordedAnswer(w)]
  <2>1. worker'[w] = Continue([worker[w] EXCEPT !.output[p] = RecordedAnswer(w)], rest)
    BY <1>1, <1>6 DEF Settle
  <2>2. /\ worker'[w].event = e
        /\ worker'[w].todo = rest
        /\ worker'[w].output = out
        /\ worker'[w].knew \subseteq worker[w].knew
        /\ worker'[w].pc = IF rest = <<>> THEN "stage" ELSE "lookup"
    BY <1>2, <2>1 DEF WorkerState, Continue
  <2>3. checkpoints[<<e, p>>].state # "absent"
    BY <1>6 DEF Settle, WorkerKnows, IsRecorded
  <2>4. checkpoints'[<<e, p>>] = [state |-> "sent", envelope |-> RecordedAnswer(w)]
    <3>1. checkpoints' = C!MarkSent(checkpoints, <<e, p>>)
      BY <1>2, <1>6 DEF Settle
    <3>2. RecordedAnswer(w) = checkpoints[<<e, p>>].envelope
      BY <1>2 DEF RecordedAnswer
    <3> QED
      BY <1>2, <1>4, <2>3, <3>1, <3>2 DEF C!MarkSent, C!Row
  <2>5. Gathered(w)'
    <3>1. ASSUME NEW q \in Providers, q \in ToSet(Route[e]) \ ToSet(rest)
          PROVE  checkpoints'[<<e, q>>] = [state |-> "sent", envelope |-> out[q]]
      <4>1. CASE q = p
        <5>1. out[p] = RecordedAnswer(w)
          BY <1>2 DEF Outputs
        <5> QED
          BY <2>4, <4>1, <5>1
      <4>2. CASE q # p
        <5>1. /\ q \in ToSet(Route[e]) \ ToSet(worker[w].todo)
              /\ out[q] = worker[w].output[q]
              /\ <<e, q>> \in Events \X Providers
          BY <1>2, <3>1, <4>2 DEF Outputs
        <5>2. checkpoints[<<e, q>>] = [state |-> "sent", envelope |-> out[q]]
          BY <1>2, <5>1 DEF Gathered
        <5>3. checkpoints'[<<e, q>>] = checkpoints[<<e, q>>]
          BY <5>1, <5>2 DEF Kept
        <5> QED
          BY <5>2, <5>3
      <4> QED
        BY <4>1, <4>2
    <3>2. ASSUME NEW q \in Providers, q \notin ToSet(Route[e])
          PROVE  out[q] = 0
      BY <1>2, <3>2 DEF Gathered, Outputs
    <3> QED
      BY <2>2, <3>1, <3>2 DEF Gathered
  <2> QED
    BY <1>2, <1>3, <2>2, <2>5 DEF WorkerKnows, Analysing
<1> QED
  BY <1>5, <1>6

LEMMA FinishingKnowledge ==
  ASSUME TypeOK, Kept, NEW w \in Workers, WorkerKnows(w),
         Stage(w) \/ Reread(w) \/ Publish(w) \/ Mark(w)
  PROVE  WorkerKnows(w)'
<1>1. worker \in [Workers -> WorkerState] /\ results \in [Events -> R!Row]
  BY DEF TypeOK
<1> DEFINE e == worker[w].event
<1>2. /\ worker[w].pc \in {"stage", "reread", "publish", "mark"}
      /\ worker[w] \in WorkerState
      /\ e \in Events
      /\ worker[w].output \in Outputs
      /\ worker[w].knew \subseteq Recorded(e)
  BY Working DEF Stage, Reread, Publish, Mark, WorkerKnows
<1>3. ASSUME worker' = [worker EXCEPT ![w] = Idle]
      PROVE  WorkerKnows(w)'
  <2>1. worker'[w].pc = "idle"
    BY <1>1, <1>3 DEF Idle
  <2> QED
    BY <2>1 DEF WorkerKnows, Analysing
<1>4. ASSUME Stage(w)
      PROVE  WorkerKnows(w)'
  <2>1. worker'[w] = [worker[w] EXCEPT !.pc = "reread"]
    BY <1>1, <1>4 DEF Stage
  <2>2. worker'[w].event = e /\ worker'[w].knew = worker[w].knew /\ worker'[w].pc = "reread"
    BY <1>2, <2>1 DEF WorkerState
  <2>3. results'[e].state # "absent"
    BY <1>1, <1>2, <1>4 DEF Stage, R!CreateEntity
  <2> QED
    BY <1>2, <1>4, <2>2, <2>3 DEF WorkerKnows, Analysing, Recorded, Stage
<1>5. ASSUME Reread(w), results[e].state = "pending"
      PROVE  WorkerKnows(w)'
  <2>1. worker'[w] = [worker[w] EXCEPT !.pc = "publish", !.output = results[e].envelope]
    BY <1>1, <1>5 DEF Reread, DispatchStart, StoredOutput
  <2>2. /\ worker'[w].event = e
        /\ worker'[w].output = results[e].envelope
        /\ worker'[w].knew = worker[w].knew
        /\ worker'[w].pc = "publish"
    BY <1>2, <2>1 DEF WorkerState
  <2> QED
    BY <1>2, <1>5, <2>2 DEF WorkerKnows, Analysing, Recorded, Stored, Reread
<1>6. ASSUME Publish(w)
      PROVE  WorkerKnows(w)'
  <2>1. worker'[w] = [worker[w] EXCEPT !.pc = "mark"]
    BY <1>1, <1>6 DEF Publish
  <2>2. /\ worker'[w].event = e
        /\ worker'[w].output = worker[w].output
        /\ worker'[w].knew = worker[w].knew
        /\ worker'[w].pc = "mark"
    BY <1>2, <2>1 DEF WorkerState
  <2>3. Stored(e, worker[w].output)
    BY <1>6 DEF Publish, WorkerKnows
  <2>4. PublicOf(e) \in published'
    BY <1>6, <2>3 DEF Publish, PublicOf, Stored
  <2> QED
    BY <1>2, <1>6, <2>2, <2>3, <2>4
       DEF WorkerKnows, Analysing, Recorded, Stored, PublicOf, Publish
<1> QED
  BY <1>3, <1>4, <1>5, <1>6 DEF Reread, Mark, Return

LEMMA KnowledgeStep ==
  ASSUME TypeOK, TypeOK', Kept, \A w \in Workers : WorkerKnows(w), [Next]_vars
  PROVE  \A w \in Workers : WorkerKnows(w)'
<1> SUFFICES ASSUME NEW w \in Workers
             PROVE  WorkerKnows(w)'
  OBVIOUS
<1>1. CASE worker'[w] = worker[w]
  BY <1>1, KnowledgeLasts
<1>2. CASE WorkerStep(w) \/ WorkerFault(w) \/ \E e \in Events : Deliver(w, e)
  BY <1>2, StartingKnowledge, AnalysisKnowledge, FinishingKnowledge DEF WorkerStep
<1> QED
  BY <1>1, <1>2, OnlyItsOwnSteps
-----------------------------------------------------------------------------
LEMMA AgreeStep ==
  ASSUME IInv, Kept, [Next]_vars
  PROVE  ResultsAgree'
<1>1. \A r \in published : r \in Public /\ Stored(r.event, r.output)
  BY DEF IInv, TypeOK, ResultsAgree, Stored
<1>2. \A r \in published' \ published : r \in Public /\ Stored(r.event, r.output)
  <2>1. ASSUME NEW w \in Workers, Publish(w), NEW r \in published' \ published
        PROVE  r \in Public /\ Stored(r.event, r.output)
    <3>1. /\ r = [event |-> worker[w].event, output |-> worker[w].output]
          /\ worker[w].pc = "publish"
      BY <2>1 DEF Publish
    <3>2. /\ worker[w].event \in Events
          /\ worker[w].output \in Outputs
          /\ Stored(worker[w].event, worker[w].output)
      BY <3>1, Working DEF IInv, WorkerKnows
    <3> QED
      BY <3>1, <3>2 DEF Public
  <2>2. ASSUME NEW e \in Events, TimerPublish(PublicOf(e)), NEW r \in published' \ published
        PROVE  r \in Public /\ Stored(r.event, r.output)
    <3>1. r \in timer.page /\ timer.pc = "loop"
      BY <2>2 DEF TimerPublish
    <3> QED
      BY <3>1 DEF IInv, TimerKnows, TypeOK, TimerState
  <2> QED
    BY <2>1, <2>2
       DEF Next, vars, WorkerStep, WorkerFault, TimerStep, Deliver, LoseLock, GetResult,
           Retrieve, Lookup, Call, Checkpoint, Settle, Stage, Reread, Mark, Defer, Raise,
           Crash, TimerMark, TimerEnd, TimerSkip, TimerList
<1>3. ASSUME NEW r \in Public, Stored(r.event, r.output)
      PROVE  Stored(r.event, r.output)'
  BY <1>3 DEF Public, Stored, Kept
<1> QED
  BY <1>1, <1>2, <1>3 DEF ResultsAgree, Stored

LEMMA TimerStepKnows ==
  ASSUME IInv, Kept, [Next]_vars
  PROVE  TimerKnows'
<1>1. TypeOK /\ timer \in TimerState /\ TimerKnows
  BY DEF IInv, TypeOK
<1>2. ASSUME NEW r \in Public, Stored(r.event, r.output)
      PROVE  Stored(r.event, r.output)'
  BY <1>2 DEF Public, Stored, Kept
<1>3. ASSUME TimerList
      PROVE  TimerKnows'
  <2>1. \A e \in R!PendingPage(results, RowRank, Room) :
          e \in Events /\ results[e].state # "absent"
    BY DEF R!PendingPage, R!PendingKeys
  <2>2. \A r \in timer'.page : Stored(r.event, r.output)'
    BY <1>3, <2>1 DEF TimerList, PublicOf, Stored
  <2>3. timer'.pc = "loop"
    BY <1>3 DEF TimerList
  <2> QED
    BY <2>2, <2>3 DEF TimerKnows
<1>4. ASSUME NEW e \in Events, TimerPublish(PublicOf(e))
      PROVE  TimerKnows'
  <2> DEFINE r == PublicOf(e)
  <2>1. /\ timer' = [pc |-> "mark", page |-> timer.page \ {r}, current |-> r]
        /\ r \in timer.page
        /\ r \in published'
        /\ timer.pc = "loop"
    BY <1>4 DEF TimerPublish
  <2>2. \A q \in timer.page : q \in Public /\ Stored(q.event, q.output)
    BY <1>1, <2>1 DEF TimerState, TimerKnows
  <2>3. \A q \in timer.page : Stored(q.event, q.output)'
    BY <1>2, <2>2
  <2> HIDE DEF r
  <2> QED
    BY <2>1, <2>3 DEF TimerKnows
<1>5. ASSUME TimerMark \/ TimerSkip \/ TimerEnd \/ UNCHANGED timer
      PROVE  TimerKnows'
  <2>1. CASE timer'.pc = "idle"
    BY <2>1 DEF TimerKnows
  <2>2. CASE timer'.pc # "idle"
    <3>1. /\ timer.pc # "idle"
          /\ timer'.page \subseteq timer.page
          /\ timer'.pc = "mark" => UNCHANGED timer
      BY <1>1, <1>5, <2>2 DEF TimerMark, TimerSkip, TimerEnd, TimerState, Idle
    <3>2. \A r \in timer.page : r \in Public /\ Stored(r.event, r.output)
      BY <1>1, <3>1 DEF TimerState, TimerKnows
    <3>3. \A r \in timer'.page : Stored(r.event, r.output)'
      BY <1>2, <3>1, <3>2
    <3>4. ASSUME timer'.pc = "mark"
          PROVE  /\ timer'.current \in published'
                 /\ Stored(timer.current.event, timer.current.output)'
      <4>1. timer.pc = "mark" /\ timer' = timer
        BY <3>1, <3>4
      <4>2. /\ timer.current \in Public
            /\ timer.current \in published
            /\ Stored(timer.current.event, timer.current.output)
        BY <1>1, <4>1 DEF TimerState, TimerKnows
      <4> QED
        BY <1>2, <4>1, <4>2 DEF Kept
    <3> QED
      BY <3>3, <3>4 DEF TimerKnows
  <2> QED
    BY <2>1, <2>2
<1> QED
  BY <1>3, <1>4, <1>5
     DEF Next, vars, WorkerStep, WorkerFault, TimerStep, Deliver, LoseLock, GetResult,
         Retrieve, Lookup, Call, Checkpoint, Settle, Stage, Reread, Publish, Mark, Defer,
         Raise, Crash

LEMMA RecordedStep ==
  ASSUME IInv, Kept, [Next]_vars
  PROVE  ResultsAreRecorded'
<1>1. TypeOK /\ results \in [Events -> R!Row]
  BY DEF IInv, TypeOK
<1> SUFFICES ASSUME NEW e \in Events \ Callbacks, results'[e].state # "absent",
                    NEW p \in Providers
             PROVE  IF p \in ToSet(Route[e])
                      THEN checkpoints'[<<e, p>>]
                             = [state |-> "sent", envelope |-> results'[e].envelope[p]]
                      ELSE results'[e].envelope[p] = 0
  BY DEF ResultsAreRecorded
<1>2. CASE results[e].state # "absent"
  <2>1. IF p \in ToSet(Route[e])
          THEN checkpoints[<<e, p>>] = [state |-> "sent", envelope |-> results[e].envelope[p]]
          ELSE results[e].envelope[p] = 0
    BY <1>2 DEF IInv, ResultsAreRecorded
  <2>2. results'[e].envelope = results[e].envelope
    BY <1>2 DEF Kept
  <2>3. checkpoints[<<e, p>>].state = "sent" => checkpoints'[<<e, p>>] = checkpoints[<<e, p>>]
    BY DEF Kept
  <2> QED
    BY <2>1, <2>2, <2>3
<1>3. CASE results[e].state = "absent"
  <2>1. ASSUME NEW w \in Workers, worker[w].event = e, Stage(w)
        PROVE  IF p \in ToSet(Route[e])
                 THEN checkpoints'[<<e, p>>]
                        = [state |-> "sent", envelope |-> results'[e].envelope[p]]
                 ELSE results'[e].envelope[p] = 0
    <3>1. results'[e].envelope = worker[w].output /\ checkpoints' = checkpoints
      BY <1>1, <1>3, <2>1 DEF Stage, R!CreateEntity
    <3>2. worker[w].todo = <<>> /\ Gathered(w)
      BY <2>1 DEF Stage, IInv, WorkerKnows, Analysing
    <3>3. ToSet(worker[w].todo) = {}
      BY <3>2 DEF ToSet
    <3> QED
      BY <2>1, <3>1, <3>2, <3>3 DEF Gathered
  <2>2. ASSUME NEW w \in Workers, worker[w].event # e, Stage(w)
        PROVE  results'[e] = results[e]
    BY <1>1, <2>2 DEF Stage, R!CreateEntity
  <2>3. ASSUME NEW f, results' = R!MarkSent(results, f)
        PROVE  results'[e] = results[e]
    BY <1>1, <1>3, <2>3 DEF R!MarkSent
  <2> QED
    BY <1>3, <2>1, <2>2, <2>3
       DEF Next, vars, WorkerStep, WorkerFault, TimerStep, Deliver, LoseLock, GetResult,
           Retrieve, Lookup, Call, Checkpoint, Settle, Reread, Publish, Mark, Defer, Raise,
           Crash, TimerPublish, TimerMark, TimerEnd, TimerSkip, TimerList
<1> QED
  BY <1>2, <1>3

LEMMA ForgottenStep ==
  ASSUME IInv, Kept, [Next]_vars
  PROVE  NothingForgotten'
<1>1. TypeOK /\ results \in [Events -> R!Row] /\ message \in [Events -> MessageState]
  BY DEF IInv, TypeOK
<1>2. \A e \in Events : MessageOK(message[e])
  BY DEF IInv, TypeOK, DeliveriesLeft, MessageOK
<1>3. ASSUME NEW e \in Events, message'[e].state = "done"
      PROVE  results'[e].state # "absent"
  <2>1. CASE message[e].state = "done"
    BY <2>1 DEF IInv, NothingForgotten, Kept
  <2>2. CASE message[e].state # "done"
    <3>1. ASSUME NEW w \in Workers, Return(w), worker[w].pc # "idle"
          PROVE  worker[w].event = e
      BY <1>1, <1>3, <2>2, <3>1 DEF Return
    <3>2. ASSUME NEW w \in Workers, GetResult(w) \/ Reread(w) \/ Mark(w) \/ Defer(w)
          PROVE  results'[e].state # "absent"
      <4>1. results[worker[w].event].state # "absent" \/ UNCHANGED message
        BY <3>2 DEF GetResult, Reread, Mark, Defer, IInv, WorkerKnows, Stored
      <4>2. CASE UNCHANGED message
        BY <1>3, <2>2, <4>2
      <4>3. CASE Return(w) /\ results[worker[w].event].state # "absent"
        <5>1. worker[w].pc # "idle"
          BY <3>2 DEF GetResult, Reread, Mark, Defer
        <5> QED
          BY <3>1, <4>3, <5>1 DEF Kept
      <4> QED
        BY <3>2, <4>1, <4>2, <4>3 DEF GetResult, Reread, Mark, Defer
    <3>3. ASSUME NEW w \in Workers, Raise(w)
          PROVE  FALSE
      <4>1. message' = [message EXCEPT ![worker[w].event] = Abandoned(@, w)]
        BY <3>3 DEF Raise, Interrupted
      <4>2. Abandoned(message[e], w).state # "done"
        BY <1>2, <2>2, QueueOperations
      <4> QED
        BY <1>1, <1>3, <2>2, <4>1, <4>2
    <3>4. ASSUME NEW w \in Workers, NEW f \in Events, Deliver(w, f)
          PROVE  FALSE
      BY <1>1, <1>3, <2>2, <3>4 DEF Deliver, Locked
    <3>5. ASSUME NEW f \in Events, LoseLock(f)
          PROVE  FALSE
      BY <1>1, <1>3, <2>2, <3>5 DEF LoseLock, GivenBack, MessageState
    <3>6. ASSUME UNCHANGED message
          PROVE  FALSE
      BY <1>3, <2>2, <3>6
    <3> QED
      BY <3>2, <3>3, <3>4, <3>5, <3>6
         DEF Next, vars, WorkerStep, WorkerFault, TimerStep, Retrieve, Lookup, Call,
             Checkpoint, Settle, Stage, Publish, Crash, TimerPublish, TimerMark, TimerEnd,
             TimerSkip, TimerList
  <2> QED
    BY <2>1, <2>2
<1>4. ASSUME NEW e \in Events, results'[e].state = "sent"
      PROVE  PublicOf(e)' \in published'
  <2>1. CASE results[e].state = "sent"
    <3>1. PublicOf(e) \in published /\ results'[e].envelope = results[e].envelope
      BY <2>1 DEF IInv, NothingForgotten, Kept
    <3> QED
      BY <3>1 DEF PublicOf, Kept
  <2>2. CASE results[e].state # "sent"
    <3>1. ASSUME NEW f, results' = R!MarkSent(results, f)
          PROVE  /\ f = e
                 /\ results[e].state # "absent"
                 /\ results'[e].envelope = results[e].envelope
      BY <1>1, <1>4, <2>2, <3>1 DEF R!MarkSent
    <3>2. ASSUME NEW w \in Workers, Mark(w)
          PROVE  PublicOf(e)' \in published'
      <4>1. worker[w].event = e /\ results'[e].envelope = results[e].envelope
        BY <3>1, <3>2 DEF Mark
      <4>2. PublicOf(e) \in published
        BY <3>2, <4>1 DEF Mark, IInv, WorkerKnows
      <4> QED
        BY <4>1, <4>2 DEF PublicOf, Kept
    <3>3. ASSUME TimerMark
          PROVE  PublicOf(e)' \in published'
      <4>1. timer.current.event = e /\ results'[e].envelope = results[e].envelope
        BY <3>1, <3>3 DEF TimerMark
      <4>2. /\ timer.current \in Public \cap published
            /\ Stored(e, timer.current.output)
        BY <1>1, <3>3, <4>1 DEF TimerMark, IInv, TimerKnows, TypeOK, TimerState
      <4>3. timer.current = PublicOf(e)
        BY <4>1, <4>2 DEF Public, PublicOf, Stored
      <4> QED
        BY <4>1, <4>2, <4>3 DEF PublicOf, Kept
    <3>4. ASSUME NEW w \in Workers, Stage(w)
          PROVE  FALSE
      BY <1>1, <1>4, <2>2, <3>4 DEF Stage, R!CreateEntity
    <3>5. ASSUME UNCHANGED results
          PROVE  FALSE
      BY <1>4, <2>2, <3>5
    <3> QED
      BY <3>2, <3>3, <3>4, <3>5
         DEF Next, vars, WorkerStep, WorkerFault, TimerStep, Deliver, LoseLock, GetResult,
             Retrieve, Lookup, Call, Checkpoint, Settle, Reread, Publish, Defer, Raise, Crash,
             TimerPublish, TimerEnd, TimerSkip, TimerList
  <2> QED
    BY <2>1, <2>2
<1> QED
  BY <1>3, <1>4 DEF NothingForgotten
-----------------------------------------------------------------------------
LEMMA InvInit == Init => IInv
<1> SUFFICES ASSUME Init PROVE IInv
  OBVIOUS
<1>1. TypeOK
  BY ProcessingConstants
     DEF Init, TypeOK, MessageState, Queued, WorkerState, TimerState, Idle, C!EmptyTable,
         R!EmptyTable, C!Row, R!Row
<1>2. DeliveriesLeft
  BY ProcessingConstants DEF Init, DeliveriesLeft, Queued
<1>3. ResultsAgree /\ ResultsAreRecorded /\ NothingForgotten
  BY DEF Init, ResultsAgree, ResultsAreRecorded, NothingForgotten, Queued, R!EmptyTable
<1>4. TimerKnows /\ \A w \in Workers : WorkerKnows(w)
  BY DEF Init, TimerKnows, WorkerKnows, Analysing, Idle
<1> QED
  BY <1>1, <1>2, <1>3, <1>4 DEF IInv

LEMMA InvStep == IInv /\ [Next]_vars => IInv'
<1> SUFFICES ASSUME IInv, [Next]_vars PROVE IInv'
  OBVIOUS
<1>1. TypeOK /\ \A w \in Workers : WorkerKnows(w)
  BY DEF IInv
<1>2. CheckpointRequest /\ ResultRequest
  BY <1>1, TableSteps
<1>3. TypeOK' /\ DeliveriesLeft'
  BY TypeStep
<1>4. Kept
  BY <1>1, <1>2, StepKeeps
<1>5. \A w \in Workers : WorkerKnows(w)'
  BY <1>1, <1>3, <1>4, KnowledgeStep
<1> QED
  BY <1>3, <1>4, <1>5, AgreeStep, RecordedStep, ForgottenStep, TimerStepKnows DEF IInv

THEOREM Invariance == Spec => []IInv
  BY InvInit, InvStep, PTL DEF Spec

(***************************************************************************)
(* The variables keep their types.                                         *)
(***************************************************************************)
THEOREM TypeCorrect == Spec => []TypeOK
<1>1. IInv => TypeOK
  BY DEF IInv
<1> QED
  BY <1>1, Invariance, PTL

(***************************************************************************)
(* No two public results of one event differ: whichever of the workers and *)
(* the timer publishes it, and however often, it is the stored winner.     *)
(***************************************************************************)
THEOREM PublishersAgree == Spec => []ResultsAgree
<1>1. IInv => ResultsAgree
  BY DEF IInv
<1> QED
  BY <1>1, Invariance, PTL

(***************************************************************************)
(* A delivery never pays for an answer that was on record when it began.   *)
(***************************************************************************)
THEOREM WorkIsNotRepeated == Spec => []NoRepeatedWork
<1>1. IInv => NoRepeatedWork
  BY DEF IInv, NoRepeatedWork, WorkerKnows
<1> QED
  BY <1>1, Invariance, PTL

(***************************************************************************)
(* A stored result is made of recorded answers, whose checkpoints are all  *)
(* marked.                                                                 *)
(***************************************************************************)
THEOREM ResultsHoldRecordedAnswers == Spec => []ResultsAreRecorded
<1>1. IInv => ResultsAreRecorded
  BY DEF IInv
<1> QED
  BY <1>1, Invariance, PTL

(***************************************************************************)
(* A message is only completed when its result is stored, and a row is     *)
(* only marked when its result is published.                               *)
(***************************************************************************)
THEOREM NothingIsForgotten == Spec => []NothingForgotten
<1>1. IInv => NothingForgotten
  BY DEF IInv
<1> QED
  BY <1>1, Invariance, PTL

(***************************************************************************)
(* No step, crashes included, takes back a published result, a stored      *)
(* result, its mark, a recorded answer, or its mark.                       *)
(***************************************************************************)
THEOREM NothingIsTakenBack == Spec => [][Kept]_vars
<1>1. IInv /\ [Next]_vars => Kept
  <2> SUFFICES ASSUME IInv, [Next]_vars PROVE Kept
    OBVIOUS
  <2>1. TypeOK /\ \A w \in Workers : WorkerKnows(w)
    BY DEF IInv
  <2> QED
    BY <2>1, TableSteps, StepKeeps
<1>2. IInv /\ [Next]_vars => [Kept]_vars
  BY <1>1
<1> QED
  BY <1>2, Invariance, PTL DEF Spec
=============================================================================
