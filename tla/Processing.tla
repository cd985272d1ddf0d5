----------------------------- MODULE Processing -----------------------------
(***************************************************************************)
(* The queue worker: process_event and dispatch_pending_results of         *)
(* function_app.py, EventProcessor of worker.py with its per-provider      *)
(* checkpoints, and the first-wins result outbox.  Events are those the    *)
(* model providers analyse, and OpenAI callbacks, whose response is        *)
(* fetched again, and may be another, each time they are processed.        *)
(* OneDrive events, which hold a lease instead, are in module OneDriveSync.*)
(* Checkpoints and results are two partitions of one table.                *)
(*                                                                         *)
(* The queue is a Service Bus queue in peek-lock mode: a delivery can be   *)
(* interrupted, its lock can be lost while the worker goes on, and after   *)
(* MaxDelivery deliveries the message is dead-lettered.                    *)
(***************************************************************************)
EXTENDS Naturals, FiniteSets, SequencesExt

CONSTANTS
    Events,        \* queued events
    Providers,     \* model providers
    Callbacks,     \* the events that are OpenAI callbacks
    Retriever,     \* the provider that retrieves their response
    Route,         \* the providers each of the other events is analysed by, in order
    Workers,       \* function instances, one message at a time each
    MaxDelivery,   \* maxDeliveryCount of the queue
    RowRank,       \* the order in which the table service lists result rows
    PendingLimit,  \* pending(limit=100)
    NoData

ASSUME ProcessingConstants ==
    /\ Callbacks \subseteq Events
    /\ Retriever \in Providers
    /\ Route \in [Events -> Seq(Providers)]
    /\ \A e \in Events : IsInjective(Route[e])
    /\ MaxDelivery \in Nat \ {0}
    /\ RowRank \in [Events -> Nat]
    /\ PendingLimit \in Nat

\* An answer of a provider is told apart by the delivery that asked for it:
\* models do not answer the same twice, and a delivery asks each of them once.
Answers == 1..MaxDelivery

\* The stored result of an event: one answer per provider, 0 for no provider.
Outputs == [Providers -> 0..MaxDelivery]

ASSUME DataIsNew == NoData \notin Answers \cup Outputs

VARIABLES
    message,       \* the queue's view of the message of each event
    worker,        \* the local state of each worker
    checkpoints,   \* the analysis-checkpoint rows, by event and provider
    results,       \* the result-outbox rows
    timer,         \* the local state of dispatch_pending_results
    published      \* public results the results queue has taken

vars == <<message, worker, checkpoints, results, timer, published>>

C == INSTANCE EventTable WITH
       Keys <- Events \X Providers, Envelopes <- Answers, NoEnvelope <- NoData

R == INSTANCE EventTable WITH
       Keys <- Events, Envelopes <- Outputs, NoEnvelope <- NoData

Public == [event : Events, output : Outputs]

PublicOf(e) == [event |-> e, output |-> results[e].envelope]

INSTANCE PeekLock

\* knew is a history variable: the providers, of those left to deal with,
\* whose answer was on record when the delivery began.
WorkerState ==
    [pc : {"idle"}] \cup
    [pc : {"get", "retrieve", "lookup", "call", "checkpoint", "settle", "stage", "reread",
           "publish", "mark"},
     event : Events, delivery : Answers, todo : Seq(Providers), output : Outputs,
     knew : SUBSET Providers]

TimerState ==
    [pc : {"idle"}] \cup
    [pc : {"loop"}, page : SUBSET Public] \cup
    [pc : {"mark"}, page : SUBSET Public, current : Public]

Idle == [pc |-> "idle"]

NoOutput == [p \in Providers |-> 0]

Recorded(e) == {p \in Providers : checkpoints[<<e, p>>].state # "absent"}

Init ==
    /\ message = [e \in Events |-> Queued]
    /\ worker = [w \in Workers |-> Idle]
    /\ checkpoints = C!EmptyTable
    /\ results = R!EmptyTable
    /\ timer = Idle
    /\ published = {}
-----------------------------------------------------------------------------
(***************************************************************************)
(* Faulty variants, from which the runs' properties must tell the code     *)
(* apart.                                                                  *)
(***************************************************************************)
TrustsOnlySentCheckpoints(e, p) == checkpoints[<<e, p>>].state = "sent"

OwnAnswerWins(w) == worker[w].delivery

SettlesAnyway(m, w) == Completed(m, w)

MarksOnly == "mark"

OwnOutputWins(w) == worker[w].output
-----------------------------------------------------------------------------
Deliver(w, e) ==
    /\ worker[w].pc = "idle"
    /\ message[e].state = "queued"
    /\ message' = [message EXCEPT ![e] = Locked(@, w)]
    /\ worker' = [worker EXCEPT ![w] =
         [pc |-> "get", event |-> e, delivery |-> message'[e].deliveries,
          todo |-> Route[e], output |-> NoOutput, knew |-> Recorded(e)]]
    /\ UNCHANGED <<checkpoints, results, timer, published>>

\* The lock runs out (maxAutoLockRenewalDuration, or its holder is gone).
LoseLock(e) ==
    /\ message[e].state = "locked"
    /\ message' = [message EXCEPT ![e] = GivenBack(@)]
    /\ UNCHANGED <<worker, checkpoints, results, timer, published>>

Return(w) ==
    /\ worker' = [worker EXCEPT ![w] = Idle]
    /\ message' = [message EXCEPT ![worker[w].event] = Completed(@, w)]

Interrupted(m, w) == Abandoned(m, w)

Raise(w) ==
    /\ worker[w].pc \notin {"idle", "publish", "mark"}
    /\ worker' = [worker EXCEPT ![w] = Idle]
    /\ message' = [message EXCEPT ![worker[w].event] = Interrupted(@, w)]
    /\ UNCHANGED <<checkpoints, results, timer, published>>

Crash(w) ==
    /\ worker[w].pc # "idle"
    /\ worker' = [worker EXCEPT ![w] = Idle]
    /\ UNCHANGED <<message, checkpoints, results, timer, published>>
-----------------------------------------------------------------------------
\* Where _dispatch_result_record starts.
DispatchStart == "publish"

\* The state of w when the providers of rest are left to deal with.
Continue(s, rest) ==
    [s EXCEPT !.todo = rest, !.knew = @ \cap ToSet(rest),
              !.pc = IF rest = <<>> THEN "stage" ELSE "lookup"]

(***************************************************************************)
(* process_event: a stored result is dispatched again, or dropped if sent. *)
(***************************************************************************)
GetResult(w) ==
    LET row == results[worker[w].event] IN
    /\ worker[w].pc = "get"
    /\ \/ /\ row.state = "absent"
          /\ worker' = [worker EXCEPT ![w] =
               IF @.event \in Callbacks THEN [@ EXCEPT !.pc = "retrieve"]
                                        ELSE Continue(@, @.todo)]
          /\ UNCHANGED message
       \/ /\ row.state = "pending"
          /\ worker' = [worker EXCEPT ![w].pc = DispatchStart, ![w].output = row.envelope]
          /\ UNCHANGED message
       \/ row.state = "sent" /\ Return(w)
    /\ UNCHANGED <<checkpoints, results, timer, published>>

(***************************************************************************)
(* _process_openai_callback: the response goes into the result as it is    *)
(* now; no checkpoint is kept.                                             *)
(***************************************************************************)
Retrieve(w) ==
    /\ worker[w].pc = "retrieve"
    /\ worker' = [worker EXCEPT ![w].pc = "stage",
                                ![w].output[Retriever] = worker[w].delivery]
    /\ UNCHANGED <<message, checkpoints, results, timer, published>>

IsRecorded(e, p) == checkpoints[<<e, p>>].state # "absent"

CheckpointId(w) == <<worker[w].event, Head(worker[w].todo)>>

(***************************************************************************)
(* _analyze, for each provider in turn: look for the checkpoint; make the  *)
(* paid call if there is none; stage the answer; mark it, unless it is     *)
(* marked already; use the answer that is on record.                       *)
(***************************************************************************)
Lookup(w) ==
    /\ worker[w].pc = "lookup"
    /\ worker' = [worker EXCEPT ![w].pc =
         IF IsRecorded(worker[w].event, Head(worker[w].todo)) THEN "settle" ELSE "call"]
    /\ UNCHANGED <<message, checkpoints, results, timer, published>>

Call(w) ==
    /\ worker[w].pc = "call"
    /\ worker' = [worker EXCEPT ![w].pc = "checkpoint"]
    /\ UNCHANGED <<message, checkpoints, results, timer, published>>

\* stage(): an existing row is kept.  A row's answer never changes, so its
\* separate read can be left to the next step.
Checkpoint(w) ==
    /\ worker[w].pc = "checkpoint"
    /\ checkpoints' = C!CreateEntity(checkpoints, CheckpointId(w), worker[w].delivery)
    /\ worker' = [worker EXCEPT ![w].pc = "settle"]
    /\ UNCHANGED <<message, results, timer, published>>

RecordedAnswer(w) == checkpoints[CheckpointId(w)].envelope

Settle(w) ==
    /\ worker[w].pc = "settle"
    /\ checkpoints' = C!MarkSent(checkpoints, CheckpointId(w))
    /\ worker' = [worker EXCEPT ![w] =
         Continue([@ EXCEPT !.output[Head(@.todo)] = RecordedAnswer(w)], Tail(@.todo))]
    /\ UNCHANGED <<message, results, timer, published>>

(***************************************************************************)
(* Stage the result, first wins, and read back which one is stored.        *)
(***************************************************************************)
Stage(w) ==
    /\ worker[w].pc = "stage"
    /\ results' = R!CreateEntity(results, worker[w].event, worker[w].output)
    /\ worker' = [worker EXCEPT ![w].pc = "reread"]
    /\ UNCHANGED <<message, checkpoints, timer, published>>

StoredOutput(w) == results[worker[w].event].envelope

Reread(w) ==
    /\ worker[w].pc = "reread"
    /\ \/ results[worker[w].event].state = "sent" /\ Return(w)
       \/ /\ results[worker[w].event].state = "pending"
          /\ worker' = [worker EXCEPT ![w].pc = DispatchStart,
                                      ![w].output = StoredOutput(w)]
          /\ UNCHANGED message
    /\ UNCHANGED <<checkpoints, results, timer, published>>

(***************************************************************************)
(* _dispatch_result_record, called by the worker: publish, then mark.  An  *)
(* exception here is logged, the row is left to the timer, and the         *)
(* function returns normally.                                              *)
(***************************************************************************)
Publish(w) ==
    /\ worker[w].pc = "publish"
    /\ published' = published \cup
         {[event |-> worker[w].event, output |-> worker[w].output]}
    /\ worker' = [worker EXCEPT ![w].pc = "mark"]
    /\ UNCHANGED <<message, checkpoints, results, timer>>

Mark(w) ==
    /\ worker[w].pc = "mark"
    /\ results' = R!MarkSent(results, worker[w].event)
    /\ Return(w)
    /\ UNCHANGED <<checkpoints, timer, published>>

Defer(w) ==
    /\ worker[w].pc \in {"publish", "mark"}
    /\ Return(w)
    /\ UNCHANGED <<checkpoints, results, timer, published>>
-----------------------------------------------------------------------------
(***************************************************************************)
(* dispatch_pending_results: the same dispatch, for a page of pending rows *)
(* of the table that build_result_store gives the worker for checkpoints   *)
(* too.  Rows of the partition analysis-checkpoint come first; each is no  *)
(* result, raises, and stays: all it does here is take a place.            *)
(***************************************************************************)
Unsettled == Cardinality(C!PendingKeys(checkpoints))

Room == IF Unsettled < PendingLimit THEN PendingLimit - Unsettled ELSE 0

TimerList ==
    LET keys == R!PendingPage(results, RowRank, Room) IN
    /\ timer.pc = "idle"
    /\ keys # {}
    /\ timer' = [pc |-> "loop", page |-> {PublicOf(e) : e \in keys}]
    /\ UNCHANGED <<message, worker, checkpoints, results, published>>

TimerPublish(r) ==
    /\ timer.pc = "loop"
    /\ r \in timer.page
    /\ published' = published \cup {r}
    /\ timer' = [pc |-> "mark", page |-> timer.page \ {r}, current |-> r]
    /\ UNCHANGED <<message, worker, checkpoints, results>>

TimerMark ==
    /\ timer.pc = "mark"
    /\ results' = R!MarkSent(results, timer.current.event)
    /\ timer' = [pc |-> "loop", page |-> timer.page]
    /\ UNCHANGED <<message, worker, checkpoints, published>>

TimerSkip ==
    /\ \/ /\ timer.pc = "loop"
          /\ \E r \in timer.page : timer' = [timer EXCEPT !.page = @ \ {r}]
       \/ /\ timer.pc = "mark"
          /\ timer' = [pc |-> "loop", page |-> timer.page]
    /\ UNCHANGED <<message, worker, checkpoints, results, published>>

TimerEnd ==
    /\ timer.pc # "idle"
    /\ timer' = Idle
    /\ UNCHANGED <<message, worker, checkpoints, results, published>>
-----------------------------------------------------------------------------
WorkerStep(w) ==
    \/ GetResult(w) \/ Retrieve(w) \/ Lookup(w) \/ Call(w) \/ Checkpoint(w)
    \/ Settle(w) \/ Stage(w) \/ Reread(w) \/ Publish(w) \/ Mark(w)

WorkerFault(w) == Raise(w) \/ Crash(w) \/ Defer(w)

TimerStep ==
    \/ TimerList \/ TimerMark \/ TimerSkip \/ TimerEnd
    \/ \E e \in Events : TimerPublish(PublicOf(e))

Next ==
    \/ \E w \in Workers : WorkerStep(w) \/ WorkerFault(w)
    \/ \E w \in Workers, e \in Events : Deliver(w, e)
    \/ \E e \in Events : LoseLock(e)
    \/ TimerStep

Spec == Init /\ [][Next]_vars

(***************************************************************************)
(* A function instance goes on until it ends (functionTimeout), the queue  *)
(* delivers what is queued and takes back a lock that is not released, and *)
(* the timer runs every minute against services whose outages end.         *)
(***************************************************************************)
Fairness ==
    /\ \A w \in Workers : WF_vars(WorkerStep(w))
    /\ \A e \in Events : /\ SF_vars(\E w \in Workers : Deliver(w, e))
                         /\ WF_vars(LoseLock(e))
                         /\ SF_vars(TimerPublish(PublicOf(e)))
    /\ WF_vars(TimerStep)
    /\ SF_vars(TimerMark)

FairSpec == Spec /\ Fairness
-----------------------------------------------------------------------------
TypeOK ==
    /\ message \in [Events -> MessageState]
    /\ worker \in [Workers -> WorkerState]
    /\ checkpoints \in [Events \X Providers -> C!Row]
    /\ results \in [Events -> R!Row]
    /\ timer \in TimerState
    /\ published \subseteq Public

(***************************************************************************)
(* Consumers of the results queue, which detects duplicates by an id made  *)
(* of the event alone, never see two different results of one event: all   *)
(* publishers publish the stored winner.                                   *)
(***************************************************************************)
ResultsAgree ==
    \A r \in published :
        results[r.event].state # "absent" /\ results[r.event].envelope = r.output

(***************************************************************************)
(* README.md:28 "ambiguous sends do not repeat completed OpenAI/Claude     *)
(* work": a delivery that begins when a provider's answer is on record     *)
(* never pays for that provider again.                                     *)
(***************************************************************************)
NoRepeatedWork ==
    \A w \in Workers :
        worker[w].pc = "call" => Head(worker[w].todo) \notin worker[w].knew

(***************************************************************************)
(* A stored result is made of the recorded answers, one for each provider  *)
(* of the event's route, not of the answers its own worker was given; and  *)
(* no checkpoint of it is left in the way of dispatch_pending_results.     *)
(***************************************************************************)
ResultsAreRecorded ==
    \A e \in Events \ Callbacks : results[e].state # "absent" =>
        \A p \in Providers :
            IF p \in ToSet(Route[e])
              THEN checkpoints[<<e, p>>] = [state |-> "sent", envelope |-> results[e].envelope[p]]
              ELSE results[e].envelope[p] = 0

(***************************************************************************)
(* The queue forgets a message only when its result is durable, and the    *)
(* outbox forgets a result only when the results queue has it.             *)
(***************************************************************************)
NothingForgotten ==
    \A e \in Events :
        /\ message[e].state = "done" => results[e].state # "absent"
        /\ results[e].state = "sent" => PublicOf(e) \in published

(***************************************************************************)
(* Every queued event is published some day, or its message is in the      *)
(* dead-letter queue, unless checkpoints fill the timer's page.            *)
(***************************************************************************)
QueuedIsPublished ==
    \A e \in Events :
        message[e].state = "queued" ~>
            \/ \E r \in published : r.event = e
            \/ message[e].state = "dead"
            \/ Room = 0

(***************************************************************************)
(* A stored result is published even if every worker that knew it failed   *)
(* and its message was dead-lettered, unless checkpoints that were never   *)
(* marked, because their messages were dead-lettered, fill the page.       *)
(***************************************************************************)
StoredIsPublished ==
    \A e \in Events :
        results[e].state = "pending" ~> (results[e].state = "sent" \/ Room = 0)
=============================================================================
