------------------------------- MODULE Intake -------------------------------
(***************************************************************************)
(* The durable intake of src/webhook_gateway/intake.py with the table of   *)
(* idempotency.py, the claim-check blobs of payloads.py, the publisher of  *)
(* queueing.py and the timer dispatch_pending_webhooks of function_app.py. *)
(*                                                                         *)
(* A handler is one HTTP invocation (or one run of the reconciliation      *)
(* timer, which stages, publishes and marks in the same way).  Each of its *)
(* steps is one call to a remote service, so any other handler, the        *)
(* dispatcher and a crash can come between two of them.  Requests that     *)
(* fail verification change no state and are left out.                     *)
(***************************************************************************)
EXTENDS Naturals, FiniteSets

CONSTANTS
    Events,          \* delivery identities, (source, id)
    Github,          \* the events of source github, of one repository
    Admitted,        \* the github events the admission policy allows
    Envelopes,       \* envelopes built from requests
    NoEnvelope,
    ContentOf,       \* event_payload_hash: all of the envelope but received_at
    Requests,        \* the verified requests that providers may send
    Handlers,        \* concurrent HTTP invocations
    Oversize,        \* events whose queue message always exceeds the size limit
    RowRank,         \* the order in which the table service lists rows
    PendingLimit,    \* pending(limit=100)
    DailyLimit,      \* the quota of one repository
    MaxDay           \* bound on the days explored

ASSUME IntakeConstants ==
    /\ Github \subseteq Events
    /\ Admitted \subseteq Github
    /\ Oversize \subseteq Events
    /\ NoEnvelope \notin Envelopes
    /\ Requests \subseteq [event : Events, envelope : Envelopes]
    /\ RowRank \in [Events -> Nat]
    /\ MaxDay \in Nat
    /\ PendingLimit \in Nat
    /\ DailyLimit \in Nat

VARIABLES
    rows,        \* the intake table
    blobs,       \* claim-check blobs uploaded, by event and envelope
    handed,      \* messages the broker has taken from a publisher
    handler,     \* the local state of each invocation
    timer,       \* the local state of dispatch_pending_webhooks
    charged,     \* the events recorded in the quota partition of each day
    day,         \* the current UTC day
    answered     \* the requests answered 2xx accepted or duplicate

vars == <<rows, blobs, handed, handler, timer, charged, day, answered>>

INSTANCE EventTable WITH Keys <- Events

Message == [event : Events, envelope : Envelopes]

Staging == {"lookup", "quota", "prepare", "create", "read"}

\* pc, the request being served, and staged.event once stage() has returned it.
HandlerState ==
    [pc : {"idle"}] \cup
    [pc : Staging, request : Requests] \cup
    [pc : {"publish", "mark"}, request : Requests, staged : Envelopes]

\* The page listed by pending(), and the message published but not yet marked.
TimerState ==
    [pc : {"idle"}] \cup
    [pc : {"loop"}, page : SUBSET Message] \cup
    [pc : {"mark"}, page : SUBSET Message, current : Message]

Idle == [pc |-> "idle"]

Init ==
    /\ rows = EmptyTable
    /\ blobs = {}
    /\ handed = {}
    /\ handler = [h \in Handlers |-> Idle]
    /\ timer = Idle
    /\ charged = [d \in 0..MaxDay |-> {}]
    /\ day = 0
    /\ answered = {}
-----------------------------------------------------------------------------
(***************************************************************************)
(* Faulty variants, from which the runs' properties must tell the code     *)
(* apart.                                                                  *)
(***************************************************************************)
QuotaLeftOffByOne == Cardinality(charged[day]) <= DailyLimit

PublishesOwnEnvelope(h) == handler[h].request.envelope

UploadForgotten(h) == UNCHANGED blobs

SendErrorSwallowed(e, v) ==
    handed' \in {handed, handed \cup {[event |-> e, envelope |-> v]}}

DuplicateOnAnyRow(h) == rows[handler[h].request.event].state # "absent"
-----------------------------------------------------------------------------
Goto(h, step) == handler' = [handler EXCEPT ![h].pc = step]

Return(h) == handler' = [handler EXCEPT ![h] = Idle]

AnswerSuccess(h) == answered' = answered \cup {handler[h].request}

(***************************************************************************)
(* A verified request reaches an invocation.  github() first looks for an  *)
(* existing record; the other sources go straight to _publish_once.        *)
(***************************************************************************)
Receive(h, r) ==
    /\ handler[h].pc = "idle"
    /\ handler' = [handler EXCEPT ![h] =
         [pc |-> IF r.event \in Github THEN "lookup" ELSE "prepare",
          request |-> r]]
    /\ UNCHANGED <<rows, blobs, handed, timer, charged, day, answered>>

(***************************************************************************)
(* github(): an existing record skips the policy and the quota.            *)
(***************************************************************************)
Lookup(h) ==
    LET e == handler[h].request.event IN
    /\ handler[h].pc = "lookup"
    /\ \/ rows[e].state # "absent" /\ Goto(h, "prepare")
       \/ rows[e].state = "absent" /\ e \in Admitted /\ Goto(h, "quota")
       \/ rows[e].state = "absent" /\ e \notin Admitted /\ Return(h)
    /\ UNCHANGED <<rows, blobs, handed, timer, charged, day, answered>>

QuotaLeft == Cardinality(charged[day]) < DailyLimit

(***************************************************************************)
(* DailyQuota.allow as one step, as AtomicQuota promises it: a delivery on *)
(* record today takes no new unit, and once no unit is left any delivery   *)
(* may be refused, even one that a concurrent invocation just recorded.    *)
(***************************************************************************)
Reserve(h) ==
    LET e == handler[h].request.event IN
    /\ handler[h].pc = "quota"
    /\ \/ /\ e \in charged[day] \/ QuotaLeft
          /\ charged' = [charged EXCEPT ![day] = @ \cup {e}]
          /\ Goto(h, "prepare")
       \/ ~QuotaLeft /\ Return(h) /\ UNCHANGED charged
    /\ UNCHANGED <<rows, blobs, handed, timer, day, answered>>

(***************************************************************************)
(* stage() in three requests: the payload blob, the row, then a separate   *)
(* read of whatever row is there.                                          *)
(***************************************************************************)
Upload(h) ==
    blobs' = blobs \cup {handler[h].request}

Prepare(h) ==
    /\ handler[h].pc = "prepare"
    /\ Upload(h)
    /\ Goto(h, "create")
    /\ UNCHANGED <<rows, handed, timer, charged, day, answered>>

Create(h) ==
    LET r == handler[h].request IN
    /\ handler[h].pc = "create"
    /\ rows' = CreateEntity(rows, r.event, r.envelope)
    /\ Goto(h, "read")
    /\ UNCHANGED <<blobs, handed, timer, charged, day, answered>>

\* existing_payload_policy = "reject": the same id with another content raises.
SameContent(h) ==
    LET r == handler[h].request IN
    ContentOf[rows[r.event].envelope] = ContentOf[r.envelope]

StagedEnvelope(h) == rows[handler[h].request.event].envelope

IsDuplicate(h) == rows[handler[h].request.event].state = "sent"

Read(h) ==
    LET r == handler[h].request IN
    /\ handler[h].pc = "read"
    /\ rows[r.event].state # "absent"
    /\ \/ ~SameContent(h) /\ Return(h) /\ UNCHANGED answered
       \/ SameContent(h) /\ IsDuplicate(h) /\ Return(h) /\ AnswerSuccess(h)
       \/ /\ SameContent(h) /\ ~IsDuplicate(h)
          /\ handler' = [handler EXCEPT ![h] =
               [pc |-> "publish", request |-> r, staged |-> StagedEnvelope(h)]]
          /\ UNCHANGED answered
    /\ UNCHANGED <<rows, blobs, handed, timer, charged, day>>

(***************************************************************************)
(* publish(): the broker takes the message; its duplicate detection works  *)
(* on the message id, a hash of (source, id).                              *)
(***************************************************************************)
HandOver(e, v) == handed' = handed \cup {[event |-> e, envelope |-> v]}

Publish(h) ==
    LET e == handler[h].request.event IN
    /\ handler[h].pc = "publish"
    /\ e \notin Oversize
    /\ HandOver(e, handler[h].staged)
    /\ Goto(h, "mark")
    /\ UNCHANGED <<rows, blobs, timer, charged, day, answered>>

Mark(h) ==
    /\ handler[h].pc = "mark"
    /\ rows' = MarkSent(rows, handler[h].request.event)
    /\ Return(h)
    /\ AnswerSuccess(h)
    /\ UNCHANGED <<blobs, handed, timer, charged, day>>

(***************************************************************************)
(* Any call raises (the provider gets an error), or the process is lost    *)
(* (it gets nothing).  An ambiguous call, applied but reported as failed,  *)
(* is its step followed by this one.                                       *)
(***************************************************************************)
Fail(h) ==
    /\ handler[h].pc # "idle"
    /\ Return(h)
    /\ UNCHANGED <<rows, blobs, handed, timer, charged, day, answered>>
-----------------------------------------------------------------------------
(***************************************************************************)
(* dispatch_pending_webhooks: list a page of pending rows once, then, for  *)
(* each, publish and mark; an exception is logged and the loop goes on.    *)
(***************************************************************************)
TimerList ==
    LET keys == PendingPage(rows, RowRank, PendingLimit) IN
    /\ timer.pc = "idle"
    /\ keys # {}
    /\ timer' = [pc |-> "loop",
                 page |-> {[event |-> e, envelope |-> rows[e].envelope] : e \in keys}]
    /\ UNCHANGED <<rows, blobs, handed, handler, charged, day, answered>>

TimerPublish(m) ==
    /\ timer.pc = "loop"
    /\ m \in timer.page
    /\ m.event \notin Oversize
    /\ HandOver(m.event, m.envelope)
    /\ timer' = [pc |-> "mark", page |-> timer.page \ {m}, current |-> m]
    /\ UNCHANGED <<rows, blobs, handler, charged, day, answered>>

TimerMark ==
    /\ timer.pc = "mark"
    /\ rows' = MarkSent(rows, timer.current.event)
    /\ timer' = [pc |-> "loop", page |-> timer.page]
    /\ UNCHANGED <<blobs, handed, handler, charged, day, answered>>

\* The publish or the mark of one row raised.
TimerSkip ==
    /\ \/ /\ timer.pc = "loop"
          /\ \E m \in timer.page : timer' = [timer EXCEPT !.page = @ \ {m}]
       \/ /\ timer.pc = "mark"
          /\ timer' = [pc |-> "loop", page |-> timer.page]
    /\ UNCHANGED <<rows, blobs, handed, handler, charged, day, answered>>

\* The loop is over, or the host is lost in the middle of it.
TimerEnd ==
    /\ timer.pc # "idle"
    /\ timer' = Idle
    /\ UNCHANGED <<rows, blobs, handed, handler, charged, day, answered>>

NextDay ==
    /\ day < MaxDay
    /\ day' = day + 1
    /\ UNCHANGED <<rows, blobs, handed, handler, timer, charged, answered>>
-----------------------------------------------------------------------------
HandlerStep(h) ==
    \/ \E r \in Requests : Receive(h, r)
    \/ Lookup(h) \/ Reserve(h) \/ Prepare(h) \/ Create(h) \/ Read(h)
    \/ Publish(h) \/ Mark(h) \/ Fail(h)

TimerStep ==
    \/ TimerList \/ TimerMark \/ TimerSkip \/ TimerEnd
    \/ \E m \in Message : TimerPublish(m)

Next == (\E h \in Handlers : HandlerStep(h)) \/ TimerStep \/ NextDay

Spec == Init /\ [][Next]_vars

(***************************************************************************)
(* The Functions timer runs the dispatcher every minute, and an outage of  *)
(* the table or of the broker ends: a call made again and again succeeds.  *)
(* Nothing is assumed of providers or of HTTP invocations.                 *)
(***************************************************************************)
Fairness ==
    /\ WF_vars(TimerStep)
    /\ SF_vars(TimerMark)
    /\ \A m \in Message : SF_vars(TimerPublish(m))

FairSpec == Spec /\ Fairness
-----------------------------------------------------------------------------
TypeOK ==
    /\ rows \in [Events -> Row]
    /\ blobs \subseteq Message
    /\ handed \subseteq Message
    /\ handler \in [Handlers -> HandlerState]
    /\ timer \in TimerState
    /\ charged \in [0..MaxDay -> SUBSET Events]
    /\ day \in 0..MaxDay
    /\ answered \subseteq Requests

(***************************************************************************)
(* Whoever publishes an event, however often and from whichever request,   *)
(* publishes the envelope its row was created with, so that the broker's   *)
(* duplicate detection never drops one content in favour of another.       *)
(***************************************************************************)
MessagesAgree ==
    \A m \in handed :
        rows[m.event].state # "absent" /\ rows[m.event].envelope = m.envelope

(***************************************************************************)
(* A row is marked sent only after the broker has taken its message, so a  *)
(* row that retries and the dispatcher ignore has lost nothing.            *)
(***************************************************************************)
SentIsHanded ==
    \A e \in Events : rows[e].state = "sent" =>
        [event |-> e, envelope |-> rows[e].envelope] \in handed

(***************************************************************************)
(* Every pointer in the table or on the queue leads to a blob that is      *)
(* already there: the blob is written before anything refers to it.        *)
(***************************************************************************)
PointersResolve ==
    /\ handed \subseteq blobs
    /\ \A e \in Events : rows[e].state # "absent" =>
          [event |-> e, envelope |-> rows[e].envelope] \in blobs

(***************************************************************************)
(* The repository's daily limit bounds what reaches the model-calling      *)
(* worker: after d + 1 days at most (d + 1) * DailyLimit github events are *)
(* on the queue, whatever retries, races and recoveries happened.          *)
(***************************************************************************)
QuotaBoundsQueue ==
    Cardinality({e \in Github : \E m \in handed : m.event = e})
        <= (day + 1) * DailyLimit

(***************************************************************************)
(* The inbox implements the abstract channel: no event is queued with two  *)
(* envelopes, and a provider that was answered 2xx, which will not send    *)
(* again, finds the content of its request on the queue.                   *)
(***************************************************************************)
Channel == INSTANCE EventChannel WITH queue <- handed, acked <- answered

ImplementsChannel == Channel!Spec

(***************************************************************************)
(* A staged event whose message fits the queue is marked sent some day,    *)
(* even if every handler that knew it died, provided that the rows that    *)
(* can never be sent do not fill the page the dispatcher looks at.         *)
(***************************************************************************)
PendingIsDispatched ==
    Cardinality(Oversize) < PendingLimit =>
        \A e \in Events \ Oversize :
            rows[e].state = "pending" ~> rows[e].state = "sent"
=============================================================================
