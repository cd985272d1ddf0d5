----------------------------- MODULE DailyQuota -----------------------------
(***************************************************************************)
(* AzureTableDailyQuota.allow of src/webhook_gateway/quota.py, for the     *)
(* partition of one repository and UTC day: a counter entity guarded by    *)
(* its ETag and one entity per delivery, changed together in a table       *)
(* transaction, in a loop of at most MaxRetries optimistic attempts.       *)
(***************************************************************************)
EXTENDS Naturals, FiniteSets

CONSTANTS
    Callers,       \* concurrent invocations of allow
    Deliveries,    \* event ids
    Limit,         \* units of the day, at least one (_validated_inputs)
    MaxRetries

ASSUME QuotaConstants ==
    /\ Limit \in Nat \ {0}
    /\ MaxRetries \in Nat \ {0}

VARIABLES
    count,         \* Count of the counter entity; 0 when there is no entity
    etag,          \* its version, a new one at each write
    recorded,      \* the deliveries that have an event entity
    caller,        \* the local state of each invocation
    granted,       \* the deliveries some invocation returned True for
    refused        \* the deliveries some invocation returned False for

vars == <<count, etag, recorded, caller, granted, refused>>

CallerState ==
    [pc : {"idle"}] \cup
    [pc : {"event", "counter"}, delivery : Deliveries, tries : 1..MaxRetries] \cup
    [pc : {"submit"}, delivery : Deliveries, tries : 1..MaxRetries,
     count : Nat, etag : Nat]

Idle == [pc |-> "idle"]

Init ==
    /\ count = 0
    /\ etag = 0
    /\ recorded = {}
    /\ caller = [c \in Callers |-> Idle]
    /\ granted = {}
    /\ refused = {}
-----------------------------------------------------------------------------
\* Faulty variants, from which the runs' properties must tell the code apart.

UnconditionalWrite(c) == caller[c].delivery \notin recorded

FullTooLate(n) == n > Limit

OneRetryTooMany(c) == caller[c].tries <= MaxRetries
-----------------------------------------------------------------------------
Return(c) == caller' = [caller EXCEPT ![c] = Idle]

Answer(c, allowed) ==
    /\ Return(c)
    /\ granted' = IF allowed THEN granted \cup {caller[c].delivery} ELSE granted
    /\ refused' = IF allowed THEN refused ELSE refused \cup {caller[c].delivery}

Attempt(c, d, n) ==
    caller' = [caller EXCEPT ![c] = [pc |-> "event", delivery |-> d, tries |-> n]]

Begin(c, d) ==
    /\ caller[c].pc = "idle"
    /\ Attempt(c, d, 1)
    /\ UNCHANGED <<count, etag, recorded, granted, refused>>

\* The event entity exists: the delivery holds a unit already.
ReadEvent(c) ==
    /\ caller[c].pc = "event"
    /\ \/ caller[c].delivery \in recorded /\ Answer(c, TRUE)
       \/ /\ caller[c].delivery \notin recorded
          /\ caller' = [caller EXCEPT ![c].pc = "counter"]
          /\ UNCHANGED <<granted, refused>>
    /\ UNCHANGED <<count, etag, recorded>>

Full(n) == n >= Limit

ReadCounter(c) ==
    /\ caller[c].pc = "counter"
    /\ \/ Full(count) /\ Answer(c, FALSE)
       \/ /\ ~Full(count)
          /\ caller' = [caller EXCEPT ![c] =
               [pc |-> "submit", delivery |-> @.delivery, tries |-> @.tries,
                count |-> count, etag |-> etag]]
          /\ UNCHANGED <<granted, refused>>
    /\ UNCHANGED <<count, etag, recorded>>

(***************************************************************************)
(* submit_transaction applies both writes or none: the counter is created  *)
(* if it is still absent or replaced if its ETag is still the one read     *)
(* (version 0 being absence), and the event entity must not exist.         *)
(***************************************************************************)
Applies(c) ==
    /\ caller[c].etag = etag
    /\ caller[c].delivery \notin recorded

WriteBoth(c) ==
    /\ count' = caller[c].count + 1
    /\ etag' = etag + 1
    /\ recorded' = recorded \cup {caller[c].delivery}

Submit(c) ==
    /\ caller[c].pc = "submit"
    /\ Applies(c)
    /\ WriteBoth(c)
    /\ Answer(c, TRUE)

\* Applied, but the call raises or the invocation is lost before the answer.
SubmitUnheard(c) ==
    /\ caller[c].pc = "submit"
    /\ Applies(c)
    /\ WriteBoth(c)
    /\ Return(c)
    /\ UNCHANGED <<granted, refused>>

RetriesLeft(c) == caller[c].tries < MaxRetries

\* A conflict is retried; after MaxRetries attempts allow raises.
Conflict(c) ==
    /\ caller[c].pc = "submit"
    /\ ~Applies(c)
    /\ \/ RetriesLeft(c) /\ Attempt(c, caller[c].delivery, caller[c].tries + 1)
       \/ ~RetriesLeft(c) /\ Return(c)
    /\ UNCHANGED <<count, etag, recorded, granted, refused>>

\* Any other exception, or the invocation is lost.
Fail(c) ==
    /\ caller[c].pc # "idle"
    /\ Return(c)
    /\ UNCHANGED <<count, etag, recorded, granted, refused>>
-----------------------------------------------------------------------------
Step(c) ==
    \/ \E d \in Deliveries : Begin(c, d)
    \/ ReadEvent(c) \/ ReadCounter(c) \/ Submit(c) \/ SubmitUnheard(c)
    \/ Conflict(c) \/ Fail(c)

Next == \E c \in Callers : Step(c)

Spec == Init /\ [][Next]_vars
-----------------------------------------------------------------------------
TypeOK ==
    /\ count \in Nat
    /\ etag \in Nat
    /\ recorded \subseteq Deliveries
    /\ caller \in [Callers -> CallerState]
    /\ granted \subseteq Deliveries
    /\ refused \subseteq Deliveries

(***************************************************************************)
(* The counter counts the event entities, whatever writes collided, and    *)
(* never passes the limit.                                                 *)
(***************************************************************************)
CounterAgrees ==
    /\ count = Cardinality(recorded)
    /\ count <= Limit

(***************************************************************************)
(* The optimistic loop implements the atomic quota.                        *)
(***************************************************************************)
Quota == INSTANCE AtomicQuota

ImplementsQuota == Quota!Spec
=============================================================================
