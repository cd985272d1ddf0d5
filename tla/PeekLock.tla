------------------------------ MODULE PeekLock ------------------------------
(***************************************************************************)
(* A Service Bus message in peek-lock mode, as the queue trigger of        *)
(* function_app.py uses it: a delivery locks the message for one worker;   *)
(* the host completes it when the function returns and abandons it when    *)
(* the function raises, if the lock is still the worker's; a message given *)
(* back MaxDelivery times is dead-lettered.                                *)
(***************************************************************************)
EXTENDS Naturals

CONSTANTS
    Workers,       \* function instances, one message at a time each
    MaxDelivery    \* maxDeliveryCount of the queue

NoWorker == "none"

MessageState ==
    [state : {"queued", "locked", "done", "dead"}, holder : Workers \cup {NoWorker},
     deliveries : 0..MaxDelivery]

Queued == [state |-> "queued", holder |-> NoWorker, deliveries |-> 0]

Locked(m, w) == [state |-> "locked", holder |-> w, deliveries |-> m.deliveries + 1]

IsHeldBy(m, w) == m.state = "locked" /\ m.holder = w

Completed(m, w) ==
    IF IsHeldBy(m, w) THEN [m EXCEPT !.state = "done", !.holder = NoWorker] ELSE m

GivenBack(m) ==
    [m EXCEPT !.holder = NoWorker,
              !.state = IF m.deliveries < MaxDelivery THEN "queued" ELSE "dead"]

Abandoned(m, w) == IF IsHeldBy(m, w) THEN GivenBack(m) ELSE m
=============================================================================
