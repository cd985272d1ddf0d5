---------------------------- MODULE EventChannel ----------------------------
(***************************************************************************)
(* What the inbox promises to a provider and to the queue's consumer,      *)
(* whatever requests are repeated, reordered or interrupted: an event is   *)
(* put on the queue with one envelope only, and a request is answered with *)
(* success only when the envelope on the queue has its content.            *)
(***************************************************************************)
CONSTANTS
    Events,          \* delivery identities, (source, id)
    Envelopes,       \* envelopes a request can carry
    ContentOf        \* the hash of an envelope's content

VARIABLES
    queue,           \* the messages that have been put on the queue
    acked            \* the requests that were answered 2xx accepted/duplicate

Message == [event : Events, envelope : Envelopes]

Init ==
    /\ queue = {}
    /\ acked = {}

Accept(m) ==
    /\ \A n \in queue : n.event # m.event
    /\ queue' = queue \cup {m}
    /\ UNCHANGED acked

Acknowledge(r) ==
    /\ \E m \in queue : /\ m.event = r.event
                        /\ ContentOf[m.envelope] = ContentOf[r.envelope]
    /\ acked' = acked \cup {r}
    /\ UNCHANGED queue

Next == \E m \in Message : Accept(m) \/ Acknowledge(m)

Spec == Init /\ [][Next]_<<queue, acked>>
=============================================================================
