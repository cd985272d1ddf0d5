---------------------------- MODULE AtomicQuota -----------------------------
(***************************************************************************)
(* What a daily quota promises for one repository and UTC day, as one      *)
(* atomic step per answer: a delivery is granted when it is on record or a *)
(* unit is left for it, and it is refused only when no unit is left.  A    *)
(* reservation whose reply is lost leaves a record nobody was told of.     *)
(***************************************************************************)
EXTENDS Naturals, FiniteSets

CONSTANTS
    Deliveries,
    Limit

VARIABLES
    recorded,    \* deliveries that hold a unit
    granted,     \* deliveries some caller was allowed to dispatch
    refused      \* deliveries some caller was told to drop

Init ==
    /\ recorded = {}
    /\ granted = {}
    /\ refused = {}

UnitFor(d) == d \in recorded \/ Cardinality(recorded) < Limit

Grant(d) ==
    /\ UnitFor(d)
    /\ recorded' = recorded \cup {d}
    /\ granted' = granted \cup {d}
    /\ UNCHANGED refused

GrantUnheard(d) ==
    /\ UnitFor(d)
    /\ recorded' = recorded \cup {d}
    /\ UNCHANGED <<granted, refused>>

Refuse(d) ==
    /\ Cardinality(recorded) >= Limit
    /\ refused' = refused \cup {d}
    /\ UNCHANGED <<recorded, granted>>

Next == \E d \in Deliveries : Grant(d) \/ GrantUnheard(d) \/ Refuse(d)

Spec == Init /\ [][Next]_<<recorded, granted, refused>>
=============================================================================
