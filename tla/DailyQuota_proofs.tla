------------------------- MODULE DailyQuota_proofs --------------------------
(***************************************************************************)
(* The optimistic quota loop is the atomic quota, for any number of        *)
(* concurrent invocations, deliveries, units and retries.                  *)
(***************************************************************************)
EXTENDS DailyQuota, FiniteSetTheorems, TLAPS

(***************************************************************************)
(* An invocation that is about to submit read a count that was below the   *)
(* limit, and that is still the count if the version is still the same.    *)
(***************************************************************************)
ReadIsCurrent(c) ==
    caller[c].pc = "submit" =>
        /\ caller[c].count < Limit
        /\ caller[c].etag <= etag
        /\ caller[c].etag = etag => caller[c].count = count

IInv ==
    /\ TypeOK
    /\ IsFiniteSet(recorded)
    /\ CounterAgrees
    /\ granted \subseteq recorded
    /\ \A c \in Callers : ReadIsCurrent(c)

LEMMA InvInit == Init => IInv
<1> SUFFICES ASSUME Init PROVE IInv
  OBVIOUS
<1>1. TypeOK
  BY DEF Init, TypeOK, Idle, CallerState
<1>2. IsFiniteSet(recorded) /\ Cardinality(recorded) = 0
  BY FS_EmptySet DEF Init
<1>3. \A c \in Callers : ReadIsCurrent(c)
  BY DEF Init, Idle, ReadIsCurrent
<1> QED
  BY <1>1, <1>2, <1>3, QuotaConstants DEF Init, IInv, CounterAgrees

(***************************************************************************)
(* Steps of an invocation that read, retry or end.                         *)
(***************************************************************************)
LEMMA QuietStep ==
  ASSUME IInv, NEW c \in Callers,
         \/ Begin(c, caller'[c].delivery) /\ caller'[c].delivery \in Deliveries
         \/ ReadEvent(c) \/ ReadCounter(c) \/ Conflict(c) \/ Fail(c)
  PROVE  IInv'
<1> USE DEF IInv
<1>1. UNCHANGED <<count, etag, recorded>>
  BY DEF Begin, ReadEvent, ReadCounter, Conflict, RetriesLeft, Fail
<1>2. \A b \in Callers : b # c => caller'[b] = caller[b]
  BY DEF TypeOK, Begin, ReadEvent, ReadCounter, Conflict, RetriesLeft, Fail, Attempt, Answer, Return
<1>3. caller[c] \in CallerState
  BY DEF TypeOK
<1>4. /\ caller' \in [Callers -> CallerState]
      /\ ReadIsCurrent(c)'
  <2>1. CASE Begin(c, caller'[c].delivery) /\ caller'[c].delivery \in Deliveries
    BY <2>1, QuotaConstants DEF Begin, Attempt, TypeOK, CallerState, ReadIsCurrent
  <2>2. CASE ReadEvent(c)
    BY <1>3, <2>2 DEF ReadEvent, Answer, Return, Idle, TypeOK, CallerState, ReadIsCurrent
  <2>3. CASE ReadCounter(c)
    BY <1>3, <2>3, QuotaConstants
       DEF ReadCounter, Full, Answer, Return, Idle, TypeOK, CallerState, ReadIsCurrent
  <2>4. CASE Conflict(c)
    BY <1>3, <2>4, QuotaConstants
       DEF Conflict, RetriesLeft, Attempt, Return, Idle, TypeOK, CallerState, ReadIsCurrent
  <2>5. CASE Fail(c)
    BY <2>5 DEF Fail, Return, Idle, TypeOK, CallerState, ReadIsCurrent
  <2> QED
    BY <2>1, <2>2, <2>3, <2>4, <2>5
<1>5. /\ granted' \subseteq recorded
      /\ refused' \subseteq Deliveries
  BY <1>3 DEF TypeOK, Begin, ReadEvent, ReadCounter, Conflict, RetriesLeft, Fail, Answer, CallerState
<1>6. \A b \in Callers : ReadIsCurrent(b)'
  BY <1>1, <1>2, <1>4 DEF ReadIsCurrent
<1> QED
  BY <1>1, <1>4, <1>5, <1>6 DEF TypeOK, CounterAgrees

(***************************************************************************)
(* A transaction that applies adds one event entity and one to the count,  *)
(* and outdates every other read.                                          *)
(***************************************************************************)
LEMMA WriteStep ==
  ASSUME IInv, NEW c \in Callers, Submit(c) \/ SubmitUnheard(c)
  PROVE  IInv'
<1> USE DEF IInv
<1>1. /\ caller[c] \in [pc : {"submit"}, delivery : Deliveries, tries : 1..MaxRetries,
                        count : Nat, etag : Nat]
      /\ ReadIsCurrent(c)
  BY DEF TypeOK, CallerState, Submit, SubmitUnheard
<1>2. /\ caller[c].delivery \in Deliveries \ recorded
      /\ caller[c].count = count
      /\ count < Limit
  BY <1>1 DEF Submit, SubmitUnheard, Applies, ReadIsCurrent
<1>3. /\ recorded' = recorded \cup {caller[c].delivery}
      /\ count' = count + 1
      /\ etag' = etag + 1
      /\ caller' = [caller EXCEPT ![c] = Idle]
  BY <1>2 DEF Submit, SubmitUnheard, WriteBoth, Answer, Return
<1>4. IsFiniteSet(recorded') /\ Cardinality(recorded') = Cardinality(recorded) + 1
  BY <1>2, <1>3, FS_AddElement
<1>5. CounterAgrees'
  BY <1>2, <1>3, <1>4, QuotaConstants DEF CounterAgrees, TypeOK
<1>6. \A b \in Callers : ReadIsCurrent(b)'
  <2> SUFFICES ASSUME NEW b \in Callers PROVE ReadIsCurrent(b)'
    OBVIOUS
  <2>1. CASE b = c
    BY <1>3, <2>1 DEF TypeOK, ReadIsCurrent, Idle
  <2>2. CASE b # c
    <3>1. caller'[b] = caller[b] /\ caller[b] \in CallerState
      BY <1>3, <2>2 DEF TypeOK
    <3>2. caller[b].pc = "submit" => caller[b].etag \in Nat
      BY <3>1 DEF CallerState
    <3> QED
      BY <1>3, <3>1, <3>2 DEF TypeOK, ReadIsCurrent
  <2> QED
    BY <2>1, <2>2
<1>7. TypeOK' /\ granted' \subseteq recorded'
  <2>1. caller' \in [Callers -> CallerState]
    BY <1>3 DEF TypeOK, CallerState, Idle
  <2>2. /\ granted' \subseteq recorded'
        /\ refused' \subseteq Deliveries
    BY <1>2, <1>3 DEF TypeOK, Submit, SubmitUnheard, Answer
  <2> QED
    BY <1>2, <1>3, <2>1, <2>2 DEF TypeOK
<1> QED
  BY <1>4, <1>5, <1>6, <1>7

LEMMA InvStep == IInv /\ [Next]_vars => IInv'
<1> SUFFICES ASSUME IInv, [Next]_vars PROVE IInv'
  OBVIOUS
<1>1. ASSUME NEW c \in Callers, NEW d \in Deliveries, Begin(c, d)
      PROVE  IInv'
  <2>1. caller'[c].delivery = d
    BY <1>1 DEF Begin, Attempt, IInv, TypeOK
  <2> QED
    BY <1>1, <2>1, QuietStep
<1>2. CASE UNCHANGED vars
  BY <1>2 DEF vars, IInv, TypeOK, CounterAgrees, ReadIsCurrent
<1> QED
  BY <1>1, <1>2, QuietStep, WriteStep DEF Next, Step
-----------------------------------------------------------------------------
(***************************************************************************)
(* The instance's copy of the library operator is the library operator.    *)
(***************************************************************************)
LEMMA SameCardinality == \A S : Quota!Cardinality(S) = Cardinality(S)
  BY DEF Cardinality, Quota!Cardinality

(***************************************************************************)
(* The inductive invariant holds in every reachable state.                 *)
(***************************************************************************)
THEOREM Invariance == Spec => []IInv
<1> QED
  BY InvInit, InvStep, PTL DEF Spec

(***************************************************************************)
(* The variables of the quota keep their types.                            *)
(***************************************************************************)
THEOREM TypeCorrect == Spec => []TypeOK
<1>1. IInv => TypeOK
  BY DEF IInv
<1> QED
  BY <1>1, Invariance, PTL

(***************************************************************************)
(* The counter entity and the event entities never disagree and the limit  *)
(* is never passed, whatever transactions of AzureTableDailyQuota collide. *)
(***************************************************************************)
THEOREM CounterCorrect == Spec => []CounterAgrees
<1>1. IInv => CounterAgrees
  BY DEF IInv
<1> QED
  BY <1>1, Invariance, PTL

(***************************************************************************)
(* Every invocation's answer is one the atomic quota could have given.     *)
(***************************************************************************)
THEOREM Implementation == Spec => ImplementsQuota
<1>1. Init => Quota!Init
  BY DEF Init, Quota!Init
<1>2. IInv /\ [Next]_vars => [Quota!Next]_<<recorded, granted, refused>>
  <2> SUFFICES ASSUME IInv, [Next]_vars, ~UNCHANGED <<recorded, granted, refused>>
               PROVE  Quota!Next
    OBVIOUS
  <2> USE DEF IInv, Quota!Next
  <2>1. \A c \in Callers : caller[c].pc # "idle" => caller[c].delivery \in Deliveries
    BY DEF TypeOK, CallerState
  <2>2. ASSUME NEW c \in Callers, ReadEvent(c)
        PROVE  Quota!Next
    <3>1. caller[c].delivery \in recorded /\ Answer(c, TRUE) /\ recorded' = recorded
      BY <2>2 DEF ReadEvent
    <3>2. Quota!Grant(caller[c].delivery)
      BY <3>1 DEF Answer, Quota!Grant, Quota!UnitFor
    <3> QED
      BY <2>1, <2>2, <3>2 DEF ReadEvent
  <2>3. ASSUME NEW c \in Callers, ReadCounter(c)
        PROVE  Quota!Next
    <3>1. Full(count) /\ Answer(c, FALSE) /\ recorded' = recorded
      BY <2>3 DEF ReadCounter
    <3>2. Quota!Refuse(caller[c].delivery)
      BY <3>1, SameCardinality DEF Answer, Full, CounterAgrees, Quota!Refuse
    <3> QED
      BY <2>1, <2>3, <3>2 DEF ReadCounter
  <2>4. ASSUME NEW c \in Callers, Submit(c) \/ SubmitUnheard(c)
        PROVE  Quota!Next
    <3>1. Cardinality(recorded) < Limit
      <4>1. ReadIsCurrent(c) /\ caller[c].etag = etag
        BY <2>4 DEF Submit, SubmitUnheard, Applies
      <4> QED
        BY <2>4, <4>1 DEF Submit, SubmitUnheard, ReadIsCurrent, CounterAgrees
    <3>2. Quota!Grant(caller[c].delivery) \/ Quota!GrantUnheard(caller[c].delivery)
      BY <2>4, <3>1, SameCardinality
         DEF Submit, SubmitUnheard, WriteBoth, Answer, Quota!Grant,
             Quota!GrantUnheard, Quota!UnitFor
    <3> QED
      BY <2>1, <2>4, <3>2 DEF Submit, SubmitUnheard
  <2> QED
    BY <2>2, <2>3, <2>4 DEF Next, Step, Begin, Conflict, RetriesLeft, Fail, vars
<1> QED
  BY <1>1, <1>2, Invariance, PTL DEF Spec, ImplementsQuota, Quota!Spec
=============================================================================
