------------------------ MODULE Subscriptions_proofs ------------------------
(***************************************************************************)
(* Safety of Subscriptions for any number of subscriptions, deployments    *)
(* and concurrent bootstrap requests.                                      *)
(***************************************************************************)
EXTENDS Subscriptions, TLAPS

(***************************************************************************)
(* An invocation past its first call has seen the cursor seeded, so that   *)
(* what it creates comes after it, however the invocations interleave.     *)
(***************************************************************************)
PastCursor == {"record", "get", "list", "renew", "replace", "save"}

PastCursorIsSeeded == \A i \in Invocations : run[i].pc \in PastCursor => seeded

IInv ==
    /\ TypeOK
    /\ PastCursorIsSeeded
    /\ SubscribedIsSeeded
    /\ TrustedAnswers
-----------------------------------------------------------------------------
(***************************************************************************)
(* What the steps do to the invocations: an invocation goes on, or ends,   *)
(* or loses a subscription that it knew.                                   *)
(***************************************************************************)
At(i) == run[i].pc \notin {"idle", "reconcile"}

LEMMA Running ==
  ASSUME TypeOK, NEW i \in Invocations, At(i)
  PROVE  run[i] \in [pc : PastCursor \cup {"cursor"}, url : Urls,
                     id : Ids \cup {None, Gone}, stale : SUBSET Ids]
  BY DEF TypeOK, RunState, At, PastCursor

LEMMA GoesOn ==
  ASSUME TypeOK, PastCursorIsSeeded, NEW i \in Invocations, At(i), seeded => seeded',
         NEW pc \in PastCursor, seeded',
         NEW id \in Ids \cup {None, Gone}, NEW stale \in SUBSET Ids, GoOn(i, pc, id, stale)
  PROVE  run' \in [Invocations -> RunState] /\ PastCursorIsSeeded'
<1> DEFINE state == [pc |-> pc, url |-> run[i].url, id |-> id, stale |-> stale]
<1>1. run \in [Invocations -> RunState]
  BY DEF TypeOK
<1>2. run' = [run EXCEPT ![i] = state]
  BY DEF GoOn
<1>3. state \in RunState
  BY Running DEF RunState, PastCursor
<1> QED
  BY <1>1, <1>2, <1>3 DEF PastCursorIsSeeded

LEMMA Ends ==
  ASSUME TypeOK, PastCursorIsSeeded, NEW i \in Invocations, seeded => seeded',
         \/ run' = [run EXCEPT ![i] = Idle]
         \/ run' = Ended(i)
         \/ run' = AfterFailure(i)
         \/ Begin(i)
  PROVE  run' \in [Invocations -> RunState] /\ PastCursorIsSeeded'
<1>1. run \in [Invocations -> RunState] /\ url \in Urls
  BY DEF TypeOK
<1>2. \E s \in RunState : s.pc \notin PastCursor /\ run' = [run EXCEPT ![i] = s]
  BY <1>1 DEF Ended, AfterFailure, Begin, Idle, RunState, PastCursor
<1> QED
  BY <1>1, <1>2 DEF PastCursorIsSeeded

LEMMA VanishStep ==
  ASSUME TypeOK, PastCursorIsSeeded, NEW s \in Ids, Vanish(s), UNCHANGED seeded
  PROVE  /\ subs' \in [Ids -> Subscription \cup {None}]
         /\ Live' \subseteq Live
         /\ recorded' \in Ids \cup {None, Gone}
         /\ run' \in [Invocations -> RunState]
         /\ PastCursorIsSeeded'
<1>1. /\ subs \in [Ids -> Subscription \cup {None}]
      /\ run \in [Invocations -> RunState]
  BY DEF TypeOK
<1>2. subs' \in [Ids -> Subscription \cup {None}] /\ Live' \subseteq Live
  BY <1>1 DEF Vanish, Live
<1>3. recorded' \in Ids \cup {None, Gone}
  BY DEF TypeOK, Vanish
<1>4. ASSUME NEW i \in Invocations, At(i)
      PROVE  run'[i] \in RunState /\ run'[i].pc = run[i].pc
  <2> DEFINE id == IF run[i].id = s THEN Gone ELSE run[i].id
             state == [pc |-> run[i].pc, url |-> run[i].url, id |-> id,
                       stale |-> run[i].stale \ {s}]
  <2>1. run'[i] = [run[i] EXCEPT !.id = id, !.stale = run[i].stale \ {s}]
    BY <1>4 DEF Vanish, At
  <2>2. run'[i] = state
    BY <1>4, <2>1, Running
  <2>3. run[i].id \in Ids \cup {None, Gone} /\ run[i].stale \in SUBSET Ids
        /\ run[i].pc \in PastCursor \cup {"cursor"} /\ run[i].url \in Urls
    BY <1>4, Running
  <2>4. id \in Ids \cup {None, Gone} /\ run[i].stale \ {s} \in SUBSET Ids
    BY <2>3
  <2> HIDE DEF id
  <2>5. state \in RunState
    BY <2>3, <2>4 DEF RunState, PastCursor
  <2> QED
    BY <2>2, <2>5
<1>5. ASSUME NEW i \in Invocations, ~At(i)
      PROVE  run'[i] = run[i]
  BY <1>5 DEF Vanish, At
<1>6. \A i \in Invocations : run'[i] \in RunState /\ run'[i].pc = run[i].pc
  BY <1>1, <1>4, <1>5
<1>7. run' \in [Invocations -> RunState]
  BY <1>6 DEF Vanish
<1> QED
  BY <1>2, <1>3, <1>6, <1>7 DEF PastCursorIsSeeded
-----------------------------------------------------------------------------
LEMMA InvInit == Init => IInv
<1> SUFFICES ASSUME Init PROVE IInv
  OBVIOUS
<1>1. url \in Urls
  BY SubscriptionConstants DEF Init
<1>2. run \in [Invocations -> RunState] /\ \A i \in Invocations : run[i].pc = "idle"
  BY DEF Init, Idle, RunState
<1>3. /\ subs \in [Ids -> Subscription \cup {None}]
      /\ recorded \in Ids \cup {None, Gone}
      /\ faults \in 0..MaxFaults
      /\ down = FALSE /\ seeded = FALSE /\ dirty = FALSE /\ told = TRUE
  BY SubscriptionConstants DEF Init
<1>4. TypeOK
  BY <1>1, <1>2, <1>3 DEF TypeOK
<1>5. PastCursorIsSeeded /\ SubscribedIsSeeded
  BY <1>2 DEF Init, PastCursorIsSeeded, PastCursor, SubscribedIsSeeded, Live
<1>6. TrustedAnswers
  BY DEF Init, TrustedAnswers
<1> QED
  BY <1>4, <1>5, <1>6 DEF IInv

(***************************************************************************)
(* The steps of an invocation up to the last: only Create adds a           *)
(* subscription, and only Save writes the record.                          *)
(***************************************************************************)
Calls(i) ==
    Seed(i) \/ ReadRecord(i) \/ Get(i) \/ List(i) \/ Renew(i) \/ Create(i)

LEMMA AtCall ==
  ASSUME NEW i \in Invocations, Calls(i) \/ Save(i) \/ Raise(i) \/ \E s \in Ids : Delete(i, s)
  PROVE  At(i)
  BY DEF Calls, At, Seed, ReadRecord, Get, List, Renew, Create, MayCreate, Save, Raise, Delete

LEMMA SelectStep ==
  ASSUME TypeOK, PastCursorIsSeeded, NEW i \in Invocations, At(i), run[i].pc # "cursor",
         UNCHANGED seeded,
         NEW s \in Ids \cup {None, Gone}, NEW stale \in SUBSET Ids,
         \/ s \in Ids /\ Select(i, s, stale)
         \/ Replace(i, stale)
         \/ GoOn(i, "list", None, stale)
         \/ s \in Ids /\ GoOn(i, "save", s, {})
         \/ GoOn(i, IF s = None THEN "list" ELSE "get", s, {})
  PROVE  run' \in [Invocations -> RunState] /\ PastCursorIsSeeded'
<1>1. run[i].pc \in PastCursor
  BY Running
<1>2. seeded /\ seeded'
  BY <1>1 DEF PastCursorIsSeeded
<1>3. \E pc \in PastCursor, id \in Ids \cup {None, Gone}, t \in SUBSET Ids :
        GoOn(i, pc, id, t)
  <2>1. {"list", "get", "renew", "save", "replace"} \subseteq PastCursor
    BY DEF PastCursor
  <2>2. {} \in SUBSET Ids /\ s \in Ids \cup {None, Gone} /\ None \in Ids \cup {None, Gone}
    OBVIOUS
  <2> QED
    BY <2>1, <2>2 DEF Select, Replace
<1> QED
  BY <1>2, <1>3, GoesOn

LEMMA CallStep ==
  ASSUME IInv, NEW i \in Invocations, Calls(i)
  PROVE  run' \in [Invocations -> RunState] /\ PastCursorIsSeeded' /\ (seeded => seeded')
<1>1. TypeOK /\ PastCursorIsSeeded /\ At(i) /\ Live \subseteq Ids
      /\ recorded \in Ids \cup {None, Gone}
  BY AtCall DEF IInv, TypeOK, Live
<1>2. ASSUME Seed(i)
      PROVE  run' \in [Invocations -> RunState] /\ PastCursorIsSeeded' /\ (seeded => seeded')
  <2>1. seeded' /\ GoOn(i, "record", None, {})
    BY <1>2 DEF Seed, MaySeed
  <2> QED
    BY <1>1, <2>1, GoesOn DEF PastCursor
<1>3. run[i].id \in Ids \cup {None, Gone} /\ run[i].stale \in SUBSET Ids
  BY <1>1, Running
<1>4. ASSUME ReadRecord(i)
      PROVE  run' \in [Invocations -> RunState] /\ PastCursorIsSeeded' /\ UNCHANGED seeded
  <2>1. /\ GoOn(i, IF recorded = None THEN "list" ELSE "get", recorded, {})
        /\ run[i].pc = "record" /\ UNCHANGED seeded
    BY <1>4 DEF ReadRecord
  <2> QED
    BY <1>1, <2>1, SelectStep
<1>5. ASSUME Get(i)
      PROVE  run' \in [Invocations -> RunState] /\ PastCursorIsSeeded' /\ UNCHANGED seeded
  <2>1. run[i].pc = "get" /\ UNCHANGED seeded
    BY <1>5 DEF Get
  <2>2. \/ GoOn(i, "list", None, {})
        \/ run[i].id \in Ids /\ Select(i, run[i].id, {})
        \/ {run[i].id} \in SUBSET Ids /\ GoOn(i, "list", None, {run[i].id})
    BY <1>1, <1>5 DEF Get
  <2> QED
    BY <1>1, <1>3, <2>1, <2>2, SelectStep
<1>6. ASSUME List(i)
      PROVE  run' \in [Invocations -> RunState] /\ PastCursorIsSeeded' /\ UNCHANGED seeded
  <2>1. run[i].pc = "list" /\ UNCHANGED seeded
    BY <1>6 DEF List
  <2>2. \E s \in Ids \cup {None, Gone}, stale \in SUBSET Ids :
          \/ s \in Ids /\ Select(i, s, stale)
          \/ Replace(i, stale)
    <3> DEFINE matches == {s \in Live : subs[s].url = run[i].url}
               stale == run[i].stale \cup (Live \ matches)
    <3>1. stale \in SUBSET Ids
      BY <1>1, <1>3
    <3>2. matches \subseteq Ids /\ Latest(matches) \subseteq Ids
      BY <1>1 DEF Latest
    <3>3. Replace(i, stale) \/ \E s \in Latest(matches) : Select(i, s, stale)
      BY <1>6 DEF List
    <3> HIDE DEF matches, stale
    <3> QED
      BY <3>1, <3>2, <3>3
  <2> QED
    BY <1>1, <2>1, <2>2, SelectStep
<1>7. ASSUME Renew(i)
      PROVE  run' \in [Invocations -> RunState] /\ PastCursorIsSeeded' /\ UNCHANGED seeded
  <2>1. run[i].pc = "renew" /\ UNCHANGED seeded
    BY <1>7 DEF Renew
  <2>2. \/ run[i].id \in Ids /\ GoOn(i, "save", run[i].id, {})
        \/ Replace(i, run[i].stale)
    BY <1>1, <1>7 DEF Renew
  <2> QED
    BY <1>1, <1>3, <2>1, <2>2, SelectStep
<1>8. ASSUME Create(i)
      PROVE  run' \in [Invocations -> RunState] /\ PastCursorIsSeeded' /\ UNCHANGED seeded
  <2>1. run[i].pc = "replace" /\ UNCHANGED seeded /\ NewId \in Ids /\ GoOn(i, "save", NewId, {})
    BY <1>1, <1>8 DEF Create, MayCreate, NewId
  <2> QED
    BY <1>1, <2>1, SelectStep
<1> QED
  BY <1>2, <1>4, <1>5, <1>6, <1>7, <1>8 DEF Calls

\* How subscriptions change: one is created by an invocation past the cursor,
\* or one that exists gets another life, or none does.
LEMMA GraphStep ==
  ASSUME IInv, [Next]_vars
  PROVE  /\ subs' \in [Ids -> Subscription \cup {None}]
         /\ Live' # {} => Live # {} \/ seeded
<1> DEFINE Goal == /\ subs' \in [Ids -> Subscription \cup {None}]
                   /\ Live' # {} => Live # {} \/ seeded
<1>1. TypeOK /\ PastCursorIsSeeded /\ subs \in [Ids -> Subscription \cup {None}]
  BY DEF IInv, TypeOK
<1>2. ASSUME UNCHANGED subs PROVE Goal
  BY <1>1, <1>2 DEF Live
<1>3. ASSUME NEW s \in Live, NEW l \in {"fresh", "due"}, subs' = [subs EXCEPT ![s].life = l]
      PROVE  Goal
  <2>1. subs[s] \in Subscription /\ Live # {}
    BY <1>1 DEF Live
  <2>2. [subs[s] EXCEPT !.life = l] \in Subscription
    BY <2>1 DEF Subscription
  <2> QED
    BY <1>1, <1>3, <2>1, <2>2
<1>4. ASSUME NEW s \in Ids, Vanish(s)
      PROVE  Goal
  BY <1>1, <1>4 DEF Vanish, Live
<1>5. ASSUME NEW i \in Invocations, MayCreate(i), Created(i)
      PROVE  Goal
  <2>1. run[i].pc = "replace" /\ run[i].url \in Urls
    BY <1>1, <1>5, Running DEF MayCreate, At
  <2>2. seeded
    BY <1>1, <2>1 DEF PastCursorIsSeeded, PastCursor
  <2>3. [url |-> run[i].url, life |-> "fresh"] \in Subscription
    BY <2>1 DEF Subscription
  <2> QED
    BY <1>1, <1>5, <2>2, <2>3 DEF Created
<1> HIDE DEF Goal
<1>6. ASSUME NEW i \in Invocations, Step(i) PROVE Goal
  <2>1. CASE Renew(i)
    BY <1>2, <1>3, <2>1 DEF Renew
  <2>2. CASE Create(i) \/ Raise(i)
    BY <1>2, <1>5, <2>2 DEF Create, Raise
  <2>3. CASE \E s \in Ids : Delete(i, s)
    BY <1>4, <2>3 DEF Delete
  <2>4. CASE Seed(i) \/ ReadRecord(i) \/ Get(i) \/ List(i) \/ Save(i)
    BY <1>2, <2>4 DEF Seed, ReadRecord, Get, List, Save
  <2> QED
    BY <1>6, <2>1, <2>2, <2>3, <2>4 DEF Step
<1>7. ASSUME NEW s \in Ids, Age(s) \/ Lapse(s) \/ Remove(s) \/ Reauthorize(s) PROVE Goal
  BY <1>3, <1>4, <1>7 DEF Age, Lapse, Remove, Reauthorize
<1>8. Goal
  BY <1>2, <1>6, <1>7
     DEF Next, vars, Environment, Outage, Change, Deploy, Crash, Notify, Begin, Reconcile
<1> QED
  BY <1>8 DEF Goal

LEMMA RunStep ==
  ASSUME IInv, [Next]_vars
  PROVE  /\ run' \in [Invocations -> RunState]
         /\ PastCursorIsSeeded'
         /\ seeded' \in BOOLEAN
         /\ seeded => seeded'
<1> DEFINE Goal == run' \in [Invocations -> RunState] /\ PastCursorIsSeeded'
<1>1. TypeOK /\ PastCursorIsSeeded /\ run \in [Invocations -> RunState] /\ seeded \in BOOLEAN
  BY DEF IInv, TypeOK
<1>2. seeded' \in BOOLEAN /\ (seeded => seeded')
  <2>1. ASSUME NEW i \in Invocations, Seed(i)
        PROVE  seeded' \in BOOLEAN /\ (seeded => seeded')
    BY <1>1, <2>1 DEF Seed
  <2> QED
    BY <1>1, <2>1
       DEF Next, vars, Environment, Step, Outage, Change, Age, Lapse, Remove, Reauthorize,
           Deploy, Crash, Notify, Begin, ReadRecord, Get, List, Renew, Create, Save, Raise,
           Delete, Reconcile
<1>3. ASSUME UNCHANGED <<run, seeded>> PROVE Goal
  BY <1>1, <1>3 DEF PastCursorIsSeeded
<1>4. ASSUME NEW i \in Invocations, Calls(i) PROVE Goal
  BY <1>4, CallStep
<1>5. ASSUME NEW i \in Invocations, Begin(i) \/ Crash(i) \/ Save(i) \/ Raise(i) PROVE Goal
  BY <1>1, <1>2, <1>5, Ends DEF Crash, Save, Raise
<1>6. ASSUME NEW s \in Ids, Vanish(s), UNCHANGED seeded PROVE Goal
  BY <1>1, <1>6, VanishStep
<1>7. ASSUME Reconcile PROVE Goal
  <2>1. Maintenance \in Invocations /\ run' = [run EXCEPT ![Maintenance] = Idle]
    BY <1>7 DEF Reconcile, Invocations
  <2> QED
    BY <1>1, <1>2, <2>1, Ends
<1> HIDE DEF Goal
<1>8. ASSUME NEW i \in Invocations, Step(i) PROVE Goal
  BY <1>4, <1>5, <1>6, <1>8 DEF Step, Calls, Delete
<1>9. ASSUME NEW s \in Ids, Age(s) \/ Lapse(s) \/ Remove(s) \/ Reauthorize(s) PROVE Goal
  BY <1>3, <1>6, <1>9 DEF Age, Lapse, Remove, Reauthorize
<1>10. Goal
  BY <1>3, <1>5, <1>7, <1>8, <1>9
     DEF Next, vars, Environment, Outage, Change, Deploy, Notify
<1> QED
  BY <1>2, <1>10 DEF Goal

LEMMA RestTypeStep ==
  ASSUME IInv, [Next]_vars
  PROVE  /\ down' \in BOOLEAN /\ url' \in Urls /\ recorded' \in Ids \cup {None, Gone}
         /\ faults' \in 0..MaxFaults
<1>1. TypeOK
  BY DEF IInv
<1>2. ASSUME Fault PROVE faults' \in 0..MaxFaults
  BY <1>1, <1>2, SubscriptionConstants DEF Fault, TypeOK
<1>3. ASSUME NEW i \in Invocations, Save(i) PROVE recorded' \in Ids \cup {None, Gone}
  <2>1. At(i) /\ recorded' = run[i].id
    BY <1>3, AtCall DEF Save, Record
  <2> QED
    BY <1>1, <2>1, Running
<1>4. ASSUME NEW s \in Ids, Vanish(s) PROVE recorded' \in Ids \cup {None, Gone}
  BY <1>1, <1>4 DEF Vanish, TypeOK
<1>5. recorded' \in Ids \cup {None, Gone}
  BY <1>1, <1>3, <1>4
     DEF Next, vars, Environment, Step, Outage, Change, Age, Lapse, Remove, Reauthorize,
         Deploy, Crash, Notify, Begin, Seed, ReadRecord, Get, List, Renew, Create, Raise,
         Delete, Reconcile, TypeOK
<1>6. down' \in BOOLEAN /\ url' \in Urls /\ faults' \in 0..MaxFaults
  BY <1>1, <1>2
     DEF Next, vars, Environment, Step, Outage, Change, Age, Lapse, Remove, Reauthorize,
         Deploy, Crash, Notify, Begin, Seed, ReadRecord, Get, List, Renew, Create, Save, Raise,
         Delete, Reconcile, TypeOK
<1> QED
  BY <1>5, <1>6

LEMMA AnswerStep ==
  ASSUME IInv, [Next]_vars
  PROVE  dirty' \in BOOLEAN /\ told' \in BOOLEAN /\ TrustedAnswers'
<1>1. dirty \in BOOLEAN /\ told \in BOOLEAN /\ (told => ~dirty)
  BY DEF IInv, TypeOK, TrustedAnswers
<1>2. ASSUME NEW batch, NEW sent, Notify(batch, sent)
      PROVE  dirty' \in BOOLEAN /\ told' \in BOOLEAN /\ TrustedAnswers'
  BY <1>1, <1>2 DEF Notify, Accepted, TrustedAnswers
<1>3. ASSUME Change \/ Reconcile
      PROVE  dirty' \in BOOLEAN /\ told' \in BOOLEAN /\ TrustedAnswers'
  BY <1>1, <1>3 DEF Change, Reconcile, TrustedAnswers
<1>4. ASSUME UNCHANGED <<dirty, told>>
      PROVE  dirty' \in BOOLEAN /\ told' \in BOOLEAN /\ TrustedAnswers'
  BY <1>1, <1>4 DEF TrustedAnswers
<1> QED
  BY <1>2, <1>3, <1>4
     DEF Next, vars, Environment, Step, Outage, Age, Lapse, Remove, Reauthorize, Deploy, Crash,
         Begin, Seed, ReadRecord, Get, List, Renew, Create, Save, Raise, Delete

LEMMA InvStep == IInv /\ [Next]_vars => IInv'
<1> SUFFICES ASSUME IInv, [Next]_vars PROVE IInv'
  OBVIOUS
<1>1. TypeOK'
  BY GraphStep, RunStep, RestTypeStep, AnswerStep DEF TypeOK
<1>2. SubscribedIsSeeded'
  BY GraphStep, RunStep DEF IInv, SubscribedIsSeeded
<1> QED
  BY <1>1, <1>2, RunStep, AnswerStep DEF IInv

THEOREM Invariance == Spec => []IInv
  BY InvInit, InvStep, PTL DEF Spec

(***************************************************************************)
(* The variables keep their types.                                         *)
(***************************************************************************)
THEOREM TypeCorrect == Spec => []TypeOK
<1>1. IInv => TypeOK
  BY DEF IInv
<1> QED
  BY <1>1, Invariance, PTL

(***************************************************************************)
(* However bootstraps, maintenance, crashes and lost replies interleave,   *)
(* no subscription exists before the cursor has a link.                    *)
(***************************************************************************)
THEOREM SeedPrecedesSubscription == Spec => []SubscribedIsSeeded
<1>1. IInv => SubscribedIsSeeded
  BY DEF IInv
<1> QED
  BY <1>1, Invariance, PTL

(***************************************************************************)
(* Graph is answered 202 for the last change only when a delta job for it  *)
(* is on its way.                                                          *)
(***************************************************************************)
THEOREM AnswersAreTrusted == Spec => []TrustedAnswers
<1>1. IInv => TrustedAnswers
  BY DEF IInv
<1> QED
  BY <1>1, Invariance, PTL
=============================================================================
