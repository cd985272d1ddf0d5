--------------------------- MODULE Intake_proofs ---------------------------
(***************************************************************************)
(* Safety of Intake for any number of events, requests, handlers and days. *)
(***************************************************************************)
EXTENDS Intake, FiniteSetTheorems, TLAPS

RowHolds(e, v) == rows[e].state # "absent" /\ rows[e].envelope = v

Msg(e, v) == [event |-> e, envelope |-> v]

(***************************************************************************)
(* What an invocation knows after each of its steps.                       *)
(***************************************************************************)
HandlerKnows(h) ==
    LET r == handler[h].request IN
    /\ handler[h].pc = "create" => r \in blobs
    /\ handler[h].pc = "read" => rows[r.event].state # "absent"
    /\ handler[h].pc \in {"publish", "mark"} =>
          /\ RowHolds(r.event, handler[h].staged)
          /\ ContentOf[handler[h].staged] = ContentOf[r.envelope]
    /\ handler[h].pc = "mark" => Msg(r.event, handler[h].staged) \in handed

TimerKnows ==
    /\ timer.pc # "idle" => \A m \in timer.page : RowHolds(m.event, m.envelope)
    /\ timer.pc = "mark" => timer.current \in handed

AnsweredIsHanded ==
    \A r \in answered : \E m \in handed :
        m.event = r.event /\ ContentOf[m.envelope] = ContentOf[r.envelope]

IInv ==
    /\ TypeOK
    /\ MessagesAgree
    /\ SentIsHanded
    /\ PointersResolve
    /\ \A h \in Handlers : HandlerKnows(h)
    /\ TimerKnows
    /\ AnsweredIsHanded
-----------------------------------------------------------------------------
LEMMA TypeInit == Init => TypeOK
<1>1. Init => rows \in [Events -> Row]
  BY DEF Init, EmptyTable, Row
<1>2. Init => charged \in [0..MaxDay -> SUBSET Events] /\ day \in 0..MaxDay
  BY IntakeConstants DEF Init
<1>3. Init => handler \in [Handlers -> HandlerState] /\ timer \in TimerState
  BY DEF Init, Idle, HandlerState, TimerState
<1> QED
  BY <1>1, <1>2, <1>3 DEF Init, TypeOK

LEMMA RequestsAreMessages == Requests \subseteq Message
  BY IntakeConstants DEF Message

(***************************************************************************)
(* An invocation that is past its start is serving a request.              *)
(***************************************************************************)
LEMMA Serving ==
  ASSUME TypeOK, NEW h \in Handlers, handler[h].pc # "idle"
  PROVE  /\ handler[h].request \in Requests
         /\ handler[h].request \in Message
         /\ handler[h].request.event \in Events
         /\ handler[h].request.envelope \in Envelopes
         /\ Msg(handler[h].request.event, handler[h].request.envelope)
              = handler[h].request
         /\ handler[h].pc \in {"publish", "mark"} => handler[h].staged \in Envelopes
<1>1. handler[h] \in HandlerState
  BY DEF TypeOK
<1>2. handler[h].request \in Message /\ handler[h].request \in Requests
  BY <1>1, RequestsAreMessages DEF HandlerState
<1>3. handler[h].pc \in {"publish", "mark"} => handler[h].staged \in Envelopes
  BY <1>1 DEF HandlerState, Staging
<1> QED
  BY <1>2, <1>3 DEF Message, Msg

(***************************************************************************)
(* The table operations keep rows typed.                                   *)
(***************************************************************************)
LEMMA CreateType ==
  ASSUME NEW T \in [Events -> Row], NEW k \in Events, NEW v \in Envelopes
  PROVE  CreateEntity(T, k, v) \in [Events -> Row]
  BY DEF CreateEntity, Row

LEMMA MarkType ==
  ASSUME NEW T \in [Events -> Row], NEW k \in Events
  PROVE  MarkSent(T, k) \in [Events -> Row]
  BY DEF MarkSent, Row

(***************************************************************************)
(* Moves of one invocation keep its state typed.                           *)
(***************************************************************************)
LEMMA GotoType ==
  ASSUME TypeOK, NEW h \in Handlers, NEW step,
         \/ handler[h].pc \in Staging /\ step \in Staging
         \/ handler[h].pc = "publish" /\ step = "mark",
         Goto(h, step)
  PROVE  handler' \in [Handlers -> HandlerState]
<1>1. handler[h] \in HandlerState
  BY DEF TypeOK
<1>2. [handler[h] EXCEPT !.pc = step] \in HandlerState
  BY <1>1 DEF HandlerState, Staging
<1> QED
  BY <1>2 DEF TypeOK, Goto

LEMMA ReturnType ==
  ASSUME TypeOK, NEW h \in Handlers, Return(h)
  PROVE  handler' \in [Handlers -> HandlerState]
  BY DEF TypeOK, Return, Idle, HandlerState

(***************************************************************************)
(* Every step keeps the variables typed.                                   *)
(***************************************************************************)
LEMMA TypeStep == TypeOK /\ [Next]_vars => TypeOK'
<1> SUFFICES ASSUME TypeOK, [Next]_vars PROVE TypeOK'
  OBVIOUS
<1>1. ASSUME NEW h \in Handlers, NEW r \in Requests, Receive(h, r)
      PROVE  TypeOK'
  <2>1. handler' \in [Handlers -> HandlerState]
    BY <1>1 DEF Receive, TypeOK, HandlerState, Staging
  <2> QED
    BY <1>1, <2>1 DEF Receive, TypeOK
<1>2. ASSUME NEW h \in Handlers, Lookup(h)
      PROVE  TypeOK'
  <2>1. handler' \in [Handlers -> HandlerState]
    BY <1>2, GotoType, ReturnType DEF Lookup, Staging
  <2> QED
    BY <1>2, <2>1 DEF Lookup, TypeOK
<1>3. ASSUME NEW h \in Handlers, Reserve(h)
      PROVE  TypeOK'
  <2>1. handler' \in [Handlers -> HandlerState]
    BY <1>3, GotoType, ReturnType DEF Reserve, Staging
  <2>2. charged' \in [0..MaxDay -> SUBSET Events]
    BY <1>3, Serving DEF Reserve, TypeOK
  <2> QED
    BY <1>3, <2>1, <2>2 DEF Reserve, TypeOK
<1>4. ASSUME NEW h \in Handlers, Prepare(h)
      PROVE  TypeOK'
  <2>1. handler' \in [Handlers -> HandlerState]
    BY <1>4, GotoType DEF Prepare, Staging
  <2>2. blobs' \subseteq Message
    BY <1>4, Serving DEF Prepare, Upload, TypeOK
  <2> QED
    BY <1>4, <2>1, <2>2 DEF Prepare, TypeOK
<1>5. ASSUME NEW h \in Handlers, Create(h)
      PROVE  TypeOK'
  <2>1. handler' \in [Handlers -> HandlerState]
    BY <1>5, GotoType DEF Create, Staging
  <2>2. rows' \in [Events -> Row]
    BY <1>5, Serving, CreateType DEF Create, TypeOK
  <2> QED
    BY <1>5, <2>1, <2>2 DEF Create, TypeOK
<1>6. ASSUME NEW h \in Handlers, Read(h)
      PROVE  TypeOK'
  <2>1. handler[h].request \in Requests /\ handler[h].request.event \in Events
    BY <1>6, Serving DEF Read
  <2>2. answered' \subseteq Requests
    BY <1>6, <2>1 DEF Read, AnswerSuccess, TypeOK
  <2>3. StagedEnvelope(h) \in Envelopes
    BY <1>6, <2>1 DEF Read, StagedEnvelope, TypeOK, Row
  <2>4. handler' \in [Handlers -> HandlerState]
    BY <1>6, <2>1, <2>3, ReturnType DEF Read, TypeOK, HandlerState
  <2> QED
    BY <1>6, <2>2, <2>4 DEF Read, TypeOK
<1>7. ASSUME NEW h \in Handlers, Publish(h)
      PROVE  TypeOK'
  <2>1. handler' \in [Handlers -> HandlerState]
    BY <1>7, GotoType DEF Publish
  <2>2. handed' \subseteq Message
    BY <1>7, Serving DEF Publish, HandOver, TypeOK, Message
  <2> QED
    BY <1>7, <2>1, <2>2 DEF Publish, TypeOK
<1>8. ASSUME NEW h \in Handlers, Mark(h)
      PROVE  TypeOK'
  <2>1. rows' \in [Events -> Row]
    BY <1>8, Serving, MarkType DEF Mark, TypeOK
  <2>2. answered' \subseteq Requests
    BY <1>8, Serving DEF Mark, AnswerSuccess, TypeOK
  <2> QED
    BY <1>8, <2>1, <2>2, ReturnType DEF Mark, TypeOK
<1>9. ASSUME NEW h \in Handlers, Fail(h)
      PROVE  TypeOK'
  BY <1>9, ReturnType DEF Fail, TypeOK
<1>10. CASE TimerList
  <2>1. ASSUME NEW e \in PendingPage(rows, RowRank, PendingLimit)
        PROVE  e \in Events /\ rows[e].envelope \in Envelopes
    BY DEF PendingPage, PendingKeys, TypeOK, Row
  <2>2. timer' \in TimerState
    BY <1>10, <2>1 DEF TimerList, TimerState, Message
  <2> QED
    BY <1>10, <2>2 DEF TimerList, TypeOK
<1>11. ASSUME NEW m \in Message, TimerPublish(m)
       PROVE  TypeOK'
  <2>1. timer' \in TimerState
    BY <1>11 DEF TimerPublish, TypeOK, TimerState
  <2>2. handed' \subseteq Message
    BY <1>11 DEF TimerPublish, HandOver, TypeOK, Message
  <2> QED
    BY <1>11, <2>1, <2>2 DEF TimerPublish, TypeOK
<1>12. CASE TimerMark
  <2>1. timer.page \in SUBSET Message /\ timer.current.event \in Events
    BY <1>12 DEF TimerMark, TypeOK, TimerState, Message
  <2>2. rows' \in [Events -> Row]
    BY <1>12, <2>1, MarkType DEF TimerMark, TypeOK
  <2>3. timer' \in TimerState
    BY <1>12, <2>1 DEF TimerMark, TimerState
  <2> QED
    BY <1>12, <2>2, <2>3 DEF TimerMark, TypeOK
<1>13. CASE TimerSkip
  <2>1. timer' \in TimerState
    BY <1>13 DEF TimerSkip, TypeOK, TimerState
  <2> QED
    BY <1>13, <2>1 DEF TimerSkip, TypeOK
<1>14. CASE TimerEnd
  BY <1>14 DEF TimerEnd, TypeOK, TimerState, Idle
<1>15. CASE NextDay
  BY <1>15, IntakeConstants DEF NextDay, TypeOK
<1>16. CASE UNCHANGED vars
  BY <1>16 DEF vars, TypeOK
<1> QED
  BY <1>1, <1>2, <1>3, <1>4, <1>5, <1>6, <1>7, <1>8, <1>9, <1>10, <1>11, <1>12,
     <1>13, <1>14, <1>15, <1>16 DEF Next, HandlerStep, TimerStep
-----------------------------------------------------------------------------
(***************************************************************************)
(* Nothing that was written is taken back: rows keep their envelope, and a *)
(* sent row stays sent; blobs and messages are only added.                 *)
(***************************************************************************)
Kept ==
    /\ blobs \subseteq blobs'
    /\ handed \subseteq handed'
    /\ \A e \in Events : rows[e].state # "absent" =>
          /\ rows'[e].state # "absent"
          /\ rows'[e].envelope = rows[e].envelope

LEMMA TableKept ==
  ASSUME NEW T \in [Events -> Row], NEW k \in Events, NEW v \in Envelopes,
         NEW e \in Events, T[e].state # "absent"
  PROVE  /\ CreateEntity(T, k, v)[e].state # "absent"
         /\ CreateEntity(T, k, v)[e].envelope = T[e].envelope
         /\ MarkSent(T, k)[e].state # "absent"
         /\ MarkSent(T, k)[e].envelope = T[e].envelope
  BY DEF CreateEntity, MarkSent, Row

LEMMA StepKeeps == TypeOK /\ [Next]_vars => Kept
<1> SUFFICES ASSUME TypeOK, [Next]_vars PROVE Kept
  OBVIOUS
<1> USE DEF Kept
<1>1. CASE UNCHANGED <<rows, blobs, handed>>
  BY <1>1
<1>2. ASSUME NEW h \in Handlers, Prepare(h)
      PROVE  Kept
  BY <1>2 DEF Prepare, Upload
<1>3. ASSUME NEW h \in Handlers, Create(h)
      PROVE  Kept
  BY <1>3, Serving, TableKept DEF Create, TypeOK
<1>4. ASSUME NEW h \in Handlers, Publish(h)
      PROVE  Kept
  BY <1>4 DEF Publish, HandOver
<1>5. ASSUME NEW h \in Handlers, Mark(h)
      PROVE  Kept
  BY <1>5, Serving, TableKept DEF Mark, TypeOK
<1>6. ASSUME NEW m \in Message, TimerPublish(m)
      PROVE  Kept
  BY <1>6 DEF TimerPublish, HandOver
<1>7. CASE TimerMark
  <2>1. timer.current \in Message /\ timer.current.event \in Events
        /\ timer.current.envelope \in Envelopes
    BY <1>7 DEF TimerMark, TypeOK, TimerState, Message
  <2> QED
    BY <1>7, <2>1, TableKept DEF TimerMark, TypeOK
<1> QED
  BY <1>1, <1>2, <1>3, <1>4, <1>5, <1>6, <1>7
     DEF Next, HandlerStep, TimerStep, vars, Receive, Lookup, Reserve, Read, Fail,
         TimerList, TimerSkip, TimerEnd, NextDay
-----------------------------------------------------------------------------
(***************************************************************************)
(* Initially nothing is known and nothing has been promised.               *)
(***************************************************************************)
LEMMA InvInit == Init => IInv
<1> SUFFICES ASSUME Init PROVE IInv
  OBVIOUS
<1>1. TypeOK
  BY TypeInit
<1>2. SentIsHanded /\ PointersResolve /\ MessagesAgree /\ AnsweredIsHanded
  BY DEF Init, EmptyTable, SentIsHanded, PointersResolve, MessagesAgree,
         AnsweredIsHanded
<1>3. (\A h \in Handlers : HandlerKnows(h)) /\ TimerKnows
  BY DEF Init, Idle, HandlerKnows, TimerKnows
<1> QED
  BY <1>1, <1>2, <1>3 DEF IInv

(***************************************************************************)
(* Only the two publishing steps hand a message over, and both take the    *)
(* envelope from the row.                                                  *)
(***************************************************************************)
LEMMA AgreeStep == IInv /\ [Next]_vars => MessagesAgree'
<1> SUFFICES ASSUME IInv, [Next]_vars PROVE MessagesAgree'
  OBVIOUS
<1>1. TypeOK /\ Kept
  BY StepKeeps DEF IInv
<1>2. CASE handed' = handed
  BY <1>1, <1>2 DEF IInv, MessagesAgree, Kept, TypeOK, Message
<1>3. ASSUME NEW h \in Handlers, Publish(h)
      PROVE  MessagesAgree'
  <2>1. RowHolds(handler[h].request.event, handler[h].staged)
    BY <1>3 DEF IInv, HandlerKnows, Publish
  <2>2. handler[h].request.event \in Events
    BY <1>1, <1>3, Serving DEF Publish
  <2> QED
    BY <1>1, <1>3, <2>1, <2>2
       DEF IInv, MessagesAgree, Kept, Publish, HandOver, RowHolds, TypeOK, Message
<1>4. ASSUME NEW m \in Message, TimerPublish(m)
      PROVE  MessagesAgree'
  <2>1. RowHolds(m.event, m.envelope)
    BY <1>4 DEF IInv, TimerKnows, TimerPublish
  <2> QED
    BY <1>1, <1>4, <2>1
       DEF IInv, MessagesAgree, Kept, TimerPublish, HandOver, RowHolds, TypeOK, Message
<1> QED
  BY <1>2, <1>3, <1>4
     DEF Next, HandlerStep, TimerStep, vars, Receive, Lookup, Reserve, Prepare, Create,
         Read, Mark, Fail, TimerList, TimerMark, TimerSkip, TimerEnd, NextDay

(***************************************************************************)
(* Marking a row leaves the others alone and needs its message handed over.*)
(***************************************************************************)
LEMMA MarkKeepsSentHanded ==
  ASSUME IInv, NEW e \in Events, NEW v \in Envelopes, Msg(e, v) \in handed,
         rows' = MarkSent(rows, e), handed' = handed
  PROVE  SentIsHanded'
<1>1. rows[e].envelope = v
  BY DEF IInv, MessagesAgree, Msg
<1> QED
  BY <1>1 DEF IInv, TypeOK, SentIsHanded, MarkSent, Msg, Row

LEMMA SentStep == IInv /\ [Next]_vars => SentIsHanded'
<1> SUFFICES ASSUME IInv, [Next]_vars PROVE SentIsHanded'
  OBVIOUS
<1>1. TypeOK /\ Kept
  BY StepKeeps DEF IInv
<1>2. CASE rows' = rows
  BY <1>1, <1>2 DEF IInv, SentIsHanded, Kept
<1>3. ASSUME NEW h \in Handlers, Create(h)
      PROVE  SentIsHanded'
  BY <1>1, <1>3, Serving DEF IInv, SentIsHanded, Create, CreateEntity, TypeOK
<1>4. ASSUME NEW h \in Handlers, Mark(h)
      PROVE  SentIsHanded'
  <2>1. /\ handler[h].request.event \in Events
        /\ handler[h].staged \in Envelopes
        /\ Msg(handler[h].request.event, handler[h].staged) \in handed
    BY <1>1, <1>4, Serving DEF IInv, HandlerKnows, Mark
  <2> QED
    BY <1>4, <2>1, MarkKeepsSentHanded DEF Mark
<1>5. CASE TimerMark
  <2>1. /\ timer.current.event \in Events
        /\ timer.current.envelope \in Envelopes
        /\ Msg(timer.current.event, timer.current.envelope) \in handed
    BY <1>1, <1>5 DEF IInv, TimerKnows, TimerMark, TypeOK, TimerState, Message, Msg
  <2> QED
    BY <1>5, <2>1, MarkKeepsSentHanded DEF TimerMark
<1> QED
  BY <1>2, <1>3, <1>4, <1>5
     DEF Next, HandlerStep, TimerStep, vars, Receive, Lookup, Reserve, Prepare, Read,
         Publish, Fail, TimerList, TimerPublish, TimerSkip, TimerEnd, NextDay

(***************************************************************************)
(* A row comes from the request of the invocation that creates it.         *)
(***************************************************************************)
LEMMA NewRow ==
  ASSUME TypeOK, [Next]_vars, NEW e \in Events, rows[e].state = "absent",
         rows'[e].state # "absent"
  PROVE  \E h \in Handlers :
           /\ handler[h].pc = "create"
           /\ handler[h].request \in Message
           /\ handler[h].request = Msg(e, rows'[e].envelope)
           /\ UNCHANGED blobs
<1>1. ASSUME NEW h \in Handlers, Create(h)
      PROVE  /\ handler[h].pc = "create"
             /\ handler[h].request \in Message
             /\ handler[h].request = Msg(e, rows'[e].envelope)
             /\ UNCHANGED blobs
  <2>1. /\ handler[h].request \in Message
        /\ handler[h].request = Msg(handler[h].request.event, handler[h].request.envelope)
    BY <1>1, Serving DEF Create, Message, Msg
  <2>2. e = handler[h].request.event /\ rows'[e].envelope = handler[h].request.envelope
    BY <1>1, <2>1 DEF Create, CreateEntity, TypeOK, Message
  <2> QED
    BY <1>1, <2>1, <2>2 DEF Create
<1>2. ASSUME NEW k \in Events, rows' = MarkSent(rows, k)
      PROVE  FALSE
  BY <1>2 DEF MarkSent, TypeOK
<1>3. ASSUME NEW h \in Handlers, Mark(h)
      PROVE  FALSE
  BY <1>2, <1>3, Serving DEF Mark
<1>4. ASSUME TimerMark
      PROVE  FALSE
  <2>1. timer.current.event \in Events
    BY <1>4 DEF TimerMark, TypeOK, TimerState, Message
  <2> QED
    BY <1>2, <1>4, <2>1 DEF TimerMark
<1> QED
  BY <1>1, <1>3, <1>4
     DEF Next, HandlerStep, TimerStep, vars, Receive, Lookup, Reserve, Prepare, Read,
         Publish, Fail, TimerList, TimerPublish, TimerSkip, TimerEnd, NextDay

(***************************************************************************)
(* A row is created after its blob, and messages only repeat rows.         *)
(***************************************************************************)
LEMMA PointersStep == IInv /\ [Next]_vars => PointersResolve'
<1> SUFFICES ASSUME IInv, [Next]_vars PROVE PointersResolve'
  OBVIOUS
<1>1. TypeOK /\ Kept /\ TypeOK'
  BY StepKeeps, TypeStep DEF IInv
<1>2. \A e \in Events : rows'[e].state # "absent" => Msg(e, rows'[e].envelope) \in blobs'
  <2> SUFFICES ASSUME NEW e \in Events, rows'[e].state # "absent"
               PROVE  Msg(e, rows'[e].envelope) \in blobs'
    OBVIOUS
  <2>1. CASE rows[e].state # "absent"
    BY <1>1, <2>1 DEF IInv, PointersResolve, Kept, Msg
  <2>2. CASE rows[e].state = "absent"
    BY <1>1, <2>2, NewRow DEF IInv, HandlerKnows
  <2> QED
    BY <2>1, <2>2
<1>3. handed' \subseteq blobs'
  <2> SUFFICES ASSUME NEW m \in handed' PROVE m \in blobs'
    OBVIOUS
  <2>1. m \in Message /\ m = Msg(m.event, m.envelope)
    BY <1>1 DEF TypeOK, Message, Msg
  <2>2. rows'[m.event].state # "absent" /\ rows'[m.event].envelope = m.envelope
    BY AgreeStep DEF MessagesAgree
  <2> QED
    BY <1>2, <2>1, <2>2 DEF Message
<1> QED
  BY <1>2, <1>3 DEF PointersResolve, Msg

(***************************************************************************)
(* What an invocation knows survives the steps of the others, for rows,    *)
(* blobs and messages are kept.                                            *)
(***************************************************************************)
LEMMA OthersKnow ==
  ASSUME IInv, Kept, NEW h \in Handlers, handler'[h] = handler[h]
  PROVE  HandlerKnows(h)'
<1>1. CASE handler[h].pc = "idle"
  BY <1>1 DEF HandlerKnows
<1>2. CASE handler[h].pc # "idle"
  <2>1. handler[h].request.event \in Events
    BY <1>2, Serving DEF IInv
  <2>2. HandlerKnows(h)
    BY DEF IInv
  <2> QED
    BY <2>1, <2>2 DEF HandlerKnows, Kept, RowHolds
<1> QED
  BY <1>1, <1>2

LEMMA HandlerStepKnows ==
  ASSUME IInv, [Next]_vars, NEW h \in Handlers
  PROVE  HandlerKnows(h)'
<1>1. TypeOK /\ Kept /\ HandlerKnows(h)
  BY StepKeeps DEF IInv
<1>2. CASE handler'[h] = handler[h]
  BY <1>1, <1>2, OthersKnow
<1>3. CASE handler'[h] # handler[h]
  <2>1. \A g \in Handlers \ {h} :
           (\E step \in STRING : Goto(g, step)) \/ Return(g) => handler'[h] = handler[h]
    BY <1>1 DEF Goto, Return, TypeOK
  <2>2. CASE \E r \in Requests : Receive(h, r)
    BY <1>1, <2>2 DEF Receive, HandlerKnows, TypeOK
  <2>3. CASE Lookup(h)
    <3>1. handler[h] \in [pc : Staging, request : Requests]
      BY <1>1, <2>3 DEF Lookup, TypeOK, HandlerState
    <3>2. handler'[h].pc \in {"idle", "quota", "prepare"}
      BY <1>1, <2>3, <3>1 DEF Lookup, Goto, Return, Idle, TypeOK
    <3> QED
      BY <3>2 DEF HandlerKnows
  <2>4. CASE Reserve(h)
    <3>1. handler[h] \in [pc : Staging, request : Requests]
      BY <1>1, <2>4 DEF Reserve, TypeOK, HandlerState
    <3>2. handler'[h].pc \in {"idle", "quota", "prepare"}
      BY <1>1, <2>4, <3>1 DEF Reserve, Goto, Return, Idle, TypeOK
    <3> QED
      BY <3>2 DEF HandlerKnows
  <2>5. CASE Prepare(h)
    BY <1>1, <2>5 DEF Prepare, Upload, Goto, HandlerKnows, TypeOK
  <2>6. CASE Create(h)
    <3>1. /\ handler[h].request.event \in Events
          /\ handler'[h] = [handler[h] EXCEPT !.pc = "read"]
      BY <1>1, <2>6, Serving DEF Create, Goto, TypeOK
    <3>2. handler[h] \in [pc : Staging, request : Requests]
      BY <1>1, <2>6 DEF Create, TypeOK, HandlerState
    <3>3. rows'[handler[h].request.event].state # "absent"
      BY <1>1, <2>6, <3>1 DEF Create, CreateEntity, TypeOK, Row
    <3> QED
      BY <3>1, <3>2, <3>3 DEF HandlerKnows
  <2>7. CASE Read(h)
    <3>1. CASE Return(h)
      BY <1>1, <3>1 DEF Return, Idle, HandlerKnows, TypeOK
    <3>2. CASE /\ SameContent(h)
               /\ handler' = [handler EXCEPT ![h] =
                    [pc |-> "publish", request |-> handler[h].request,
                     staged |-> StagedEnvelope(h)]]
      BY <1>1, <2>7, <3>2
         DEF Read, SameContent, StagedEnvelope, HandlerKnows, RowHolds, TypeOK
    <3> QED
      BY <2>7, <3>1, <3>2 DEF Read
  <2>8. CASE Publish(h)
    <3>1. handler[h] \in [pc : {"publish"}, request : Requests, staged : Envelopes]
      BY <1>1, <2>8 DEF Publish, TypeOK, HandlerState, Staging
    <3>2. handler'[h] = [handler[h] EXCEPT !.pc = "mark"]
      BY <1>1, <2>8 DEF Publish, Goto, TypeOK
    <3>3. Msg(handler[h].request.event, handler[h].staged) \in handed'
      BY <2>8 DEF Publish, HandOver, Msg
    <3> QED
      BY <1>1, <2>8, <3>1, <3>2, <3>3 DEF Publish, HandlerKnows, RowHolds
  <2>9. CASE Mark(h) \/ Fail(h)
    BY <1>1, <2>9 DEF Mark, Fail, Return, Idle, HandlerKnows, TypeOK
  <2>10. ASSUME NEW g \in Handlers, g # h, HandlerStep(g)
         PROVE  FALSE
    BY <1>1, <1>3, <2>1, <2>10
       DEF HandlerStep, Receive, Lookup, Reserve, Prepare, Create, Read, Publish,
           Mark, Fail, Goto, Return, TypeOK
  <2> QED
    BY <1>3, <2>2, <2>3, <2>4, <2>5, <2>6, <2>7, <2>8, <2>9, <2>10
       DEF Next, HandlerStep, TimerStep, vars, TimerList, TimerPublish, TimerMark,
           TimerSkip, TimerEnd, NextDay
<1> QED
  BY <1>2, <1>3

LEMMA TimerStepKnows == IInv /\ [Next]_vars => TimerKnows'
<1> SUFFICES ASSUME IInv, [Next]_vars PROVE TimerKnows'
  OBVIOUS
<1>1. TypeOK /\ Kept /\ TimerKnows
  BY StepKeeps DEF IInv
<1>2. timer.pc # "idle" => timer.page \subseteq Message
  BY <1>1 DEF TypeOK, TimerState
<1>3. CASE timer' = timer
  BY <1>1, <1>2, <1>3 DEF TimerKnows, Kept, RowHolds, Message
<1>4. CASE TimerList
  <2>1. timer'.pc = "loop"
    BY <1>4 DEF TimerList
  <2>2. ASSUME NEW m \in timer'.page
        PROVE  rows[m.event].state # "absent" /\ rows[m.event].envelope = m.envelope
    <3>1. PICK e \in PendingPage(rows, RowRank, PendingLimit) :
            m = [event |-> e, envelope |-> rows[e].envelope]
      BY <1>4, <2>2 DEF TimerList
    <3>2. rows[e].state = "pending"
      BY DEF PendingPage, PendingKeys
    <3> QED
      BY <3>1, <3>2
  <2> QED
    BY <1>4, <2>1, <2>2 DEF TimerList, TimerKnows, RowHolds
<1>5. ASSUME NEW m \in Message, TimerPublish(m)
      PROVE  TimerKnows'
  <2>1. Msg(m.event, m.envelope) = m
    BY DEF Message, Msg
  <2> QED
    BY <1>1, <1>2, <1>5, <2>1
       DEF TimerPublish, HandOver, TimerKnows, Kept, RowHolds, Message, Msg
<1>6. CASE TimerMark
  BY <1>1, <1>2, <1>6 DEF TimerMark, TimerKnows, Kept, RowHolds, Message
<1>7. CASE TimerSkip
  <2>1. timer \in TimerState
    BY <1>1 DEF TypeOK
  <2>2. /\ timer'.pc = "loop"
        /\ timer'.page \subseteq timer.page
        /\ timer.pc # "idle"
    BY <1>7, <2>1 DEF TimerSkip, TimerState
  <2> QED
    BY <1>1, <1>7, <2>2 DEF TimerSkip, TimerKnows, RowHolds
<1>8. CASE TimerEnd
  BY <1>8 DEF TimerEnd, TimerKnows, Idle
<1> QED
  BY <1>3, <1>4, <1>5, <1>6, <1>7, <1>8
     DEF Next, HandlerStep, TimerStep, vars, Receive, Lookup, Reserve, Prepare, Create,
         Read, Publish, Mark, Fail, NextDay

(***************************************************************************)
(* A success is answered at two places: by whoever marked the row, and on  *)
(* finding it already marked.                                              *)
(***************************************************************************)
LEMMA AnswerStep ==
  ASSUME IInv, [Next]_vars, answered' # answered
  PROVE  \E r \in Requests :
            /\ answered' = answered \cup {r}
            /\ handed' = handed
            /\ \E m \in handed : /\ m.event = r.event
                                 /\ ContentOf[m.envelope] = ContentOf[r.envelope]
<1>1. TypeOK
  BY DEF IInv
<1>2. ASSUME NEW h \in Handlers, Read(h), SameContent(h), IsDuplicate(h), AnswerSuccess(h)
      PROVE  \E r \in Requests :
            /\ answered' = answered \cup {r}
            /\ handed' = handed
            /\ \E m \in handed : /\ m.event = r.event
                                 /\ ContentOf[m.envelope] = ContentOf[r.envelope]
  <2>1. handler[h].request \in Requests /\ handler[h].request.event \in Events
    BY <1>1, <1>2, Serving DEF Read
  <2>2. Msg(handler[h].request.event, rows[handler[h].request.event].envelope) \in handed
    BY <1>2, <2>1 DEF IInv, SentIsHanded, IsDuplicate, Msg
  <2> QED
    BY <1>2, <2>1, <2>2 DEF Read, SameContent, AnswerSuccess, Msg
<1>3. ASSUME NEW h \in Handlers, Mark(h)
      PROVE  \E r \in Requests :
            /\ answered' = answered \cup {r}
            /\ handed' = handed
            /\ \E m \in handed : /\ m.event = r.event
                                 /\ ContentOf[m.envelope] = ContentOf[r.envelope]
  <2>1. handler[h].request \in Requests
    BY <1>1, <1>3, Serving DEF Mark
  <2>2. /\ Msg(handler[h].request.event, handler[h].staged) \in handed
        /\ ContentOf[handler[h].staged] = ContentOf[handler[h].request.envelope]
    BY <1>3 DEF IInv, HandlerKnows, Mark
  <2> QED
    BY <1>3, <2>1, <2>2 DEF Mark, AnswerSuccess, Msg
<1> QED
  BY <1>2, <1>3
     DEF Next, HandlerStep, TimerStep, vars, Receive, Lookup, Reserve, Prepare, Create,
         Read, Publish, Fail, TimerList, TimerPublish, TimerMark, TimerSkip, TimerEnd,
         NextDay

LEMMA InvStep == IInv /\ [Next]_vars => IInv'
<1> SUFFICES ASSUME IInv, [Next]_vars PROVE IInv'
  OBVIOUS
<1>1. TypeOK' /\ MessagesAgree' /\ SentIsHanded' /\ PointersResolve' /\ TimerKnows'
  BY TypeStep, AgreeStep, SentStep, PointersStep, TimerStepKnows DEF IInv
<1>2. \A h \in Handlers : HandlerKnows(h)'
  BY HandlerStepKnows
<1>3. AnsweredIsHanded'
  <2>1. handed \subseteq handed'
    BY StepKeeps DEF IInv, Kept
  <2>2. CASE answered' = answered
    BY <2>1, <2>2 DEF IInv, AnsweredIsHanded
  <2>3. CASE answered' # answered
    BY <2>1, <2>3, AnswerStep DEF IInv, AnsweredIsHanded
  <2> QED
    BY <2>2, <2>3
<1> QED
  BY <1>1, <1>2, <1>3 DEF IInv
-----------------------------------------------------------------------------
(***************************************************************************)
(* The inductive invariant holds in every reachable state.                 *)
(***************************************************************************)
THEOREM Invariance == Spec => []IInv
<1>1. Init => IInv
  BY InvInit
<1>2. IInv /\ [Next]_vars => IInv'
  BY InvStep
<1> QED
  BY <1>1, <1>2, PTL DEF Spec

(***************************************************************************)
(* The variables of the intake keep their types.                           *)
(***************************************************************************)
THEOREM TypeCorrect == Spec => []TypeOK
<1>1. IInv => TypeOK
  BY DEF IInv
<1> QED
  BY <1>1, Invariance, PTL

(***************************************************************************)
(* A row marked sent has its message on the queue, with the envelope it    *)
(* was created with, however many handlers and crashes there were: the     *)
(* publish-before-mark order of _publish_once and of the dispatcher.       *)
(***************************************************************************)
THEOREM NothingSentIsLost == Spec => []SentIsHanded
<1>1. IInv => SentIsHanded
  BY DEF IInv
<1> QED
  BY <1>1, Invariance, PTL

(***************************************************************************)
(* Every publisher of an event publishes the envelope of its row.          *)
(***************************************************************************)
THEOREM OneEnvelopePerEvent == Spec => []MessagesAgree
<1>1. IInv => MessagesAgree
  BY DEF IInv
<1> QED
  BY <1>1, Invariance, PTL

(***************************************************************************)
(* No pointer is ever published or stored before its blob.                 *)
(***************************************************************************)
THEOREM PointersAlwaysResolve == Spec => []PointersResolve
<1>1. IInv => PointersResolve
  BY DEF IInv
<1> QED
  BY <1>1, Invariance, PTL

(***************************************************************************)
(* The intake implements the abstract channel: every step hands over the   *)
(* first message of an event, answers a request whose content is on the    *)
(* queue, or is invisible.                                                 *)
(***************************************************************************)
THEOREM Implementation == Spec => ImplementsChannel
<1>1. Init => Channel!Init
  BY DEF Init, Channel!Init
<1>2. IInv /\ IInv' /\ [Next]_vars => [Channel!Next]_<<handed, answered>>
  <2> SUFFICES ASSUME IInv, IInv', [Next]_vars
               PROVE  [Channel!Next]_<<handed, answered>>
    OBVIOUS
  <2>1. CASE answered' # answered
    <3>1. PICK r \in Requests :
            /\ answered' = answered \cup {r}
            /\ handed' = handed
            /\ \E m \in handed : /\ m.event = r.event
                                 /\ ContentOf[m.envelope] = ContentOf[r.envelope]
      BY <2>1, AnswerStep
    <3>2. r \in Channel!Message
      BY RequestsAreMessages DEF Message, Channel!Message
    <3>3. Channel!Acknowledge(r)
      BY <3>1 DEF Channel!Acknowledge
    <3> QED
      BY <3>2, <3>3 DEF Channel!Next
  <2>2. CASE answered' = answered /\ handed' # handed
    <3>1. \E m \in Message : handed' = handed \cup {m}
      <4>1. ASSUME NEW h \in Handlers, Publish(h)
            PROVE  \E m \in Message : handed' = handed \cup {m}
        BY <4>1, Serving DEF Publish, HandOver, IInv, Message
      <4>2. ASSUME NEW m \in Message, TimerPublish(m)
            PROVE  \E n \in Message : handed' = handed \cup {n}
        BY <4>2 DEF TimerPublish, HandOver, Message
      <4> QED
        BY <2>2, <4>1, <4>2
           DEF Next, HandlerStep, TimerStep, vars, Receive, Lookup, Reserve, Prepare,
               Create, Read, Mark, Fail, TimerList, TimerMark, TimerSkip, TimerEnd,
               NextDay
    <3>2. PICK m \in Message : handed' = handed \cup {m}
      BY <3>1
    <3>3. \A n \in handed : n.event # m.event
      <4> SUFFICES ASSUME NEW n \in handed, n.event = m.event
                   PROVE  FALSE
        OBVIOUS
      <4>1. n \in handed' /\ m \in handed'
        BY <3>2
      <4>2. n.envelope = m.envelope
        BY <4>1 DEF IInv, MessagesAgree
      <4>3. n = m
        BY <4>2 DEF IInv, TypeOK, Message
      <4> QED
        BY <2>2, <3>2, <4>3
    <3>4. Channel!Accept(m)
      BY <2>2, <3>2, <3>3 DEF Channel!Accept
    <3> QED
      BY <3>4 DEF Channel!Next, Channel!Message, Message
  <2> QED
    BY <2>1, <2>2
<1> QED
  BY <1>1, <1>2, Invariance, PTL DEF Spec, ImplementsChannel, Channel!Spec
-----------------------------------------------------------------------------
(***************************************************************************)
(* The quota.  Every github event that has a row, or is on the way to one, *)
(* has been charged on some day; the days before today have taken at most  *)
(* their limits, today its own.                                            *)
(***************************************************************************)
Charged == UNION {charged[d] : d \in 0..MaxDay}

QuotaInv ==
    /\ \A e \in Github : rows[e].state # "absent" => e \in Charged
    /\ \A h \in Handlers :
         handler[h].pc \in {"prepare", "create"} /\ handler[h].request.event \in Github =>
             handler[h].request.event \in Charged
    /\ \A d \in 0..MaxDay : d > day => charged[d] = {}
    /\ IsFiniteSet(Charged)
    /\ IsFiniteSet(charged[day])
    /\ Cardinality(charged[day]) <= DailyLimit
    /\ Cardinality(Charged) <= day * DailyLimit + Cardinality(charged[day])

LEMMA QuotaInit == Init => QuotaInv
<1> SUFFICES ASSUME Init PROVE QuotaInv
  OBVIOUS
<1>1. day = 0 /\ 0 \in 0..MaxDay /\ charged[day] = {} /\ Charged = {}
  BY IntakeConstants DEF Init, Charged
<1>2. IsFiniteSet({}) /\ Cardinality({}) = 0
  BY FS_EmptySet
<1>3. Cardinality(Charged) <= day * DailyLimit + Cardinality(charged[day])
  BY <1>1, <1>2, IntakeConstants
<1> QED
  BY <1>1, <1>2, <1>3, IntakeConstants DEF Init, QuotaInv, EmptyTable, Idle

(***************************************************************************)
(* A step charges at most one event, today and within the limit, or begins *)
(* a day, or leaves the quota alone.                                       *)
(***************************************************************************)
Charges ==
    \E e \in Events :
        /\ e \in charged[day] \/ QuotaLeft
        /\ charged' = [charged EXCEPT ![day] = @ \cup {e}]
        /\ UNCHANGED day

DayBegins == day < MaxDay /\ day' = day + 1 /\ UNCHANGED charged

LEMMA ChargeStep ==
  ASSUME TypeOK, [Next]_vars
  PROVE  Charges \/ DayBegins \/ UNCHANGED <<charged, day>>
<1>1. ASSUME NEW h \in Handlers, Reserve(h)
      PROVE  Charges \/ UNCHANGED <<charged, day>>
  BY <1>1, Serving DEF Reserve, Charges
<1> QED
  BY <1>1 DEF DayBegins, Next, HandlerStep, TimerStep, vars, Receive, Lookup, Prepare, Create,
              Read, Publish, Mark, Fail, TimerList, TimerPublish, TimerMark, TimerSkip,
              TimerEnd, NextDay

LEMMA CountStep ==
  ASSUME TypeOK, QuotaInv, [Next]_vars
  PROVE  /\ Charged \subseteq Charged'
         /\ \A d \in 0..MaxDay : d > day' => charged'[d] = {}
         /\ IsFiniteSet(Charged')
         /\ IsFiniteSet(charged'[day'])
         /\ Cardinality(charged'[day']) <= DailyLimit
         /\ Cardinality(Charged') <= day' * DailyLimit + Cardinality(charged'[day'])
<1> DEFINE Goal == /\ Charged \subseteq Charged'
                   /\ \A d \in 0..MaxDay : d > day' => charged'[d] = {}
                   /\ IsFiniteSet(Charged')
                   /\ IsFiniteSet(charged'[day'])
                   /\ Cardinality(charged'[day']) <= DailyLimit
                   /\ Cardinality(Charged') <= day' * DailyLimit + Cardinality(charged'[day'])
<1>1. /\ charged \in [0..MaxDay -> SUBSET Events] /\ day \in 0..MaxDay
      /\ MaxDay \in Nat /\ DailyLimit \in Nat /\ day \in Nat /\ day * DailyLimit \in Nat
  BY IntakeConstants DEF TypeOK
<1>2. /\ IsFiniteSet(Charged) /\ Cardinality(Charged) \in Nat
      /\ IsFiniteSet(charged[day]) /\ Cardinality(charged[day]) \in Nat
  BY FS_CardinalityType DEF QuotaInv
<1>3. ASSUME UNCHANGED <<charged, day>>
      PROVE  Goal
  BY <1>3 DEF QuotaInv, Charged
<1>4. ASSUME NEW e \in Events, e \in charged[day] \/ QuotaLeft,
             charged' = [charged EXCEPT ![day] = @ \cup {e}], UNCHANGED day
      PROVE  Goal
  <2>1. charged'[day'] = charged[day] \cup {e} /\ Charged' = Charged \cup {e}
    BY <1>1, <1>4 DEF Charged
  <2>2. /\ IsFiniteSet(charged'[day'])
        /\ Cardinality(charged'[day']) =
              IF e \in charged[day] THEN Cardinality(charged[day])
                                    ELSE Cardinality(charged[day]) + 1
    BY <1>2, <2>1, FS_AddElement
  <2>3. /\ IsFiniteSet(Charged')
        /\ Cardinality(Charged') =
              IF e \in Charged THEN Cardinality(Charged) ELSE Cardinality(Charged) + 1
    BY <1>2, <2>1, FS_AddElement
  <2>4. e \in charged[day] => e \in Charged
    BY <1>1 DEF Charged
  <2>5. Cardinality(charged'[day']) <= DailyLimit
    BY <1>1, <1>2, <1>4, <2>2 DEF QuotaInv, QuotaLeft
  <2>6. Cardinality(Charged') <= day * DailyLimit + Cardinality(charged'[day'])
    BY <1>1, <1>2, <2>2, <2>3, <2>4 DEF QuotaInv
  <2>7. \A d \in 0..MaxDay : d > day' => charged'[d] = {}
    BY <1>1, <1>4 DEF QuotaInv
  <2> QED
    BY <1>4, <2>1, <2>2, <2>3, <2>5, <2>6, <2>7
<1>5. ASSUME DayBegins
      PROVE  Goal
  <2>1. /\ day' = day + 1 /\ day' \in 0..MaxDay /\ charged' = charged /\ Charged' = Charged
    BY <1>1, <1>5 DEF DayBegins, Charged
  <2>2. charged'[day'] = {} /\ \A d \in 0..MaxDay : d > day' => charged'[d] = {}
    BY <1>1, <2>1 DEF QuotaInv
  <2>3. IsFiniteSet({}) /\ Cardinality({}) = 0
    BY FS_EmptySet
  <2>4. day' * DailyLimit = day * DailyLimit + DailyLimit
    BY <1>1, <2>1
  <2>5. Cardinality(Charged) <= day * DailyLimit + DailyLimit
    BY <1>1, <1>2 DEF QuotaInv
  <2> QED
    BY <1>1, <1>2, <2>1, <2>2, <2>3, <2>4, <2>5
<1> HIDE DEF Goal
<1>6. Goal
  BY <1>3, <1>4, <1>5, ChargeStep DEF Charges
<1> QED
  BY <1>6 DEF Goal

LEMMA QuotaStep == IInv /\ QuotaInv /\ [Next]_vars => QuotaInv'
<1> SUFFICES ASSUME IInv, QuotaInv, [Next]_vars PROVE QuotaInv'
  OBVIOUS
<1>1. TypeOK /\ Charged \subseteq Charged'
  BY CountStep DEF IInv
<1>2. ASSUME NEW e \in Github, rows'[e].state # "absent"
      PROVE  e \in Charged'
  <2>1. e \in Events
    BY IntakeConstants
  <2>2. CASE rows[e].state # "absent"
    BY <1>1, <2>2 DEF QuotaInv
  <2>3. CASE rows[e].state = "absent"
    <3>1. PICK h \in Handlers :
            /\ handler[h].pc = "create"
            /\ handler[h].request = Msg(e, rows'[e].envelope)
      BY <1>1, <1>2, <2>1, <2>3, NewRow
    <3>2. handler[h].request.event = e
      BY <3>1 DEF Msg
    <3> QED
      BY <1>1, <3>1, <3>2 DEF QuotaInv
  <2> QED
    BY <2>2, <2>3
<1>3. ASSUME NEW h \in Handlers, handler'[h].pc \in {"prepare", "create"},
             handler'[h].request.event \in Github
      PROVE  handler'[h].request.event \in Charged'
  <2>1. handler \in [Handlers -> HandlerState] /\ charged \in [0..MaxDay -> SUBSET Events]
        /\ day \in 0..MaxDay
    BY <1>1 DEF TypeOK
  <2>2. CASE handler'[h] = handler[h]
    BY <1>1, <1>3, <2>2 DEF QuotaInv
  <2>3. CASE \E r \in Requests : Receive(h, r)
    BY <1>3, <2>1, <2>3 DEF Receive
  <2>4. ASSUME NEW s, Goto(h, s), handler[h].pc # "idle"
        PROVE  handler'[h].request = handler[h].request /\ handler'[h].pc = s
    BY <2>1, <2>4 DEF Goto, HandlerState
  <2>5. CASE Lookup(h)
    BY <1>1, <1>3, <2>1, <2>4, <2>5 DEF Lookup, Return, Idle, QuotaInv
  <2>6. CASE Reserve(h)
    <3>1. Goto(h, "prepare") /\ charged' = [charged EXCEPT ![day] = @ \cup {handler[h].request.event}]
          /\ handler[h].pc # "idle"
      BY <1>3, <2>1, <2>6 DEF Reserve, Return, Idle
    <3>2. handler[h].request.event \in Charged'
      <4>1. handler[h].request.event \in charged'[day]
        BY <2>1, <3>1
      <4> QED
        BY <2>1, <4>1 DEF Charged
    <3> QED
      BY <2>4, <3>1, <3>2
  <2>7. CASE Prepare(h)
    BY <1>1, <1>3, <2>4, <2>7 DEF Prepare, QuotaInv
  <2>8. CASE Create(h) \/ Publish(h)
    BY <1>3, <2>4, <2>8 DEF Create, Publish
  <2>9. CASE Read(h) \/ Mark(h) \/ Fail(h)
    BY <1>3, <2>1, <2>9 DEF Read, Mark, Fail, Return, Idle
  <2>10. ASSUME NEW g \in Handlers, g # h, HandlerStep(g)
         PROVE  handler'[h] = handler[h]
    BY <2>1, <2>10
       DEF HandlerStep, Receive, Lookup, Reserve, Prepare, Create, Read, Publish, Mark, Fail,
           Goto, Return
  <2> QED
    BY <2>2, <2>3, <2>5, <2>6, <2>7, <2>8, <2>9, <2>10
       DEF Next, HandlerStep, TimerStep, vars, TimerList, TimerPublish, TimerMark, TimerSkip,
           TimerEnd, NextDay
<1> QED
  BY <1>1, <1>2, <1>3, CountStep DEF QuotaInv

(***************************************************************************)
(* After d + 1 days at most (d + 1) * DailyLimit github events are on the  *)
(* queue, for any limit and any number of events and invocations.          *)
(***************************************************************************)
THEOREM QuotaIsKept == Spec => []QuotaBoundsQueue
<1>1. Init => QuotaInv
  BY QuotaInit
<1>2. IInv /\ QuotaInv /\ [Next]_vars => QuotaInv'
  BY QuotaStep
<1>3. IInv /\ QuotaInv => QuotaBoundsQueue
  <2> SUFFICES ASSUME IInv, QuotaInv PROVE QuotaBoundsQueue
    OBVIOUS
  <2> DEFINE queued == {e \in Github : \E m \in handed : m.event = e}
  <2>1. queued \in SUBSET Charged
    BY DEF QuotaInv, IInv, MessagesAgree
  <2>2. IsFiniteSet(Charged) /\ IsFiniteSet(charged[day])
    BY DEF QuotaInv
  <2>3. Cardinality(queued) <= Cardinality(Charged) /\ IsFiniteSet(queued)
    BY <2>1, <2>2, FS_Subset
  <2>4. /\ Cardinality(queued) \in Nat /\ Cardinality(Charged) \in Nat
        /\ Cardinality(charged[day]) \in Nat
    BY <2>2, <2>3, FS_CardinalityType
  <2>5. /\ day \in Nat /\ DailyLimit \in Nat /\ day * DailyLimit \in Nat
        /\ (day + 1) * DailyLimit = day * DailyLimit + DailyLimit
    BY IntakeConstants DEF IInv, TypeOK
  <2>6. Cardinality(queued) <= (day + 1) * DailyLimit
    BY <2>3, <2>4, <2>5 DEF QuotaInv
  <2> QED
    BY <2>6 DEF QuotaBoundsQueue
<1> QED
  BY <1>1, <1>2, <1>3, Invariance, PTL DEF Spec
=============================================================================
