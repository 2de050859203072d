------------------------- MODULE EventIngestProofs -------------------------
(***************************************************************************)
(* Theorems about EventIngest for every set of events and every finite set *)
(* of handlers, under any number of failures, expiries and crashes.        *)
(***************************************************************************)
EXTENDS EventIngest, FiniteSetTheorems, TLAPS

\* Handlers past the Redis key of e: each of them may still hand e on.
Inflight(e) == {h \in Handlers : pc[h] \in {"saveEvent", "saveMessage", "reply"} /\ ev[h] = e}

\* Each life of the key, past or present, admits one handler.
Budget ==
  \A e \in Events :
    handled[e] + Cardinality(Inflight(e)) <= expiries[e] + (IF e \in seen THEN 1 ELSE 0)

\* What a handler that got this far has already written.
Stages ==
  \A h \in Handlers :
    /\ pc[h] \in {"saveEvent", "saveMessage", "reply"} => ev[h] \in Genuine
    /\ pc[h] \in {"saveMessage", "reply"} => ev[h] \in MsgEvents \cap events
    /\ pc[h] = "reply" => ev[h] \in messages

\* A key means that its event was handed on, met a fault, or is being handled.
KeyHasCause ==
  \A e \in MsgEvents : e \in seen => handled[e] > 0 \/ e \in faulted \/ Inflight(e) # {}

IInv ==
  /\ TypeOK
  /\ Budget
  /\ Stages
  /\ KeyHasCause
  /\ ProcessedIsDurable
  /\ RowsBeforeReply
  /\ LossNeedsFault

LEMMA InitIInv == Init => IInv
  <1> SUFFICES ASSUME Init PROVE IInv
    OBVIOUS
  <1> USE EventsAssumption, BoundsAssumption DEF Init
  <1>1. TypeOK  BY DEF TypeOK
  <1>2. \A e \in Events : Inflight(e) = {}  BY DEF Inflight
  <1>3. Budget  BY <1>2, FS_EmptySet DEF Budget
  <1>4. Stages /\ KeyHasCause /\ ProcessedIsDurable /\ RowsBeforeReply /\ LossNeedsFault
    BY DEF Stages, KeyHasCause, ProcessedIsDurable, RowsBeforeReply, LossNeedsFault
  <1>5. QED  BY <1>1, <1>3, <1>4 DEF IInv

LEMMA InflightFinite ==
  \A e \in Events : IsFiniteSet(Inflight(e)) /\ Cardinality(Inflight(e)) \in Nat
  <1> TAKE e \in Events
  <1>1. Inflight(e) \in SUBSET Handlers  BY DEF Inflight
  <1>2. IsFiniteSet(Inflight(e))  BY <1>1, HandlersAssumption, FS_Subset
  <1>3. QED  BY <1>2, FS_CardinalityType

(* The budget of an event is kept by a step that adds nobody to its        *)
(* in-flight handlers, hands nothing on and forgets no key.                *)
LEMMA BudgetKept ==
  ASSUME TypeOK, Budget, NEW e \in Events,
         IsFiniteSet(Inflight(e)), Inflight(e)' \subseteq Inflight(e),
         handled'[e] = handled[e], expiries'[e] = expiries[e], e \in seen => e \in seen'
  PROVE  handled'[e] + Cardinality(Inflight(e)') <= expiries'[e] + (IF e \in seen' THEN 1 ELSE 0)
  <1>1. Inflight(e)' \in SUBSET Inflight(e)  OBVIOUS
  <1>2. Cardinality(Inflight(e)') <= Cardinality(Inflight(e)) /\ IsFiniteSet(Inflight(e)')
    BY <1>1, FS_Subset
  <1>3. Cardinality(Inflight(e)') \in Nat /\ Cardinality(Inflight(e)) \in Nat
    BY <1>2, FS_CardinalityType
  <1>4. handled[e] \in Nat /\ expiries[e] \in Nat  BY BoundsAssumption DEF TypeOK
  <1>5. handled[e] + Cardinality(Inflight(e)) <= expiries[e] + (IF e \in seen THEN 1 ELSE 0)
    BY DEF Budget
  <1>6. QED  BY <1>2, <1>3, <1>4, <1>5

(* Answering ends the handler: it serves no event any more.                *)
LEMMA DoneEffect ==
  ASSUME TypeOK, NEW h \in Handlers, Done(h)
  PROVE  /\ pc'[h] = "idle" /\ ev'[h] = NoEvent
         /\ \A g \in Handlers : g # h => pc'[g] = pc[g] /\ ev'[g] = ev[g]
         /\ pc' \in [Handlers -> {"idle", "mark", "saveEvent", "saveMessage", "reply"}]
         /\ ev' \in [Handlers -> Events \cup {NoEvent}]
         /\ \A e \in Events : Inflight(e)' = Inflight(e) \ {h}
  <1>1. pc'[h] = "idle" /\ ev'[h] = NoEvent
    BY DEF Done, Goto, TypeOK
  <1>2. \A g \in Handlers : g # h => pc'[g] = pc[g] /\ ev'[g] = ev[g]
    BY DEF Done, Goto, TypeOK
  <1>3. /\ pc' \in [Handlers -> {"idle", "mark", "saveEvent", "saveMessage", "reply"}]
        /\ ev' \in [Handlers -> Events \cup {NoEvent}]
    BY DEF Done, Goto, TypeOK
  <1>4. \A e \in Events : Inflight(e)' = Inflight(e) \ {h}
    BY <1>1, <1>2 DEF Inflight
  <1>5. QED  BY <1>1, <1>2, <1>3, <1>4

LEMMA BudgetDone ==
  ASSUME TypeOK, Budget, NEW h \in Handlers, Done(h), seen \subseteq seen',
         UNCHANGED <<handled, expiries>>
  PROVE  Budget'
  <1> SUFFICES ASSUME NEW e \in Events
               PROVE  handled'[e] + Cardinality(Inflight(e)') <= expiries'[e] + (IF e \in seen' THEN 1 ELSE 0)
    BY DEF Budget
  <1>1. Inflight(e)' \subseteq Inflight(e)  BY DoneEffect
  <1>2. IsFiniteSet(Inflight(e))  BY InflightFinite
  <1>3. QED  BY <1>1, <1>2, BudgetKept

(* A handler that fails: its event is faulted, whatever the failed call    *)
(* wrote.                                                                  *)
LEMMA FailStep ==
  ASSUME IInv, NEW h \in Handlers, pc[h] # "idle", ev[h] \in Genuine, Answer500(h),
         seen' \in {seen, seen \cup {ev[h]}}, events' \in {events, events \cup {ev[h]}},
         messages' = messages \/ (ev[h] \in MsgEvents \cap events /\ messages' = messages \cup {ev[h]}),
         UNCHANGED <<handled, attempts, expiries, crashes>>
  PROVE  IInv'
  <1> USE EventsAssumption DEF IInv, Answer500
  <1>1. TypeOK'  BY DoneEffect DEF TypeOK
  <1>2. Budget'  BY BudgetDone
  <1>3. Stages'  BY DoneEffect DEF Stages
  <1>4. \A e \in Events : e # ev[h] => Inflight(e)' = Inflight(e)
    BY DoneEffect DEF Inflight
  <1>5. KeyHasCause'  BY <1>4 DEF KeyHasCause
  <1>6. ProcessedIsDurable'  BY DEF ProcessedIsDurable
  <1>7. RowsBeforeReply'  BY DEF RowsBeforeReply
  <1>8. LossNeedsFault'
    <2>1. SUFFICES ASSUME NEW e \in MsgEvents, attempts'[e] > 0,
                          \A g \in Handlers : ev'[g] # e
                   PROVE  handled'[e] > 0 \/ e \in faulted'
      BY DEF LossNeedsFault
    <2>2. CASE e = ev[h]  BY <2>2
    <2>3. CASE e # ev[h]
      <3>1. \A g \in Handlers : ev[g] # e  BY <2>1, <2>3, DoneEffect
      <3>2. QED  BY <2>1, <3>1 DEF LossNeedsFault
    <2>4. QED  BY <2>2, <2>3
  <1>9. QED  BY <1>1, <1>2, <1>3, <1>5, <1>6, <1>7, <1>8

LEMMA DeliverStep ==
  ASSUME IInv, NEW h \in Handlers, NEW e0 \in Events, Deliver(h, e0)
  PROVE  IInv'
  <1> USE EventsAssumption, BoundsAssumption DEF IInv, Deliver, rows
  <1>1. /\ pc'[h] = "mark" /\ ev'[h] = e0
        /\ \A g \in Handlers : g # h => pc'[g] = pc[g] /\ ev'[g] = ev[g]
    BY DEF TypeOK
  <1>2. \A e \in Events : Inflight(e)' = Inflight(e)  BY <1>1 DEF Inflight
  <1>3. TypeOK'
    <2>1. attempts' \in [Events -> 0..MaxAttempts]  BY DEF TypeOK
    <2>2. QED  BY <1>1, <2>1 DEF TypeOK
  <1>4. Budget'
    <2>1. SUFFICES ASSUME NEW e \in Events
                   PROVE  handled'[e] + Cardinality(Inflight(e)') <= expiries'[e] + (IF e \in seen' THEN 1 ELSE 0)
      BY DEF Budget
    <2>2. QED  BY <1>2, InflightFinite, BudgetKept
  <1>5. Stages'  BY <1>1 DEF Stages
  <1>6. KeyHasCause'  BY <1>2 DEF KeyHasCause
  <1>7. ProcessedIsDurable' /\ RowsBeforeReply'  BY DEF ProcessedIsDurable, RowsBeforeReply
  <1>8. LossNeedsFault'
    <2>1. SUFFICES ASSUME NEW e \in MsgEvents, attempts'[e] > 0,
                          \A g \in Handlers : ev'[g] # e
                   PROVE  handled'[e] > 0 \/ e \in faulted'
      BY DEF LossNeedsFault
    <2>2. e # e0  BY <1>1, <2>1
    <2>3. attempts'[e] = attempts[e]  BY <2>2 DEF TypeOK
    <2>4. \A g \in Handlers : ev[g] # e
      BY <1>1, <2>1 DEF TypeOK
    <2>5. QED  BY <2>1, <2>3, <2>4 DEF LossNeedsFault
  <1>9. QED  BY <1>3, <1>4, <1>5, <1>6, <1>7, <1>8

(* An answer without effect: a refused delivery, or a duplicate.           *)
LEMMA MarkAnswerStep ==
  ASSUME IInv, NEW h \in Handlers, pc[h] = "mark", Done(h),
         \/ ev[h] \notin Genuine /\ acked' = acked
         \/ ev[h] \in Genuine \cap seen /\ acked' \in {acked, acked \cup {<<ev[h], "duplicate">>}},
         UNCHANGED <<seen, rows, handled, attempts, expiries, faulted, crashes>>
  PROVE  IInv'
  <1> USE EventsAssumption DEF IInv, rows
  <1>1. TypeOK'  BY DoneEffect DEF TypeOK, Replies
  <1>2. Budget'  BY BudgetDone
  <1>3. Stages'  BY DoneEffect DEF Stages
  <1>4. \A e \in Events : Inflight(e)' = Inflight(e)  BY DoneEffect DEF Inflight
  <1>5. KeyHasCause'  BY <1>4 DEF KeyHasCause
  <1>6. ProcessedIsDurable' /\ RowsBeforeReply'  BY DEF ProcessedIsDurable, RowsBeforeReply
  <1>7. LossNeedsFault'
    <2>1. SUFFICES ASSUME NEW e \in MsgEvents, attempts'[e] > 0,
                          \A g \in Handlers : ev'[g] # e
                   PROVE  handled'[e] > 0 \/ e \in faulted'
      BY DEF LossNeedsFault
    <2>2. CASE e = ev[h]
      <3>1. e \in seen  BY <2>2
      <3>2. Inflight(e) = {}
        <4>1. \A g \in Handlers : g # h => ev[g] # e  BY <2>1, DoneEffect
        <4>2. QED  BY <4>1 DEF Inflight
      <3>3. QED  BY <3>1, <3>2 DEF KeyHasCause
    <2>3. CASE e # ev[h]
      <3>1. \A g \in Handlers : ev[g] # e  BY <2>1, <2>3, DoneEffect
      <3>2. QED  BY <2>1, <3>1 DEF LossNeedsFault
    <2>4. QED  BY <2>2, <2>3
  <1>8. QED  BY <1>1, <1>2, <1>3, <1>5, <1>6, <1>7

(* SETNX: the key admits one handler, this one.                            *)
LEMMA MarkNewStep ==
  ASSUME IInv, NEW h \in Handlers, MarkNew(h)
  PROVE  IInv'
  <1> USE EventsAssumption, BoundsAssumption DEF IInv, MarkNew, Goto, rows
  <1> DEFINE e0 == ev[h]
  <1>1. pc'[h] = "saveEvent" /\ (\A g \in Handlers : g # h => pc'[g] = pc[g])
    BY DEF TypeOK
  <1>2. \A e \in Events : e # e0 => Inflight(e)' = Inflight(e)  BY <1>1 DEF Inflight
  <1>3. Inflight(e0)' = Inflight(e0) \cup {h} /\ h \notin Inflight(e0)
    BY <1>1 DEF Inflight
  <1>4. TypeOK'  BY <1>1 DEF TypeOK
  <1>5. Budget'
    <2>1. SUFFICES ASSUME NEW e \in Events
                   PROVE  handled'[e] + Cardinality(Inflight(e)') <= expiries'[e] + (IF e \in seen' THEN 1 ELSE 0)
      BY DEF Budget
    <2>2. CASE e # e0  BY <2>2, <1>2, InflightFinite, BudgetKept
    <2>3. CASE e = e0
      <3>1. IsFiniteSet(Inflight(e)) /\ Cardinality(Inflight(e)) \in Nat  BY InflightFinite
      <3>2. Cardinality(Inflight(e)') = Cardinality(Inflight(e)) + 1
        BY <2>3, <3>1, <1>3, FS_AddElement
      <3>3. handled[e] \in Nat /\ expiries[e] \in Nat  BY DEF TypeOK
      <3>4. handled[e] + Cardinality(Inflight(e)) <= expiries[e]  BY <2>3, <3>3 DEF Budget
      <3>5. e \in seen'  BY <2>3
      <3>6. QED  BY <3>1, <3>2, <3>3, <3>4, <3>5
    <2>4. QED  BY <2>2, <2>3
  <1>6. Stages'  BY <1>1 DEF Stages
  <1>7. KeyHasCause'  BY <1>2, <1>3 DEF KeyHasCause
  <1>8. ProcessedIsDurable' /\ RowsBeforeReply' /\ LossNeedsFault'
    BY DEF ProcessedIsDurable, RowsBeforeReply, LossNeedsFault
  <1>9. QED  BY <1>4, <1>5, <1>6, <1>7, <1>8

(* A row is written and the handler goes on to its next call.              *)
LEMMA MoveStep ==
  ASSUME IInv, NEW h \in Handlers, NEW label,
         \/ /\ pc[h] = "saveEvent" /\ label = "saveMessage" /\ ev[h] \in MsgEvents
            /\ events' = events \cup {ev[h]} /\ messages' = messages
         \/ /\ pc[h] = "saveMessage" /\ label = "reply"
            /\ events' = events /\ messages' = messages \cup {ev[h]},
         Goto(h, label), UNCHANGED <<ev, seen, handled, acked, attempts, expiries, faulted, crashes>>
  PROVE  IInv'
  <1> USE EventsAssumption DEF IInv, Goto
  <1>1. pc'[h] = label /\ (\A g \in Handlers : g # h => pc'[g] = pc[g])
    BY DEF TypeOK
  <1>2. \A e \in Events : Inflight(e)' = Inflight(e)  BY <1>1 DEF Inflight
  <1>3. TypeOK'  BY <1>1 DEF TypeOK, Stages
  <1>4. Budget'
    <2>1. SUFFICES ASSUME NEW e \in Events
                   PROVE  handled'[e] + Cardinality(Inflight(e)') <= expiries'[e] + (IF e \in seen' THEN 1 ELSE 0)
      BY DEF Budget
    <2>2. QED  BY <1>2, InflightFinite, BudgetKept
  <1>5. Stages'  BY <1>1 DEF Stages
  <1>6. KeyHasCause'  BY <1>2 DEF KeyHasCause
  <1>7. ProcessedIsDurable' /\ LossNeedsFault'  BY DEF ProcessedIsDurable, LossNeedsFault
  <1>8. RowsBeforeReply'  BY DEF RowsBeforeReply, Stages
  <1>9. QED  BY <1>3, <1>4, <1>5, <1>6, <1>7, <1>8

(* An event without a message is done when its row is written.             *)
LEMMA SaveOtherStep ==
  ASSUME IInv, NEW h \in Handlers, pc[h] = "saveEvent", ev[h] \notin MsgEvents,
         events' = events \cup {ev[h]}, Answer200(h, "processed"),
         UNCHANGED <<seen, messages, handled, attempts, expiries, faulted, crashes>>
  PROVE  IInv'
  <1> USE EventsAssumption DEF IInv, Answer200
  <1>1. TypeOK'  BY DoneEffect DEF TypeOK, Replies, Stages
  <1>2. Budget'  BY BudgetDone
  <1>3. Stages'  BY DoneEffect DEF Stages
  <1>4. \A e \in MsgEvents : Inflight(e)' = Inflight(e)  BY DoneEffect DEF Inflight
  <1>5. KeyHasCause'  BY <1>4 DEF KeyHasCause
  <1>6. ProcessedIsDurable' /\ RowsBeforeReply'  BY DEF ProcessedIsDurable, RowsBeforeReply
  <1>7. LossNeedsFault'
    <2>1. SUFFICES ASSUME NEW e \in MsgEvents, attempts'[e] > 0,
                          \A g \in Handlers : ev'[g] # e
                   PROVE  handled'[e] > 0 \/ e \in faulted'
      BY DEF LossNeedsFault
    <2>2. \A g \in Handlers : ev[g] # e  BY <2>1, DoneEffect
    <2>3. QED  BY <2>1, <2>2 DEF LossNeedsFault
  <1>8. QED  BY <1>1, <1>2, <1>3, <1>5, <1>6, <1>7

(* The message is handed on: the handler's share of the budget is spent.   *)
LEMMA HandleStep ==
  ASSUME IInv, NEW h \in Handlers, HandleMessage(h)
  PROVE  IInv'
  <1> USE EventsAssumption, BoundsAssumption DEF IInv, HandleMessage, Answer200, rows
  <1> DEFINE e0 == ev[h]
  <1>1. e0 \in MsgEvents /\ e0 \in events /\ e0 \in messages  BY DEF Stages
  <1>2. /\ handled'[e0] = handled[e0] + 1 /\ handled' \in [Events -> Nat]
        /\ \A e \in Events : e # e0 => handled'[e] = handled[e]
    BY <1>1 DEF TypeOK
  <1>3. TypeOK'  BY <1>1, <1>2, DoneEffect DEF TypeOK, Replies
  <1>4. Budget'
    <2>1. SUFFICES ASSUME NEW e \in Events
                   PROVE  handled'[e] + Cardinality(Inflight(e)') <= expiries'[e] + (IF e \in seen' THEN 1 ELSE 0)
      BY DEF Budget
    <2>2. Inflight(e)' = Inflight(e) \ {h}  BY DoneEffect
    <2>3. IsFiniteSet(Inflight(e)) /\ Cardinality(Inflight(e)) \in Nat  BY InflightFinite
    <2>4. CASE e # e0
      <3>1. Inflight(e)' \subseteq Inflight(e) /\ handled'[e] = handled[e]
        BY <2>2, <2>4, <1>2
      <3>2. QED  BY <3>1, <2>3, BudgetKept
    <2>5. CASE e = e0
      <3>1. h \in Inflight(e)  BY <2>5 DEF Inflight
      <3>2. Cardinality(Inflight(e)') = Cardinality(Inflight(e)) - 1
        BY <2>2, <2>3, <3>1, FS_RemoveElement
      <3>3. handled[e] + Cardinality(Inflight(e)) <= expiries[e] + (IF e \in seen THEN 1 ELSE 0)
        BY DEF Budget
      <3>4. handled[e] \in Nat /\ expiries[e] \in Nat  BY DEF TypeOK
      <3>5. QED  BY <2>3, <2>5, <1>2, <3>2, <3>3, <3>4
    <2>6. QED  BY <2>4, <2>5
  <1>5. Stages'  BY DoneEffect DEF Stages
  <1>6. \A e \in Events : handled[e] > 0 => handled'[e] > 0  BY <1>2 DEF TypeOK
  <1>7. handled'[e0] > 0  BY <1>1, <1>2 DEF TypeOK
  <1>8. \A e \in Events : e # e0 => Inflight(e)' = Inflight(e)  BY DoneEffect DEF Inflight
  <1>9. KeyHasCause'  BY <1>6, <1>7, <1>8 DEF KeyHasCause
  <1>10. ProcessedIsDurable'  BY <1>1, <1>6, <1>7 DEF ProcessedIsDurable
  <1>11. RowsBeforeReply'  BY <1>1, <1>2 DEF RowsBeforeReply
  <1>12. LossNeedsFault'
    <2>1. SUFFICES ASSUME NEW e \in MsgEvents, attempts'[e] > 0,
                          \A g \in Handlers : ev'[g] # e
                   PROVE  handled'[e] > 0 \/ e \in faulted'
      BY DEF LossNeedsFault
    <2>2. CASE e = e0  BY <2>2, <1>7
    <2>3. CASE e # e0
      <3>1. \A g \in Handlers : ev[g] # e  BY <2>1, <2>3, DoneEffect
      <3>2. QED  BY <2>1, <3>1, <1>6 DEF LossNeedsFault
    <2>4. QED  BY <2>2, <2>3
  <1>13. QED  BY <1>3, <1>4, <1>5, <1>9, <1>10, <1>11, <1>12

(* A key that goes away is paid for by the expiry.                         *)
LEMMA ExpireStep ==
  ASSUME IInv, NEW e0 \in Events, Expire(e0)
  PROVE  IInv'
  <1> USE EventsAssumption, BoundsAssumption DEF IInv, Expire, rows
  <1>1. expiries'[e0] = expiries[e0] + 1 /\ (\A e \in Events : e # e0 => expiries'[e] = expiries[e])
    BY DEF TypeOK
  <1>2. TypeOK'
    <2>1. expiries' \in [Events -> 0..MaxExpiries]  BY DEF TypeOK
    <2>2. QED  BY <2>1 DEF TypeOK
  <1>3. \A e \in Events : Inflight(e)' = Inflight(e)  BY DEF Inflight
  <1>4. Budget'
    <2>1. SUFFICES ASSUME NEW e \in Events
                   PROVE  handled'[e] + Cardinality(Inflight(e)') <= expiries'[e] + (IF e \in seen' THEN 1 ELSE 0)
      BY DEF Budget
    <2>2. Cardinality(Inflight(e)) \in Nat /\ handled[e] \in Nat /\ expiries[e] \in Nat
      BY InflightFinite DEF TypeOK
    <2>3. handled[e] + Cardinality(Inflight(e)) <= expiries[e] + (IF e \in seen THEN 1 ELSE 0)
      BY DEF Budget
    <2>4. CASE e = e0  BY <2>2, <2>3, <2>4, <1>1, <1>3
    <2>5. CASE e # e0  BY <2>2, <2>3, <2>5, <1>1, <1>3
    <2>6. QED  BY <2>4, <2>5
  <1>5. Stages' /\ ProcessedIsDurable' /\ RowsBeforeReply' /\ LossNeedsFault'
    BY DEF Stages, ProcessedIsDurable, RowsBeforeReply, LossNeedsFault
  <1>6. KeyHasCause'  BY <1>3 DEF KeyHasCause
  <1>7. QED  BY <1>2, <1>4, <1>5, <1>6

(* A crash takes the handlers and faults what they served.                 *)
LEMMA CrashStep ==
  ASSUME IInv, Crash
  PROVE  IInv'
  <1> USE EventsAssumption, BoundsAssumption DEF IInv, Crash, rows
  <1>1. TypeOK'  BY DEF TypeOK
  <1>2. \A e \in Events : Inflight(e)' = {}  BY DEF Inflight
  <1>3. Budget'
    <2>1. SUFFICES ASSUME NEW e \in Events
                   PROVE  handled'[e] + Cardinality(Inflight(e)') <= expiries'[e] + (IF e \in seen' THEN 1 ELSE 0)
      BY DEF Budget
    <2>2. Inflight(e)' \subseteq Inflight(e)  BY <1>2
    <2>3. QED  BY <2>2, InflightFinite, BudgetKept
  <1>4. Stages' /\ ProcessedIsDurable' /\ RowsBeforeReply'
    BY DEF Stages, ProcessedIsDurable, RowsBeforeReply
  <1>5. \A h \in Handlers : pc[h] # "idle" => ev[h] \in faulted'  OBVIOUS
  <1>6. KeyHasCause'
    <2>1. SUFFICES ASSUME NEW e \in MsgEvents, e \in seen'
                   PROVE  handled'[e] > 0 \/ e \in faulted'
      BY DEF KeyHasCause
    <2>2. Inflight(e) # {} => e \in faulted'  BY <1>5 DEF Inflight
    <2>3. QED  BY <2>1, <2>2 DEF KeyHasCause
  <1>7. LossNeedsFault'
    <2>1. SUFFICES ASSUME NEW e \in MsgEvents, attempts'[e] > 0
                   PROVE  handled'[e] > 0 \/ e \in faulted'
      BY DEF LossNeedsFault
    <2>2. CASE \E h \in Handlers : ev[h] = e  BY <2>2, <1>5 DEF TypeOK
    <2>3. CASE \A h \in Handlers : ev[h] # e  BY <2>1, <2>3 DEF LossNeedsFault
    <2>4. QED  BY <2>2, <2>3
  <1>8. QED  BY <1>1, <1>3, <1>4, <1>6, <1>7

LEMMA NextIInv == IInv /\ [Next]_vars => IInv'
  <1> SUFFICES ASSUME IInv, [Next]_vars  PROVE IInv'
    OBVIOUS
  <1>1. ASSUME NEW h \in Handlers, NEW e \in Events, Deliver(h, e)  PROVE IInv'
    BY <1>1, DeliverStep
  <1>2. ASSUME NEW h \in Handlers, Step(h)  PROVE IInv'
    <2>1. CASE Refuse(h)  BY <2>1, MarkAnswerStep DEF Refuse
    <2>2. CASE MarkNew(h)  BY <2>2, MarkNewStep
    <2>3. CASE MarkSeen(h)  BY <2>3, MarkAnswerStep DEF MarkSeen, Answer200
    <2>4. CASE MarkFails(h)  BY <2>4, FailStep DEF MarkFails, rows
    <2>5. CASE SaveEvent(h)
      <3>1. CASE ev[h] \in MsgEvents  BY <2>5, <3>1, MoveStep DEF SaveEvent
      <3>2. CASE ev[h] \notin MsgEvents  BY <2>5, <3>2, SaveOtherStep DEF SaveEvent
      <3>3. QED  BY <3>1, <3>2
    <2>6. CASE SaveEventFails(h)  BY <2>6, FailStep DEF SaveEventFails, IInv, Stages
    <2>7. CASE SaveMessage(h)  BY <2>7, MoveStep DEF SaveMessage
    <2>8. CASE SaveMessageFails(h)  BY <2>8, FailStep DEF SaveMessageFails, IInv, Stages
    <2>9. CASE HandleMessage(h)  BY <2>9, HandleStep
    <2>10. QED  BY <1>2, <2>1, <2>2, <2>3, <2>4, <2>5, <2>6, <2>7, <2>8, <2>9 DEF Step
  <1>3. ASSUME NEW e \in Events, Expire(e)  PROVE IInv'
    BY <1>3, ExpireStep
  <1>4. CASE Crash
    BY <1>4, CrashStep
  <1>5. CASE UNCHANGED vars
    <2> USE <1>5 DEF vars, rows, IInv
    <2>1. \A e \in Events : Inflight(e)' = Inflight(e)  BY DEF Inflight
    <2>2. TypeOK' /\ Stages' /\ ProcessedIsDurable' /\ RowsBeforeReply' /\ LossNeedsFault'
      BY DEF TypeOK, Stages, ProcessedIsDurable, RowsBeforeReply, LossNeedsFault
    <2>3. Budget'  BY <2>1 DEF Budget
    <2>4. KeyHasCause'  BY <2>1, EventsAssumption DEF KeyHasCause
    <2>5. QED  BY <2>2, <2>3, <2>4
  <1>6. QED  BY <1>1, <1>2, <1>3, <1>4, <1>5 DEF Next

(* The inductive invariant holds of every behaviour of the ingest.         *)
THEOREM IngestInvariant == Spec => []IInv
  BY InitIInv, NextIInv, PTL DEF Spec

(* Types, and that nothing is stored for an event that is not genuine.     *)
THEOREM IngestTypes == Spec => []TypeOK
  BY IngestInvariant, PTL DEF IInv

(* Any number of concurrent or repeated deliveries of an event hands its   *)
(* message to the auto-reply at most once per life of its Redis key.       *)
THEOREM HandledOnce == Spec => []HandledOncePerKey
  <1>1. IInv => HandledOncePerKey
    <2> SUFFICES ASSUME IInv, NEW e \in Events PROVE handled[e] <= 1 + expiries[e]
      BY DEF HandledOncePerKey
    <2>1. Cardinality(Inflight(e)) \in Nat  BY InflightFinite
    <2>2. handled[e] \in Nat /\ expiries[e] \in Nat  BY BoundsAssumption DEF IInv, TypeOK
    <2>3. handled[e] + Cardinality(Inflight(e)) <= expiries[e] + (IF e \in seen THEN 1 ELSE 0)
      BY DEF IInv, Budget
    <2>4. QED  BY <2>1, <2>2, <2>3
  <1>2. QED  BY <1>1, IngestInvariant, PTL

(* A 200 "processed" never comes before the rows are there, so no crash    *)
(* after it loses them.                                                    *)
THEOREM ProcessedDurable == Spec => []ProcessedIsDurable
  BY IngestInvariant, PTL DEF IInv

(* reply_logs can always find the message it answers.                      *)
THEOREM RowsFirst == Spec => []RowsBeforeReply
  BY IngestInvariant, PTL DEF IInv

(* Only a failed call or a crash loses a message: the deduplication, alone *)
(* or with concurrent deliveries and expiries, does not.                   *)
THEOREM OnlyFaultsLose == Spec => []LossNeedsFault
  BY IngestInvariant, PTL DEF IInv

=============================================================================
