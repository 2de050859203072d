------------------------- MODULE P2PDebounceProofs -------------------------
(***************************************************************************)
(* Theorems about P2PDebounce for every set of messages, conversations and *)
(* timers: no message that waits is stranded, none leaves its slot twice,  *)
(* and every step is one the Coalescer allows, or a stutter.               *)
(***************************************************************************)
EXTENDS P2PDebounce, TLAPS

\* The map and the timers agree on keys, and only used timers are live.
TimersWired ==
  /\ \A k \in Keys, t \in Timers : timers[k] = t => timerKey[t] = k /\ Live(t)
  /\ \A t \in Timers : Live(t) => timerKey[t] \in Keys

\* A slot holds a message of its own conversation that was scheduled.
SlotsWired ==
  \A k \in Keys : pending[k] # NoMsg => KeyOf[pending[k]] = k /\ pending[k] \in scheduled

IInv == TypeOK /\ TimersWired /\ SlotsWired /\ PendingHasTimer /\ WaitingNotHanded

LEMMA InitIInv == Init => IInv
  BY KeysAssumption, SentinelAssumption, RestartAssumption
  DEF Init, IInv, TypeOK, TimersWired, SlotsWired, PendingHasTimer, WaitingNotHanded, Live

(* scheduleP2PReply without a key only hands the message on.               *)
LEMMA KeylessStep ==
  ASSUME IInv, NEW m \in Msgs, ScheduleKeyless(m)
  PROVE  IInv'
  <1> USE KeysAssumption, SentinelAssumption, RestartAssumption DEF IInv, ScheduleKeyless
  <1>1. TypeOK'  BY DEF TypeOK
  <1>2. TimersWired' /\ PendingHasTimer'  BY DEF TimersWired, PendingHasTimer, Live
  <1>3. SlotsWired'  BY DEF SlotsWired
  <1>4. WaitingNotHanded'
    <2>1. \A k \in Keys : pending[k] # m  BY DEF SlotsWired, TypeOK
    <2>2. m \notin lost  BY DEF TypeOK
    <2>3. QED  BY <2>1, <2>2 DEF WaitingNotHanded
  <1>5. QED  BY <1>1, <1>2, <1>3, <1>4

(* Reset keeps the key's timer live: it arms it.                           *)
LEMMA ResetStep ==
  ASSUME IInv, NEW m \in Msgs, ScheduleReset(m)
  PROVE  IInv'
  <1> DEFINE k == KeyOf[m]
  <1> DEFINE t == timers[k]
  <1> USE KeysAssumption, SentinelAssumption, RestartAssumption DEF IInv
  <1>1. k \in Keys /\ t \in Timers /\ timerKey[t] = k
    BY DEF ScheduleReset, TypeOK, TimersWired
  <1>2. TypeOK'  BY <1>1 DEF TypeOK, ScheduleReset
  <1>3. armed'[t] = m /\ (\A u \in Timers : u # t => armed'[u] = armed[u])
    BY <1>1 DEF TypeOK, ScheduleReset
  <1>4. \A u \in Timers : Live(u)' <=> (Live(u) \/ u = t)
    BY <1>1, <1>3 DEF Live, ScheduleReset
  <1>5. TimersWired'  BY <1>1, <1>4 DEF TimersWired, ScheduleReset, TypeOK
  <1>6. SlotsWired'  BY <1>1 DEF SlotsWired, ScheduleReset, TypeOK
  <1>7. PendingHasTimer'
    BY <1>1, <1>4 DEF PendingHasTimer, ScheduleReset, TypeOK
  <1>8. WaitingNotHanded'
    BY <1>1 DEF WaitingNotHanded, ScheduleReset, TypeOK
  <1>9. QED  BY <1>2, <1>5, <1>6, <1>7, <1>8

(* A new timer is one no live timer is, and it serves the key it is mapped *)
(* to.                                                                     *)
LEMMA NewStep ==
  ASSUME IInv, NEW m \in Msgs, ScheduleNew(m)
  PROVE  IInv'
  <1> DEFINE k == KeyOf[m]
  <1> USE KeysAssumption, SentinelAssumption, RestartAssumption DEF IInv
  <1>1. k \in Keys  BY DEF ScheduleNew
  <1>2. PICK t \in Timers :
          /\ timerKey[t] = NoKey
          /\ timers' = [timers EXCEPT ![k] = t]
          /\ timerKey' = [timerKey EXCEPT ![t] = k]
          /\ armed' = [armed EXCEPT ![t] = m]
    BY DEF ScheduleNew
  <1>3. TypeOK'  BY <1>1, <1>2 DEF TypeOK, ScheduleNew
  <1>4. /\ armed'[t] = m /\ (\A u \in Timers : u # t => armed'[u] = armed[u])
        /\ timerKey'[t] = k /\ (\A u \in Timers : u # t => timerKey'[u] = timerKey[u])
    BY <1>1, <1>2 DEF TypeOK
  <1>5. ~Live(t)  BY <1>2 DEF TimersWired
  <1>6. \A u \in Timers : Live(u)' <=> (Live(u) \/ u = t)
    BY <1>4 DEF Live, ScheduleNew
  <1>7. TimersWired'
    <2>1. ASSUME NEW j \in Keys, NEW u \in Timers, timers'[j] = u
          PROVE  timerKey'[u] = j /\ Live(u)'
      <3>1. CASE j = k  BY <3>1, <2>1, <1>1, <1>2, <1>4, <1>6 DEF TypeOK
      <3>2. CASE j # k
        <4>1. timers[j] = u  BY <3>2, <2>1, <1>2 DEF TypeOK
        <4>2. timerKey[u] = j /\ Live(u)  BY <4>1 DEF TimersWired
        <4>3. u # t  BY <4>2, <1>5
        <4>4. QED  BY <4>2, <4>3, <1>4, <1>6
      <3>3. QED  BY <3>1, <3>2
    <2>2. ASSUME NEW u \in Timers, Live(u)'
          PROVE  timerKey'[u] \in Keys
      BY <2>2, <1>1, <1>4, <1>6 DEF TimersWired
    <2>3. QED  BY <2>1, <2>2 DEF TimersWired
  <1>8. SlotsWired'  BY <1>1 DEF SlotsWired, ScheduleNew, TypeOK
  <1>9. PendingHasTimer'
    <2>1. SUFFICES ASSUME NEW j \in Keys, pending'[j] # NoMsg
                   PROVE  \E u \in Timers : timerKey'[u] = j /\ Live(u)'
      BY DEF PendingHasTimer
    <2>2. CASE j = k  BY <2>2, <1>4, <1>6
    <2>3. CASE j # k
      <3>1. pending[j] # NoMsg  BY <2>1, <2>3 DEF ScheduleNew, TypeOK
      <3>2. PICK u \in Timers : timerKey[u] = j /\ Live(u)  BY <3>1 DEF PendingHasTimer
      <3>3. u # t  BY <3>2, <1>5
      <3>4. QED  BY <3>2, <3>3, <1>4, <1>6
    <2>4. QED  BY <2>2, <2>3
  <1>10. WaitingNotHanded'
    BY <1>1 DEF WaitingNotHanded, ScheduleNew, TypeOK
  <1>11. QED  BY <1>3, <1>7, <1>8, <1>9, <1>10

(* Expiry turns an armed timer into a waiting goroutine: still live.       *)
LEMMA ExpireStep ==
  ASSUME IInv, NEW t \in Timers, Expire(t)
  PROVE  IInv'
  <1> USE KeysAssumption, SentinelAssumption, RestartAssumption DEF IInv
  <1>1. armed[t] \in Msgs  BY DEF Expire, TypeOK
  <1>2. TypeOK'  BY <1>1 DEF TypeOK, Expire
  <1>3. \A u \in Timers : Live(u)' <=> Live(u)
    <2>1. <<t, armed[t]>> \in flushers' /\ Live(t)  BY DEF Expire, Live
    <2>2. \A u \in Timers : u # t => armed'[u] = armed[u]  BY DEF Expire, TypeOK
    <2>3. \A u \in Timers, n \in Msgs : u # t => (<<u, n>> \in flushers' <=> <<u, n>> \in flushers)
      BY DEF Expire
    <2>4. QED  BY <2>1, <2>2, <2>3, <1>1 DEF Live
  <1>4. TimersWired'  BY <1>3 DEF TimersWired, Expire, TypeOK
  <1>5. SlotsWired'  BY DEF SlotsWired, Expire
  <1>6. PendingHasTimer'  BY <1>3 DEF PendingHasTimer, Expire
  <1>7. WaitingNotHanded'  BY DEF WaitingNotHanded, Expire
  <1>8. QED  BY <1>2, <1>4, <1>5, <1>6, <1>7

(* A flush may delete the map entry of a timer that is not its own, but    *)
(* then it also took the message that timer was armed for.                 *)
LEMMA FlushStep ==
  ASSUME IInv, NEW f \in flushers, Flush(f)
  PROVE  IInv'
  <1> USE KeysAssumption, SentinelAssumption, RestartAssumption DEF IInv
  <1> DEFINE k == timerKey[f[1]]
  <1>1. PICK t \in Timers, m \in Msgs : f = <<t, m>>  BY DEF TypeOK
  <1>2. f[1] = t /\ Live(t) /\ k \in Keys  BY <1>1 DEF Live, TimersWired
  <1>3. pending'[k] = NoMsg /\ (\A j \in Keys : j # k => pending'[j] = pending[j])
    BY <1>2 DEF Flush, TypeOK
  <1>4. timers'[k] = NoTimer /\ (\A j \in Keys : j # k => timers'[j] = timers[j])
    BY <1>2 DEF Flush, TypeOK
  <1>5. \A u \in Timers : Live(u)' => Live(u)  BY DEF Flush, Live
  <1>6. \A u \in Timers : Live(u) /\ timerKey[u] # k => Live(u)'
    BY <1>1, <1>2 DEF Flush, Live
  <1>7. pending[k] # NoMsg => pending[k] \in scheduled  BY <1>2 DEF SlotsWired
  <1>8. TypeOK'  BY <1>2, <1>7 DEF TypeOK, Flush
  <1>9. TimersWired'
    <2>1. ASSUME NEW j \in Keys, NEW u \in Timers, timers'[j] = u
          PROVE  timerKey'[u] = j /\ Live(u)'
      <3>1. j # k /\ timers[j] = u  BY <2>1, <1>4
      <3>2. timerKey[u] = j /\ Live(u)  BY <3>1 DEF TimersWired
      <3>3. QED  BY <3>1, <3>2, <1>6 DEF Flush
    <2>2. \A u \in Timers : Live(u)' => timerKey'[u] \in Keys
      BY <1>5 DEF TimersWired, Flush
    <2>3. QED  BY <2>1, <2>2 DEF TimersWired
  <1>10. SlotsWired'  BY <1>3 DEF SlotsWired, Flush
  <1>11. PendingHasTimer'
    <2>1. SUFFICES ASSUME NEW j \in Keys, pending'[j] # NoMsg
                   PROVE  \E u \in Timers : timerKey'[u] = j /\ Live(u)'
      BY DEF PendingHasTimer
    <2>2. j # k /\ pending[j] # NoMsg  BY <2>1, <1>3
    <2>3. PICK u \in Timers : timerKey[u] = j /\ Live(u)  BY <2>2 DEF PendingHasTimer
    <2>4. QED  BY <2>2, <2>3, <1>6 DEF Flush
  <1>12. WaitingNotHanded'
    <2>1. \A j \in Keys : j # k /\ pending[j] # NoMsg => pending[j] # pending[k]
      BY <1>2 DEF SlotsWired
    <2>2. \A j \in Keys : pending'[j] \notin handed' \cup lost'
      <3>1. SUFFICES ASSUME NEW j \in Keys  PROVE pending'[j] \notin handed' \cup lost'
        OBVIOUS
      <3>2. NoMsg \notin handed' \cup lost'  BY <1>8 DEF TypeOK
      <3>3. CASE pending'[j] = NoMsg  BY <3>2, <3>3
      <3>4. CASE pending'[j] # NoMsg
        <4>1. j # k /\ pending'[j] = pending[j] /\ pending[j] # pending[k]
          BY <3>4, <1>3, <2>1
        <4>2. QED  BY <4>1 DEF Flush, WaitingNotHanded
      <3>5. QED  BY <3>3, <3>4
    <2>3. handed' \cap lost' = {}
      BY <1>2 DEF Flush, WaitingNotHanded
    <2>4. QED  BY <2>2, <2>3 DEF WaitingNotHanded
  <1>13. QED  BY <1>8, <1>9, <1>10, <1>11, <1>12

(* A restart empties everything the invariant speaks of.                   *)
LEMMA RestartStep ==
  ASSUME IInv, Restart
  PROVE  IInv'
  <1> USE KeysAssumption, SentinelAssumption, RestartAssumption DEF IInv
  <1>1. \A k \in Keys : pending'[k] = NoMsg /\ timers'[k] = NoTimer  BY DEF Restart
  <1>2. \A t \in Timers : ~Live(t)'  BY DEF Restart, Live
  <1>3. lost' \subseteq scheduled'  BY DEF Restart, SlotsWired, TypeOK
  <1>4. TypeOK'  BY <1>3 DEF TypeOK, Restart
  <1>5. TimersWired' /\ SlotsWired' /\ PendingHasTimer'
    BY <1>1, <1>2 DEF TimersWired, SlotsWired, PendingHasTimer
  <1>6. NoMsg \notin handed' \cup lost'  BY <1>4 DEF TypeOK
  <1>7. handed' \cap lost' = {}  BY DEF Restart, WaitingNotHanded
  <1>8. QED  BY <1>1, <1>4, <1>5, <1>6, <1>7 DEF WaitingNotHanded

LEMMA NextIInv == IInv /\ [Next]_vars => IInv'
  <1> SUFFICES ASSUME IInv, [Next]_vars  PROVE IInv'
    OBVIOUS
  <1>1. ASSUME NEW m \in Msgs, Schedule(m)  PROVE IInv'
    BY <1>1, KeylessStep, ResetStep, NewStep DEF Schedule
  <1>2. ASSUME NEW t \in Timers, Expire(t)  PROVE IInv'
    BY <1>2, ExpireStep
  <1>3. ASSUME NEW f \in flushers, Flush(f)  PROVE IInv'
    BY <1>3, FlushStep
  <1>4. CASE Restart
    BY <1>4, RestartStep
  <1>5. CASE UNCHANGED vars
    <2> USE <1>5 DEF vars, IInv
    <2>1. TypeOK' /\ SlotsWired' /\ WaitingNotHanded'
      BY DEF TypeOK, SlotsWired, WaitingNotHanded
    <2>2. \A t \in Timers : Live(t)' <=> Live(t)  BY DEF Live
    <2>3. TimersWired' /\ PendingHasTimer'  BY <2>2 DEF TimersWired, PendingHasTimer
    <2>4. QED  BY <2>1, <2>3
  <1>6. QED  BY <1>1, <1>2, <1>3, <1>4, <1>5 DEF Next

(* The inductive invariant holds of every behaviour of the debounce.       *)
THEOREM DebounceInvariant == Spec => []IInv
  BY InitIInv, NextIInv, PTL DEF Spec

(* Types: in particular, every message that is answered or lost had been   *)
(* given to scheduleP2PReply.                                              *)
THEOREM DebounceTypes == Spec => []TypeOK
  BY DebounceInvariant, PTL DEF IInv

(* However timers, the mutex and restarts interleave, a message that waits *)
(* in p2pPending has a timer or a goroutine that will flush it.            *)
THEOREM NoStrandedMessage == Spec => []PendingHasTimer
  BY DebounceInvariant, PTL DEF IInv

(* A message leaves p2pPending once: it is answered or lost, never both.   *)
THEOREM LeavesOnce == Spec => []WaitingNotHanded
  BY DebounceInvariant, PTL DEF IInv

-----------------------------------------------------------------------------
(* Refinement: what the Coalescer's safety part promises. *)

LEMMA StepRefines ==
  ASSUME IInv, [Next]_vars
  PROVE  [Promise!Next]_Promise!vars
  <1> USE DEF Promise!Next, Promise!vars
  <1>1. ASSUME NEW m \in Msgs, ScheduleKeyless(m)  PROVE Promise!Submit(m)
    BY <1>1 DEF ScheduleKeyless, Promise!Submit
  <1>2. ASSUME NEW m \in Msgs, ScheduleReset(m)  PROVE Promise!Submit(m)
    BY <1>2 DEF ScheduleReset, Promise!Submit
  <1>3. ASSUME NEW m \in Msgs, ScheduleNew(m)  PROVE Promise!Submit(m)
    BY <1>3 DEF ScheduleNew, Promise!Submit
  <1>4. ASSUME NEW t \in Timers, Expire(t)  PROVE UNCHANGED Promise!vars
    BY <1>4 DEF Expire
  <1>5. ASSUME NEW f \in flushers, Flush(f)  PROVE [Promise!Next]_Promise!vars
    <2> DEFINE k == timerKey[f[1]]
    <2>1. k \in Keys
      <3>1. PICK t \in Timers, m \in Msgs : f = <<t, m>>  BY DEF IInv, TypeOK
      <3>2. QED  BY <3>1 DEF IInv, TimersWired, Live
    <2>2. CASE pending[k] = NoMsg
      <3>1. pending' = pending  BY <1>5, <2>1, <2>2 DEF Flush, IInv, TypeOK
      <3>2. QED  BY <1>5, <2>2, <3>1 DEF Flush
    <2>3. CASE pending[k] # NoMsg
      <3>1. Promise!HandOver(k)  BY <1>5, <2>3 DEF Flush, Promise!HandOver
      <3>2. QED  BY <2>1, <3>1
    <2>4. QED  BY <2>2, <2>3
  <1>6. CASE Restart
    BY <1>6 DEF Restart, Promise!Forget
  <1>7. CASE UNCHANGED vars
    BY <1>7 DEF vars
  <1>8. QED  BY <1>1, <1>2, <1>3, <1>4, <1>5, <1>6, <1>7 DEF Next, Schedule

(* Every behaviour of the timers and the mutex is one of the Coalescer:    *)
(* whatever expires early or late, only the newest message of a            *)
(* conversation is ever handed over.  (That it is handed over, the part    *)
(* under fairness, is checked by TLC.)                                     *)
THEOREM DebounceRefines == Spec => Promise!Spec
  <1>1. Init => Promise!Init
    BY DEF Init, Promise!Init
  <1>2. IInv /\ [Next]_vars => [Promise!Next]_Promise!vars
    BY StepRefines
  <1>3. QED  BY <1>1, <1>2, DebounceInvariant, PTL DEF Spec, Promise!Spec

=============================================================================
