---------------------------- MODULE P2PDebounce ----------------------------
(***************************************************************************)
(* The debounce of private-chat replies, internal/autoreply/service.go:    *)
(* scheduleP2PReply and flushP2PReply, over the maps p2pPending and        *)
(* p2pTimers that the mutex p2pMu guards.                                  *)
(*                                                                         *)
(* Both critical sections call nothing that blocks, so each is one step.   *)
(* What is NOT atomic is a timer: when it expires the runtime starts a     *)
(* goroutine that only then queues for p2pMu, and a scheduleP2PReply that  *)
(* wins the lock in between calls Reset on a timer whose goroutine is      *)
(* already under way.                                                      *)
(*                                                                         *)
(* Time is left out: an armed timer may expire at any moment.  A window is *)
(* named by the message that armed it.                                     *)
(***************************************************************************)
EXTENDS Naturals, FiniteSets

CONSTANTS
  Msgs,        \* messages the poller found new; each is scheduled at most once
  Keys,        \* conversations: "chatID|senderID"
  NoKey,       \* p2pReplyKey's "" (the chat or the sender is unknown)
  NoMsg,
  KeyOf,       \* KeyOf[m]: p2pReplyKey(m)
  Timers,      \* *time.Timer values time.AfterFunc can still return
  NoTimer,
  MaxRestarts  \* bound on process restarts

ASSUME KeysAssumption == KeyOf \in [Msgs -> Keys \cup {NoKey}] /\ NoKey \notin Keys
ASSUME SentinelAssumption == NoMsg \notin Msgs /\ NoTimer \notin Timers
ASSUME RestartAssumption == MaxRestarts \in Nat

VARIABLES
  pending,     \* p2pPending: pending[k] is the message waiting, or NoMsg
  timers,      \* p2pTimers: timers[k] is the timer of k, or NoTimer
  timerKey,    \* the key a timer's callback closes over; NoKey before it exists
  armed,       \* armed[t]: the message whose scheduling armed t, or NoMsg
  flushers,    \* <<t, m>>: t expired for m, its goroutine waits for p2pMu
  scheduled,   \* messages scheduleP2PReply has been called with
  handed,      \* messages handed to the reply pipeline
  lost,        \* messages a restart took from the slot they waited in
  restarts

vars == <<pending, timers, timerKey, armed, flushers, scheduled, handed, lost, restarts>>

Init ==
  /\ pending = [k \in Keys |-> NoMsg]
  /\ timers = [k \in Keys |-> NoTimer]
  /\ timerKey = [t \in Timers |-> NoKey]
  /\ armed = [t \in Timers |-> NoMsg]
  /\ flushers = {}
  /\ scheduled = {}
  /\ handed = {}
  /\ lost = {}
  /\ restarts = 0

-----------------------------------------------------------------------------
(* scheduleP2PReply *)

\* Without a key there is nothing to merge with: a goroutine answers at once.
ScheduleKeyless(m) ==
  /\ m \notin scheduled
  /\ KeyOf[m] = NoKey
  /\ scheduled' = scheduled \cup {m}
  /\ handed' = handed \cup {m}
  /\ UNCHANGED <<pending, timers, timerKey, armed, flushers, lost, restarts>>

\* Mutant: the first message of a window stays, later ones are dropped.
ScheduleResetKeepsOldest(m) ==
  LET k == KeyOf[m] IN
  /\ m \notin scheduled
  /\ k # NoKey
  /\ timers[k] # NoTimer
  /\ armed' = [armed EXCEPT ![timers[k]] = m]
  /\ scheduled' = scheduled \cup {m}
  /\ UNCHANGED <<pending, timers, timerKey, flushers, handed, lost, restarts>>

\* The key has a timer: Reset arms it again, whether it is running or spent.
ScheduleReset(m) ==
  LET k == KeyOf[m] IN
  /\ m \notin scheduled
  /\ k # NoKey
  /\ timers[k] # NoTimer
  /\ pending' = [pending EXCEPT ![k] = m]
  /\ armed' = [armed EXCEPT ![timers[k]] = m]
  /\ scheduled' = scheduled \cup {m}
  /\ UNCHANGED <<timers, timerKey, flushers, handed, lost, restarts>>

\* The key has none: time.AfterFunc returns a timer that was never used.
ScheduleNew(m) ==
  LET k == KeyOf[m] IN
  /\ m \notin scheduled
  /\ k # NoKey
  /\ timers[k] = NoTimer
  /\ \E t \in Timers :
       /\ timerKey[t] = NoKey
       /\ timers' = [timers EXCEPT ![k] = t]
       /\ timerKey' = [timerKey EXCEPT ![t] = k]
       /\ armed' = [armed EXCEPT ![t] = m]
  /\ pending' = [pending EXCEPT ![k] = m]
  /\ scheduled' = scheduled \cup {m}
  /\ UNCHANGED <<flushers, handed, lost, restarts>>

Schedule(m) == ScheduleKeyless(m) \/ ScheduleReset(m) \/ ScheduleNew(m)

-----------------------------------------------------------------------------
(* The runtime and flushP2PReply *)

\* t's duration elapses: the runtime starts a goroutine for its callback.
Expire(t) ==
  /\ armed[t] # NoMsg
  /\ flushers' = flushers \cup {<<t, armed[t]>>}
  /\ armed' = [armed EXCEPT ![t] = NoMsg]
  /\ UNCHANGED <<pending, timers, timerKey, scheduled, handed, lost, restarts>>

\* Mutant: `ok` is ignored, and what the map returned is handed on.
FlushIgnoresOk(f) ==
  LET k == timerKey[f[1]] IN
  /\ f \in flushers
  /\ flushers' = flushers \ {f}
  /\ handed' = handed \cup {pending[k]}
  /\ pending' = [pending EXCEPT ![k] = NoMsg]
  /\ timers' = [timers EXCEPT ![k] = NoTimer]
  /\ UNCHANGED <<timerKey, armed, scheduled, lost, restarts>>

\* Mutant: delete(s.p2pPending, key) is missing.
FlushKeepsPending(f) ==
  LET k == timerKey[f[1]] IN
  /\ f \in flushers
  /\ flushers' = flushers \ {f}
  /\ handed' = IF pending[k] = NoMsg THEN handed ELSE handed \cup {pending[k]}
  /\ timers' = [timers EXCEPT ![k] = NoTimer]
  /\ UNCHANGED <<pending, timerKey, armed, scheduled, lost, restarts>>

\* Mutant: the key's timer is stopped, and a goroutine whose window was
\* extended in the meantime leaves the pending message to that timer.
FlushStopsAndSkipsStale(f) ==
  LET k == timerKey[f[1]] IN
  /\ f \in flushers
  /\ flushers' = flushers \ {f}
  /\ IF pending[k] = f[2]
       THEN handed' = handed \cup {f[2]} /\ pending' = [pending EXCEPT ![k] = NoMsg]
       ELSE UNCHANGED <<handed, pending>>
  /\ armed' = [t \in Timers |-> IF t = timers[k] THEN NoMsg ELSE armed[t]]
  /\ timers' = [timers EXCEPT ![k] = NoTimer]
  /\ UNCHANGED <<timerKey, scheduled, lost, restarts>>

\* The critical section of flushP2PReply: both entries of the key are deleted,
\* whichever timer the map holds by now; a pending message is handed on.
Flush(f) ==
  LET k == timerKey[f[1]] IN
  /\ f \in flushers
  /\ flushers' = flushers \ {f}
  /\ handed' = IF pending[k] = NoMsg THEN handed ELSE handed \cup {pending[k]}
  /\ pending' = [pending EXCEPT ![k] = NoMsg]
  /\ timers' = [timers EXCEPT ![k] = NoTimer]
  /\ UNCHANGED <<timerKey, armed, scheduled, lost, restarts>>

\* The process dies: maps, timers and goroutines are gone.  timerKey keeps the
\* used timers used, so that a timer of the new process is a new one.
Restart ==
  /\ restarts < MaxRestarts
  /\ restarts' = restarts + 1
  /\ lost' = lost \cup {pending[k] : k \in {j \in Keys : pending[j] # NoMsg}}
  /\ pending' = [k \in Keys |-> NoMsg]
  /\ timers' = [k \in Keys |-> NoTimer]
  /\ armed' = [t \in Timers |-> NoMsg]
  /\ flushers' = {}
  /\ UNCHANGED <<timerKey, scheduled, handed>>

Next ==
  \/ \E m \in Msgs : Schedule(m)
  \/ \E t \in Timers : Expire(t)
  \/ \E f \in flushers : Flush(f)
  \/ Restart

Spec == Init /\ [][Next]_vars

\* An armed timer expires, and a goroutine that waits for p2pMu gets it: the
\* runtime's timers and sync.Mutex starve nobody.  Nothing forces a message to
\* come or the process to die.
Fairness ==
  /\ \A t \in Timers : WF_vars(Expire(t))
  /\ \A t \in Timers : \A m \in Msgs : WF_vars(Flush(<<t, m>>))

FairSpec == Spec /\ Fairness

-----------------------------------------------------------------------------
(* Properties *)

TypeOK ==
  /\ pending \in [Keys -> Msgs \cup {NoMsg}]
  /\ timers \in [Keys -> Timers \cup {NoTimer}]
  /\ timerKey \in [Timers -> Keys \cup {NoKey}]
  /\ armed \in [Timers -> Msgs \cup {NoMsg}]
  /\ flushers \subseteq Timers \X Msgs
  /\ scheduled \subseteq Msgs
  /\ handed \subseteq scheduled
  /\ lost \subseteq scheduled
  /\ restarts \in 0..MaxRestarts

\* t will still flush its key: it is armed, or its goroutine is under way.
Live(t) == armed[t] # NoMsg \/ \E m \in Msgs : <<t, m>> \in flushers

(* A message that waits is never stranded: its conversation has a timer    *)
(* that is armed, or one whose goroutine has still to take the lock.       *)
(* flushP2PReply deletes the timer of a key without looking at which timer *)
(* it is, so this is what the two critical sections must keep true.        *)
PendingHasTimer ==
  \A k \in Keys : pending[k] # NoMsg => \E t \in Timers : timerKey[t] = k /\ Live(t)

(* The reply pipeline gets no message twice, and none that the restart of  *)
(* the process dropped: a message leaves its slot once.  A waiting message *)
(* has not been handed over.                                               *)
WaitingNotHanded ==
  /\ \A k \in Keys : pending[k] \notin handed \cup lost
  /\ handed \cap lost = {}

(* The abstract promise: one slot per conversation, newest message wins, a *)
(* filled slot is handed over.                                             *)
Promise == INSTANCE Coalescer WITH slot <- pending, submitted <- scheduled

CoalescerSpec == Promise!FairSpec

=============================================================================
