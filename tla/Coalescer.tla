----------------------------- MODULE Coalescer -----------------------------
(***************************************************************************)
(* What the private-chat debounce of internal/autoreply promises, without  *)
(* timers, goroutines or locks: one slot per conversation (a chat and a    *)
(* sender) that holds the conversation's newest unanswered message.  A     *)
(* newer message replaces it, a filled slot is handed over in the end, and *)
(* a restart of the process empties every slot.                            *)
(***************************************************************************)
CONSTANTS Msgs, Keys, NoKey, NoMsg, KeyOf

VARIABLES
  slot,       \* slot[k]: the newest message of conversation k, or NoMsg
  submitted,  \* messages given to the debounce so far
  handed      \* messages handed to the reply pipeline so far

vars == <<slot, submitted, handed>>

Init ==
  /\ slot = [k \in Keys |-> NoMsg]
  /\ submitted = {}
  /\ handed = {}

Submit(m) ==
  /\ m \notin submitted
  /\ submitted' = submitted \cup {m}
  /\ IF KeyOf[m] = NoKey
       THEN handed' = handed \cup {m} /\ UNCHANGED slot
       ELSE slot' = [slot EXCEPT ![KeyOf[m]] = m] /\ UNCHANGED handed

HandOver(k) ==
  /\ slot[k] # NoMsg
  /\ handed' = handed \cup {slot[k]}
  /\ slot' = [slot EXCEPT ![k] = NoMsg]
  /\ UNCHANGED submitted

\* The slots are memory of the process: a restart forgets them.
Forget ==
  /\ slot' = [k \in Keys |-> NoMsg]
  /\ UNCHANGED <<submitted, handed>>

Next ==
  \/ \E m \in Msgs : Submit(m)
  \/ \E k \in Keys : HandOver(k)
  \/ Forget

Spec == Init /\ [][Next]_vars

FairSpec == Spec /\ \A k \in Keys : WF_vars(HandOver(k))

=============================================================================
