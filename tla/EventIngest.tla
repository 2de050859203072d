---------------------------- MODULE EventIngest ----------------------------
(***************************************************************************)
(* How an event of the Feishu platform enters the server:                  *)
(* internal/feishu/event.go, ProcessEnvelope, reached from the HTTP        *)
(* callback (Handle) and from the websocket (handleMessageReceive).        *)
(*                                                                         *)
(* Each delivery runs in a goroutine of its own and makes three calls that *)
(* other deliveries interleave with: Redis SETNX on feishu:event:<id>,     *)
(* INSERT into feishu_events and UPSERT into messages.  A call that        *)
(* returns an error may have taken effect all the same.  The platform      *)
(* delivers an event again until it has seen a 200, and may do so while an *)
(* earlier delivery is still being handled.                                *)
(***************************************************************************)
EXTENDS Naturals, FiniteSets

CONSTANTS
  Events,        \* event ids the platform sends
  Genuine,       \* those with an event id and the verification token
  MsgEvents,     \* im.message.receive_v1 events that carry a message id
  Handlers,      \* goroutines that serve deliveries
  NoEvent,
  MaxAttempts,   \* bound on deliveries of one event
  MaxExpiries,   \* bound on how often the 24h key of one event goes away
  MaxCrashes     \* bound on crashes of the server

ASSUME EventsAssumption == Genuine \subseteq Events /\ MsgEvents \subseteq Genuine
                           /\ NoEvent \notin Events
ASSUME HandlersAssumption == IsFiniteSet(Handlers)
ASSUME BoundsAssumption == MaxAttempts \in Nat /\ MaxExpiries \in Nat /\ MaxCrashes \in Nat

VARIABLES
  pc,        \* pc[h]: the call handler h is about to make
  ev,        \* ev[h]: the event it serves
  seen,      \* events whose key exists in Redis
  events,    \* rows of feishu_events
  messages,  \* rows of messages, by the event that brought them
  handled,   \* handled[e]: calls of autoReply.HandleMessage for e's message
  acked,     \* events the platform has seen a 200 for, and which 200 it was
  attempts,  \* attempts[e]: deliveries of e
  expiries,  \* expiries[e]: times the key of e went away
  faulted,   \* events one of whose calls failed or whose handler crashed
  crashes

vars == <<pc, ev, seen, events, messages, handled, acked, attempts, expiries, faulted, crashes>>
rows == <<events, messages>>

Replies == {"processed", "duplicate"}

Init ==
  /\ pc = [h \in Handlers |-> "idle"]
  /\ ev = [h \in Handlers |-> NoEvent]
  /\ seen = {}
  /\ events = {}
  /\ messages = {}
  /\ handled = [e \in Events |-> 0]
  /\ acked = {}
  /\ attempts = [e \in Events |-> 0]
  /\ expiries = [e \in Events |-> 0]
  /\ faulted = {}
  /\ crashes = 0

Acked(e) == \E r \in Replies : <<e, r>> \in acked

Goto(h, label) == pc' = [pc EXCEPT ![h] = label]

\* The handler answers; a 200 may be lost on its way to the platform.
Done(h) == Goto(h, "idle") /\ ev' = [ev EXCEPT ![h] = NoEvent]
Answer200(h, r) == Done(h) /\ acked' \in {acked, acked \cup {<<ev[h], r>>}}
Answer500(h) == Done(h) /\ faulted' = faulted \cup {ev[h]} /\ UNCHANGED acked

-----------------------------------------------------------------------------
(* The platform *)

Deliver(h, e) ==
  /\ pc[h] = "idle"
  /\ ~Acked(e)
  /\ attempts[e] < MaxAttempts
  /\ attempts' = [attempts EXCEPT ![e] = @ + 1]
  /\ pc' = [pc EXCEPT ![h] = "mark"]
  /\ ev' = [ev EXCEPT ![h] = e]
  /\ UNCHANGED <<seen, rows, handled, acked, expiries, faulted, crashes>>

-----------------------------------------------------------------------------
(* ProcessEnvelope *)

\* 400 without an event id, 401 without the token: nothing is touched.
Refuse(h) ==
  /\ pc[h] = "mark"
  /\ ev[h] \notin Genuine
  /\ Done(h)
  /\ UNCHANGED <<seen, rows, handled, acked, attempts, expiries, faulted, crashes>>

\* Mutant: the verification token is not looked at.
MarkNewUnverified(h) ==
  /\ pc[h] = "mark"
  /\ ev[h] \notin seen
  /\ seen' = seen \cup {ev[h]}
  /\ Goto(h, "saveEvent")
  /\ UNCHANGED <<ev, rows, handled, acked, attempts, expiries, faulted, crashes>>

\* Mutant: SET in place of SETNX.
MarkOverwrites(h) ==
  /\ pc[h] = "mark"
  /\ ev[h] \in Genuine
  /\ seen' = seen \cup {ev[h]}
  /\ Goto(h, "saveEvent")
  /\ UNCHANGED <<ev, rows, handled, acked, attempts, expiries, faulted, crashes>>

\* Mutant: `return ok` for `return !ok`.
MarkInverted(h) ==
  /\ pc[h] = "mark"
  /\ ev[h] \in Genuine \ seen
  /\ seen' = seen \cup {ev[h]}
  /\ Answer200(h, "duplicate")
  /\ UNCHANGED <<rows, handled, attempts, expiries, faulted, crashes>>

\* SETNX sets the key.
MarkNew(h) ==
  /\ pc[h] = "mark"
  /\ ev[h] \in Genuine \ seen
  /\ seen' = seen \cup {ev[h]}
  /\ Goto(h, "saveEvent")
  /\ UNCHANGED <<ev, rows, handled, acked, attempts, expiries, faulted, crashes>>

\* The key exists: 200, duplicate.
MarkSeen(h) ==
  /\ pc[h] = "mark"
  /\ ev[h] \in Genuine \cap seen
  /\ Answer200(h, "duplicate")
  /\ UNCHANGED <<seen, rows, handled, attempts, expiries, faulted, crashes>>

\* Redis fails, before or after the key is set: 500.
MarkFails(h) ==
  /\ pc[h] = "mark"
  /\ ev[h] \in Genuine
  /\ seen' \in {seen, seen \cup {ev[h]}}
  /\ Answer500(h)
  /\ UNCHANGED <<rows, handled, attempts, expiries, crashes>>

\* ON CONFLICT (event_id) DO NOTHING, whose row count nobody looks at.
SaveEvent(h) ==
  /\ pc[h] = "saveEvent"
  /\ events' = events \cup {ev[h]}
  /\ IF ev[h] \in MsgEvents
       THEN Goto(h, "saveMessage") /\ UNCHANGED <<ev, acked>>
       ELSE Answer200(h, "processed")
  /\ UNCHANGED <<seen, messages, handled, attempts, expiries, faulted, crashes>>

\* Mutant: the error is logged and processing goes on.
SaveEventFailsGoesOn(h) ==
  /\ pc[h] = "saveEvent"
  /\ ev[h] \in MsgEvents
  /\ Goto(h, "saveMessage")
  /\ faulted' = faulted \cup {ev[h]}
  /\ UNCHANGED <<ev, seen, rows, handled, acked, attempts, expiries, crashes>>

SaveEventFails(h) ==
  /\ pc[h] = "saveEvent"
  /\ events' \in {events, events \cup {ev[h]}}
  /\ Answer500(h)
  /\ UNCHANGED <<seen, messages, handled, attempts, expiries, crashes>>

\* After the image enrichment, which changes no state here.
SaveMessage(h) ==
  /\ pc[h] = "saveMessage"
  /\ messages' = messages \cup {ev[h]}
  /\ Goto(h, "reply")
  /\ UNCHANGED <<ev, seen, events, handled, acked, attempts, expiries, faulted, crashes>>

\* Mutant: the error is logged, and the event answered as processed.
SaveMessageFailsUnnoticed(h) ==
  /\ pc[h] = "saveMessage"
  /\ Answer200(h, "processed")
  /\ faulted' = faulted \cup {ev[h]}
  /\ UNCHANGED <<seen, rows, handled, attempts, expiries, crashes>>

SaveMessageFails(h) ==
  /\ pc[h] = "saveMessage"
  /\ messages' \in {messages, messages \cup {ev[h]}}
  /\ Answer500(h)
  /\ UNCHANGED <<seen, events, handled, attempts, expiries, crashes>>

\* HandleMessage decides and starts a goroutine; then 200.
HandleMessage(h) ==
  /\ pc[h] = "reply"
  /\ handled' = [handled EXCEPT ![ev[h]] = @ + 1]
  /\ Answer200(h, "processed")
  /\ UNCHANGED <<seen, rows, attempts, expiries, faulted, crashes>>

Step(h) ==
  \/ Refuse(h) \/ MarkNew(h) \/ MarkSeen(h) \/ MarkFails(h)
  \/ SaveEvent(h) \/ SaveEventFails(h)
  \/ SaveMessage(h) \/ SaveMessageFails(h)
  \/ HandleMessage(h)

-----------------------------------------------------------------------------
(* What else happens to the server *)

\* The key's 24 hours are over, or Redis lost it.
Expire(e) ==
  /\ e \in seen
  /\ expiries[e] < MaxExpiries
  /\ seen' = seen \ {e}
  /\ expiries' = [expiries EXCEPT ![e] = @ + 1]
  /\ UNCHANGED <<pc, ev, rows, handled, acked, attempts, faulted, crashes>>

\* The process dies with every handler; Redis and PostgreSQL keep their state.
Crash ==
  /\ crashes < MaxCrashes
  /\ crashes' = crashes + 1
  /\ faulted' = faulted \cup {ev[h] : h \in {g \in Handlers : pc[g] # "idle"}}
  /\ pc' = [h \in Handlers |-> "idle"]
  /\ ev' = [h \in Handlers |-> NoEvent]
  /\ UNCHANGED <<seen, rows, handled, acked, attempts, expiries>>

Next ==
  \/ \E h \in Handlers, e \in Events : Deliver(h, e)
  \/ \E h \in Handlers : Step(h)
  \/ \E e \in Events : Expire(e)
  \/ Crash

Spec == Init /\ [][Next]_vars

-----------------------------------------------------------------------------
(* Properties *)

TypeOK ==
  /\ pc \in [Handlers -> {"idle", "mark", "saveEvent", "saveMessage", "reply"}]
  /\ ev \in [Handlers -> Events \cup {NoEvent}]
  /\ \A h \in Handlers : (pc[h] = "idle") = (ev[h] = NoEvent)
  /\ seen \subseteq Genuine /\ events \subseteq Genuine /\ messages \subseteq MsgEvents
  /\ handled \in [Events -> Nat]
  /\ acked \subseteq Genuine \X Replies
  /\ attempts \in [Events -> 0..MaxAttempts]
  /\ expiries \in [Events -> 0..MaxExpiries]
  /\ faulted \subseteq Events
  /\ crashes \in 0..MaxCrashes

(* A message is handed to the auto-reply at most once for each life of its *)
(* Redis key, however many deliveries of its event run side by side and    *)
(* whatever fails or crashes in between.                                   *)
HandledOncePerKey == \A e \in Events : handled[e] <= 1 + expiries[e]

(* A 200 that claims the event was processed is durable: the event is in   *)
(* feishu_events and, if it carries a message, the message is in messages  *)
(* and was handed to the auto-reply.                                       *)
ProcessedIsDurable ==
  \A e \in Events : <<e, "processed">> \in acked =>
    /\ e \in events
    /\ e \in MsgEvents => e \in messages /\ handled[e] > 0

(* The auto-reply never works on a message the database does not hold      *)
(* (reply_logs looks the message up by its id), nor the database hold a    *)
(* message whose event it does not.                                        *)
RowsBeforeReply ==
  /\ \A e \in Events : handled[e] > 0 => e \in messages
  /\ messages \subseteq events

(* A message is lost to the auto-reply only by a fault: once no delivery   *)
(* of a message event is under way, the event has been handed on, or one   *)
(* of its calls failed or its handler crashed.  The deduplication drops    *)
(* nothing by itself.                                                      *)
LossNeedsFault ==
  \A e \in MsgEvents :
    (attempts[e] > 0 /\ \A h \in Handlers : ev[h] # e) => (handled[e] > 0 \/ e \in faulted)

(* docs/mvp-roadmap.md: "A received message event is stored in             *)
(* feishu_events."  Here: once the platform has seen a 200 for an event,   *)
(* and will not send it again, and no delivery of it is under way any      *)
(* more, the event is stored.                                              *)
AckedIsStored ==
  \A e \in Events : (Acked(e) /\ \A h \in Handlers : ev[h] # e) => e \in events

=============================================================================
