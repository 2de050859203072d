----------------------------- MODULE AutoReply -----------------------------
(***************************************************************************)
(* The auto-reply of internal/autoreply over the tables messages and       *)
(* reply_logs.  Three writers meet in messages:                            *)
(*   - an event handler saves a message and calls HandleMessage, which     *)
(*     decides and answers at once in a goroutine (service.go);            *)
(*   - the private-chat poller saves the messages it finds in the chats of *)
(*     selected contacts, and gives those that were new to the debounce    *)
(*     (poller.go; the debounce is P2PDebounce);                           *)
(*   - the history sync saves messages and answers nothing.                *)
(* What the assistant sends becomes a message of its chat, which the       *)
(* poller and the platform show to the assistant like any other.           *)
(*                                                                         *)
(* EventIngest shows that HandleMessage runs once per life of the event's  *)
(* Redis key; here each message has at most one event, handled once.  One  *)
(* account is authorized.  Any call of a reply goroutine may fail: the end *)
(* of its 90s context is one way to.                                       *)
(***************************************************************************)
EXTENDS Naturals, FiniteSets

CONSTANTS
  Incoming,     \* messages people may send
  Scenarios,    \* the sets of them that are sent in one behaviour
  Attr,         \* Attr[m]: what shouldReply and the poller look at
  EventMsgs,    \* messages, replies too, the platform sends the bot an event for
  ContactChats, \* private chats of the account with its contacts
  Keys, NoKey, NoMsg, KeyOf, Timers, NoTimer, MaxRestarts  \* see P2PDebounce

\* A reply becomes a message: the account's, or the bot's.
Identities == {"user", "bot"}
Msgs == Incoming \cup (Incoming \X Identities)

Attributes ==
  [chat : {Attr[m].chat : m \in Incoming}, type : {"p2p", "group"},
   sender : {"contact", "owner", "bot"}, mention : {"none", "owner", "bot"}, blank : BOOLEAN]

ASSUME MessagesAssumption ==
  /\ Incoming \cap (Incoming \X Identities) = {}
  /\ Scenarios \subseteq SUBSET Incoming
  /\ Attr \in [Incoming -> Attributes]
ASSUME DebounceAssumption ==
  /\ KeyOf \in [Msgs -> Keys \cup {NoKey}] /\ NoKey \notin Keys
  /\ NoMsg \notin Msgs /\ NoTimer \notin Timers /\ MaxRestarts \in Nat

VARIABLES
  pending, timers, timerKey, armed, flushers, scheduled, handed, lost, restarts,
  sent,        \* the messages people send
  authorized,  \* feishu_auth_sessions holds a session
  selected,    \* chats of the contacts with is_selected
  firstBy,     \* firstBy[m], m with a row in messages: who inserted it
  evpc,        \* evpc[m], m with an event delivered: how far its handler is
  polled,      \* chats the poller's current round covers
  pollMsg,     \* the message the poller handles, or NoMsg
  pollPc,      \* the call it makes for pollMsg
  job,         \* job[path, m]: the reply goroutine of m started on that path,
               \* .at the call it makes next, .as the identity it answers in
  delivered,   \* <<path, m>>: the reply is in the chat
  logs,        \* rows of reply_logs: <<path, m, status>>
  replaced,    \* <<m, n>>: n was scheduled while m waited, and took its place
  excused      \* messages whose private path a failed call or a crash cut short

debounce ==
  <<pending, timers, timerKey, armed, flushers, scheduled, handed, lost, restarts, replaced>>
config == <<sent, authorized, selected>>
poller == <<polled, pollMsg, pollPc>>
jobs == <<job, delivered, logs>>
vars == <<debounce, config, firstBy, evpc, poller, jobs, excused>>

D == INSTANCE P2PDebounce

Paths == {"event", "poll"}
Jobs == Paths \X Msgs
Running == {"check", "ask", "send", "logSent", "logFailed"}
RunningJob(j) == j \in DOMAIN job /\ job[j].at \in Running

\* The attributes of a message the assistant sent follow from its identity.
AttrOf(m) ==
  IF m \in Incoming THEN Attr[m]
  ELSE [Attr[m[1]] EXCEPT !.sender = IF m[2] = "user" THEN "owner" ELSE "bot",
                          !.blank = FALSE, !.mention = "none"]

Stored == DOMAIN firstBy

\* m can be seen in its chat.
Visible(m) ==
  IF m \in Incoming THEN m \in sent
  ELSE \E p \in Paths : <<p, m[1]>> \in delivered /\ job[<<p, m[1]>>].as = m[2]

HasEvent(m) == Visible(m) /\ m \in EventMsgs

\* f with v at x.
Put(f, x, v) == [y \in DOMAIN f \cup {x} |-> IF y = x THEN v ELSE f[y]]

Excuse(m) == excused' = excused \cup ({m} \cap Incoming)
ExcuseJob(j) == IF j[1] = "poll" THEN Excuse(j[2]) ELSE UNCHANGED excused

Init ==
  /\ D!Init
  /\ sent \in Scenarios
  /\ authorized = FALSE
  /\ selected = {}
  /\ firstBy = << >>
  /\ evpc = << >>
  /\ polled = {} /\ pollMsg = NoMsg /\ pollPc = "idle"
  /\ job = << >>
  /\ delivered = {}
  /\ logs = {}
  /\ replaced = {} /\ excused = {}

-----------------------------------------------------------------------------
(* The administrator *)

\* The first login; sessions are never deleted.
Login ==
  /\ ~authorized
  /\ authorized' = TRUE
  /\ UNCHANGED <<debounce, sent, selected, firstBy, evpc, poller, jobs, excused>>

Select ==
  /\ \E s \in SUBSET ContactChats : selected' = s
  /\ UNCHANGED <<debounce, sent, authorized, firstBy, evpc, poller, jobs, excused>>

-----------------------------------------------------------------------------
(* The event path: ProcessEnvelope's tail, HandleMessage, shouldReply *)

\* SaveMessage upserts: an existing row stays, whoever inserted it.
Insert(m, by) == firstBy' = IF m \in Stored THEN firstBy ELSE Put(firstBy, m, by)

EventSave(m) ==
  /\ HasEvent(m)
  /\ m \notin DOMAIN evpc
  /\ Insert(m, "event")
  /\ evpc' = Put(evpc, m, "saved")
  /\ UNCHANGED <<debounce, config, poller, jobs, excused>>

\* shouldReply: the identity that answers m, or "skip".
Decision(m) ==
  LET a == AttrOf(m) IN
  IF a.blank \/ a.sender = "bot" \/ ~authorized THEN "skip"
  ELSE IF a.type = "p2p"
    THEN IF a.sender = "owner" THEN "skip" ELSE IF a.chat \in selected THEN "user" ELSE "bot"
    ELSE IF a.mention = "owner" THEN "user" ELSE IF a.mention = "none" THEN "skip" ELSE "bot"

StartJob(j, label, id) ==
  /\ job' = Put(job, j, [at |-> label, as |-> id])
  /\ UNCHANGED <<delivered, logs>>

HandleMessage(m) ==
  /\ m \in DOMAIN evpc /\ evpc[m] = "saved"
  /\ evpc' = [evpc EXCEPT ![m] = "done"]
  /\ IF Decision(m) = "skip"
       THEN UNCHANGED jobs
       ELSE StartJob(<<"event", m>>, "ask", Decision(m))
  /\ UNCHANGED <<debounce, config, firstBy, poller, excused>>

\* SaveMessage fails, before or after the row is there.
EventSaveFails(m) ==
  /\ HasEvent(m)
  /\ m \notin DOMAIN evpc
  /\ evpc' = Put(evpc, m, "done")
  /\ Insert(m, "event") \/ UNCHANGED firstBy
  /\ UNCHANGED <<debounce, config, poller, jobs, excused>>

\* The session or the contact's chat cannot be read: no reply.
DecisionFails(m) ==
  /\ m \in DOMAIN evpc /\ evpc[m] = "saved"
  /\ evpc' = [evpc EXCEPT ![m] = "done"]
  /\ UNCHANGED <<debounce, config, firstBy, poller, jobs, excused>>

-----------------------------------------------------------------------------
(* The poller: poll, pollContact, HandlePolledUserP2PMessage *)

\* A round is over and the next one starts.
PollStart ==
  /\ pollMsg = NoMsg
  /\ authorized
  /\ polled' = selected
  /\ UNCHANGED <<debounce, config, firstBy, evpc, pollMsg, pollPc, jobs, excused>>

Found(m) ==
  /\ pollMsg = NoMsg
  /\ Visible(m)
  /\ AttrOf(m).type = "p2p"
  /\ AttrOf(m).chat \in polled

\* Mutant: the upsert of SaveMessage, which calls every message new.
PollNewUpsert(m) ==
  /\ Found(m)
  /\ Insert(m, "poll")
  /\ pollMsg' = m
  /\ pollPc' = "check"
  /\ UNCHANGED <<debounce, config, evpc, polled, jobs, excused>>

\* SaveMessageIfNew inserts a row: the message is new to the poller.
PollNew(m) ==
  /\ Found(m)
  /\ m \notin Stored
  /\ Insert(m, "poll")
  /\ pollMsg' = m
  /\ pollPc' = "check"
  /\ UNCHANGED <<debounce, config, evpc, polled, jobs, excused>>

\* SaveMessageIfNew fails, before or after the row is there.
PollSaveFails(m) ==
  /\ Found(m)
  /\ m \notin Stored
  /\ Insert(m, "poll") \/ UNCHANGED firstBy
  /\ Excuse(m)
  /\ UNCHANGED <<debounce, config, evpc, poller, jobs>>

PollIdle == pollMsg' = NoMsg /\ pollPc' = "idle"

\* Mutant: a reply to anything in m's chat counts.
RecordedInChat(m) ==
  \E p \in Paths, n \in Msgs : AttrOf(n).chat = AttrOf(m).chat /\ <<p, n, "sent">> \in logs

Recorded(m) == \E p \in Paths : <<p, m, "sent">> \in logs

\* Mutant: the account's own messages are not left out.
PollCheckAnybody ==
  /\ pollPc = "check"
  /\ IF AttrOf(pollMsg).blank \/ Recorded(pollMsg)
       THEN PollIdle
       ELSE pollPc' = "schedule" /\ UNCHANGED pollMsg
  /\ UNCHANGED <<debounce, config, firstBy, evpc, polled, jobs, excused>>

\* HandlePolledUserP2PMessage up to its call of scheduleP2PReply.
PollCheck ==
  /\ pollPc = "check"
  /\ IF AttrOf(pollMsg).blank \/ AttrOf(pollMsg).sender = "owner" \/ Recorded(pollMsg)
       THEN PollIdle
       ELSE pollPc' = "schedule" /\ UNCHANGED pollMsg
  /\ UNCHANGED <<debounce, config, firstBy, evpc, polled, jobs, excused>>

\* The session or reply_logs cannot be read: the message is dropped.
PollCheckFails ==
  /\ pollPc = "check"
  /\ ~AttrOf(pollMsg).blank
  /\ PollIdle
  /\ Excuse(pollMsg)
  /\ UNCHANGED <<debounce, config, firstBy, evpc, polled, jobs>>

\* The message that waits in m's conversation, whose place m takes.
Waiting(m) == IF KeyOf[m] = NoKey THEN {} ELSE {pending[KeyOf[m]]} \ {NoMsg}

PollSchedule ==
  /\ pollPc = "schedule"
  /\ D!Schedule(pollMsg)
  /\ replaced' = replaced \cup (Waiting(pollMsg) \X {pollMsg})
  /\ PollIdle
  /\ IF KeyOf[pollMsg] = NoKey
       THEN StartJob(<<"poll", pollMsg>>, "ask", "user")
       ELSE UNCHANGED jobs
  /\ UNCHANGED <<config, firstBy, evpc, polled, excused>>

-----------------------------------------------------------------------------
(* The debounce's timers, and what flushP2PReply does after its unlock *)

Expire(t) ==
  /\ D!Expire(t)
  /\ UNCHANGED <<replaced, config, firstBy, evpc, poller, jobs, excused>>

\* Mutant: `ok` is not looked at.
FlushIgnoresOk(f) ==
  /\ D!Flush(f)
  /\ StartJob(<<"poll", pending[timerKey[f[1]]]>>, "check", "user")
  /\ UNCHANGED <<replaced, config, firstBy, evpc, poller, excused>>

Flush(f) ==
  /\ D!Flush(f)
  /\ LET m == pending[timerKey[f[1]]] IN
       IF m = NoMsg THEN UNCHANGED jobs ELSE StartJob(<<"poll", m>>, "check", "user")
  /\ UNCHANGED <<replaced, config, firstBy, evpc, poller, excused>>

-----------------------------------------------------------------------------
(* replyWithQuestion, and the check before it on the debounced path *)

Goto(j, label) == job' = [job EXCEPT ![j].at = label]

FlushCheck(j) ==
  /\ job[j].at = "check"
  /\ Goto(j, IF Recorded(j[2]) THEN "ended" ELSE "ask")
  /\ UNCHANGED <<delivered, logs, excused>>

\* A call that fails without a row in reply_logs: the check, the token, an
\* answer that is empty.
FailSilently(j) ==
  /\ job[j].at \in {"check", "ask"}
  /\ Goto(j, "ended")
  /\ ExcuseJob(j)
  /\ UNCHANGED <<delivered, logs>>

\* The token is loaded and knowledge.Ask answers: reads, and calls outside.
Answered(j) ==
  /\ job[j].at = "ask"
  /\ Goto(j, "send")
  /\ UNCHANGED <<delivered, logs, excused>>

AskFails(j) ==
  /\ job[j].at = "ask"
  /\ Goto(j, "logFailed")
  /\ ExcuseJob(j)
  /\ UNCHANGED <<delivered, logs>>

\* The bot is no member of a contact's chat and cannot write there.
MayWrite(j) == job[j].as = "user" \/ AttrOf(j[2]).chat \notin ContactChats

Send(j) ==
  /\ job[j].at = "send"
  /\ MayWrite(j)
  /\ delivered' = delivered \cup {j}
  /\ Goto(j, "logSent")
  /\ UNCHANGED <<logs, excused>>

\* Mutant: no return after the error, so "sent" is recorded.
SendFailsGoesOn(j) ==
  /\ job[j].at = "send"
  /\ Goto(j, "logSent")
  /\ ExcuseJob(j)
  /\ UNCHANGED <<delivered, logs>>

\* An error, though the platform may have taken the message.
SendFails(j) ==
  /\ job[j].at = "send"
  /\ delivered' \in IF MayWrite(j) THEN {delivered, delivered \cup {j}} ELSE {delivered}
  /\ Goto(j, "logFailed")
  /\ ExcuseJob(j)
  /\ UNCHANGED logs

\* The row of reply_logs; its error is ignored.
Log(j) ==
  /\ job[j].at \in {"logSent", "logFailed"}
  /\ LET row == <<j[1], j[2], IF job[j].at = "logSent" THEN "sent" ELSE "failed">> IN
       logs' \in {logs, logs \cup {row}}
  /\ Goto(j, "ended")
  /\ UNCHANGED <<delivered, excused>>

JobStep(j) ==
  \/ FlushCheck(j) \/ FailSilently(j) \/ Answered(j)
  \/ AskFails(j) \/ Send(j) \/ SendFails(j) \/ Log(j)

-----------------------------------------------------------------------------
(* The history sync and restarts *)

\* syncChat upserts every message of a selected chat.
HistorySave(m) ==
  /\ Visible(m)
  /\ AttrOf(m).chat \in selected
  /\ m \notin Stored
  /\ Insert(m, "history")
  /\ UNCHANGED <<debounce, config, evpc, poller, jobs, excused>>

\* The tables survive; goroutines, the poller's round and the debounce do not.
Restart ==
  /\ D!Restart
  /\ excused' = excused \cup ({pollMsg} \cap Incoming)
                        \cup {m \in Incoming : RunningJob(<<"poll", m>>)}
  /\ evpc' = [m \in DOMAIN evpc |-> "done"]
  /\ polled' = {} /\ PollIdle
  /\ job' = [j \in DOMAIN job |-> [job[j] EXCEPT !.at = "ended"]]
  /\ UNCHANGED <<replaced, config, firstBy, delivered, logs>>

Environment == <<debounce, config, firstBy, evpc, poller>>

Next ==
  \/ Login \/ Select
  \/ \E m \in Msgs : EventSave(m) \/ EventSaveFails(m) \/ HandleMessage(m) \/ DecisionFails(m)
  \/ PollStart
  \/ \E m \in Msgs : PollNew(m) \/ PollSaveFails(m)
  \/ PollCheck \/ PollCheckFails \/ PollSchedule
  \/ \E t \in Timers : Expire(t)
  \/ \E f \in flushers : Flush(f)
  \/ \E j \in DOMAIN job : JobStep(j) /\ UNCHANGED Environment
  \/ \E m \in Msgs : HistorySave(m)
  \/ Restart

Spec == Init /\ [][Next]_vars

-----------------------------------------------------------------------------
(* Properties *)

TypeOK ==
  /\ D!TypeOK
  /\ sent \subseteq Incoming /\ authorized \in BOOLEAN /\ selected \subseteq ContactChats /\ polled \subseteq ContactChats
  /\ Stored \subseteq Msgs /\ \A m \in Stored : firstBy[m] \in {"event", "poll", "history"}
  /\ DOMAIN evpc \subseteq Msgs /\ \A m \in DOMAIN evpc : evpc[m] \in {"saved", "done"}
  /\ pollMsg \in Msgs \cup {NoMsg}
  /\ pollPc \in {"idle", "check", "schedule"} /\ (pollPc = "idle") = (pollMsg = NoMsg)
  /\ DOMAIN job \subseteq Jobs
  /\ \A j \in DOMAIN job : job[j] \in [at : Running \cup {"ended"}, as : Identities]
  /\ delivered \subseteq DOMAIN job
  /\ logs \subseteq Paths \X Msgs \X {"sent", "failed"}
  /\ replaced \subseteq Msgs \X Msgs /\ excused \subseteq Incoming

(* The assistant never answers itself: what it sent, as the account or as  *)
(* the bot, reaches it again through the poller or as an event, and starts *)
(* no reply.  Otherwise one question would be answered without end.        *)
NeverAnswersItself ==
  \A m \in Msgs \ Incoming : m \notin scheduled /\ \A p \in Paths : <<p, m>> \notin DOMAIN job

(* A reply by poll starts once for a message, and only where the poller    *)
(* inserted its row.  The poller fetches overlapping windows, so it finds  *)
(* a message several times, also after a restart, and what the event path  *)
(* or the history sync stored first is not answered again through the      *)
(* debounce.  P2PDebounce takes for granted that messages come to it once. *)
FirstWriterAnswers ==
  /\ \A m \in scheduled : firstBy[m] = "poll"
  /\ pollPc = "schedule" => pollMsg \notin scheduled

(* A row of reply_logs is about a stored message, or the dedupe, which     *)
(* joins the two tables, could not see it; and "sent" means that the reply *)
(* is in the chat.                                                         *)
LogsTruthful ==
  \A row \in logs :
    /\ row[2] \in Stored
    /\ row[3] = "sent" => <<row[1], row[2]>> \in delivered

\* Nothing of the private path works on m any more.
Settled(m) ==
  /\ pollMsg # m
  /\ \A k \in Keys : pending[k] # m
  /\ ~RunningJob(<<"poll", m>>)

(* A contact's message that the poller stored is answered, unless a call   *)
(* on its own path failed, the process restarted, or a message scheduled   *)
(* while it waited took its place (of which the same is said): no          *)
(* interleaving of the paths drops it, the first or a later one of its     *)
(* conversation.                                                           *)
SilenceHasReason ==
  \A m \in Incoming :
    (m \in Stored /\ firstBy[m] = "poll" /\ Attr[m].sender = "contact" /\ ~Attr[m].blank /\ Settled(m)) =>
      \/ \E p \in Paths : <<p, m>> \in delivered
      \/ m \in excused \cup lost
      \/ \E n \in scheduled \ {m} : <<m, n>> \in replaced

=============================================================================
