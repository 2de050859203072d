-------------------------- MODULE AutoReplyProofs --------------------------
(***************************************************************************)
(* Theorems about AutoReply for every set of messages, conversations and   *)
(* timers.  What P2PDebounceProofs shows of a step of the debounce is used *)
(* through its instance DP: the debounce's invariant is part of this one.  *)
(***************************************************************************)
EXTENDS AutoReply, TLAPS

DP == INSTANCE P2PDebounceProofs

-----------------------------------------------------------------------------
(* The inductive invariant *)

\* Only a row the poller inserted is scheduled.
Rows ==
  /\ \A m \in scheduled : m \in Incoming /\ m \in Stored /\ firstBy[m] = "poll"
  /\ \A m \in DOMAIN evpc : evpc[m] = "saved" => m \in Stored

\* The message in the poller's hands was new to it, and is no reply of the bot.
Polling ==
  pollMsg # NoMsg =>
    /\ pollMsg \in Stored /\ firstBy[pollMsg] = "poll" /\ pollMsg \notin scheduled
    /\ pollMsg \notin Incoming => AttrOf(pollMsg).sender = "owner"
    /\ pollPc = "schedule" => pollMsg \in Incoming

\* What the reply goroutine j was started for, and what it has done so far.
JobOK(j) ==
  /\ j[2] \in Incoming /\ j[2] \in Stored
  /\ j[1] = "poll" => job[j].as = "user" /\ j[2] \in scheduled
  /\ j[1] = "event" => j[2] \in DOMAIN evpc /\ evpc[j[2]] = "done"
  /\ job[j].at = "logSent" => j \in delivered
  /\ job[j].at = "logFailed" /\ j[1] = "poll" => j[2] \in excused
  /\ j \in delivered => MayWrite(j)

JobsOK == \A j \in DOMAIN job : JobOK(j)

IInv ==
  /\ DP!IInv
  /\ TypeOK
  /\ Rows
  /\ Polling
  /\ JobsOK
  /\ LogsTruthful
  /\ SilenceHasReason

-----------------------------------------------------------------------------
(* The parts of the type invariant *)

ConfigTypes ==
  /\ sent \subseteq Incoming /\ authorized \in BOOLEAN
  /\ selected \subseteq ContactChats /\ polled \subseteq ContactChats

RowTypes ==
  /\ Stored \subseteq Msgs /\ \A m \in Stored : firstBy[m] \in {"event", "poll", "history"}
  /\ DOMAIN evpc \subseteq Msgs /\ \A m \in DOMAIN evpc : evpc[m] \in {"saved", "done"}

PollTypes ==
  /\ pollMsg \in Msgs \cup {NoMsg} /\ pollPc \in {"idle", "check", "schedule"}
  /\ (pollPc = "idle") <=> (pollMsg = NoMsg)

JobRows == [at : Running \cup {"ended"}, as : Identities]

JobTypes ==
  /\ DOMAIN job \subseteq Jobs /\ \A j \in DOMAIN job : job[j] \in JobRows
  /\ delivered \subseteq DOMAIN job
  /\ logs \subseteq Paths \X Msgs \X {"sent", "failed"}
  /\ replaced \subseteq Msgs \X Msgs /\ excused \subseteq Incoming

LEMMA TypeParts ==
  TypeOK <=> D!TypeOK /\ ConfigTypes /\ RowTypes /\ PollTypes /\ JobTypes
  BY DEF TypeOK, ConfigTypes, RowTypes, PollTypes, JobTypes, JobRows

LEMMA TypeOfParts ==
  ASSUME DP!IInv', ConfigTypes', RowTypes', PollTypes', JobTypes'
  PROVE  TypeOK'
  <1>1. D!TypeOK'  BY DEF DP!IInv, DP!TypeOK, D!TypeOK
  <1>2. QED
    BY <1>1 DEF TypeOK, ConfigTypes, RowTypes, PollTypes, JobTypes, JobRows

\* What is known before a step.
LEMMA Facts ==
  ASSUME IInv
  PROVE  /\ DP!IInv /\ ConfigTypes /\ RowTypes /\ PollTypes /\ JobTypes
         /\ Rows /\ Polling /\ JobsOK /\ LogsTruthful /\ SilenceHasReason
         /\ scheduled \subseteq Incoming /\ Incoming \subseteq Msgs
  BY TypeParts DEF IInv, Rows, Msgs

LEMMA DebounceStutters ==
  ASSUME IInv, UNCHANGED debounce
  PROVE  DP!IInv'
  <1>1. UNCHANGED DP!vars  BY DEF debounce, DP!vars
  <1>2. QED  BY <1>1, Facts, DP!NextIInv, DebounceAssumption

-----------------------------------------------------------------------------
(* What a step leaves alone *)

\* A row stays, whoever inserted it.
RowsStay == Stored \subseteq Stored' /\ \A m \in Stored : firstBy'[m] = firstBy[m]

\* An event handled stays handled.
EventsStay ==
  \A m \in DOMAIN evpc : m \in DOMAIN evpc' /\ (evpc[m] = "done" => evpc'[m] = "done")

LEMMA PutEffect ==
  ASSUME NEW f, NEW x, NEW v
  PROVE  /\ DOMAIN Put(f, x, v) = DOMAIN f \cup {x}
         /\ Put(f, x, v)[x] = v
         /\ \A y \in DOMAIN f : y # x => Put(f, x, v)[y] = f[y]
  BY DEF Put

LEMMA InsertEffect ==
  ASSUME IInv, NEW m \in Msgs, NEW by \in {"event", "poll", "history"}, Insert(m, by)
  PROVE  /\ RowsStay /\ Stored' = Stored \cup {m} /\ Stored' \subseteq Msgs
         /\ \A n \in Stored' : firstBy'[n] \in {"event", "poll", "history"}
         /\ m \notin Stored => firstBy'[m] = by
  <1>1. RowTypes  BY Facts
  <1>2. CASE m \in Stored
    <2>1. firstBy' = firstBy  BY <1>2 DEF Insert
    <2>2. Stored' = Stored  BY <2>1 DEF Stored
    <2>3. QED  BY <1>1, <1>2, <2>1, <2>2 DEF RowTypes, RowsStay
  <1>3. CASE m \notin Stored
    <2>1. firstBy' = Put(firstBy, m, by)  BY <1>3 DEF Insert
    <2>2. /\ Stored' = Stored \cup {m} /\ firstBy'[m] = by
          /\ \A n \in Stored : firstBy'[n] = firstBy[n]
      BY <1>3, <2>1 DEF Put, Stored
    <2>3. QED  BY <1>1, <2>2 DEF RowTypes, RowsStay
  <1>4. QED  BY <1>2, <1>3

LEMMA RowsKept ==
  ASSUME IInv, RowsStay, UNCHANGED scheduled,
         \A m \in DOMAIN evpc' : evpc'[m] = "saved" => m \in Stored'
  PROVE  Rows'
  BY Facts DEF Rows, RowsStay

LEMMA PollingKept ==
  ASSUME IInv, RowsStay, UNCHANGED <<scheduled, pollMsg, pollPc>>
  PROVE  Polling'
  BY Facts DEF Polling, RowsStay, AttrOf

LEMMA JobsKept ==
  ASSUME IInv, RowsStay, EventsStay, UNCHANGED <<job, delivered>>,
         scheduled \subseteq scheduled', excused \subseteq excused'
  PROVE  JobsOK'
  <1>1. SUFFICES ASSUME NEW j \in DOMAIN job PROVE JobOK(j)'
    BY DEF JobsOK
  <1>2. JobOK(j)  BY Facts DEF JobsOK
  <1>3. MayWrite(j)' = MayWrite(j)  BY DEF MayWrite, AttrOf
  <1>4. QED  BY <1>2, <1>3 DEF JobOK, RowsStay, EventsStay

LEMMA LogsKept ==
  ASSUME IInv, RowsStay, UNCHANGED logs, delivered \subseteq delivered'
  PROVE  LogsTruthful'
  BY Facts DEF LogsTruthful, RowsStay

\* A message the poller owes an answer, and what may have been done about it.
Owed(m) ==
  m \in Stored /\ firstBy[m] = "poll" /\ Attr[m].sender = "contact" /\ ~Attr[m].blank
Reason(m) ==
  \/ \E p \in Paths : <<p, m>> \in delivered
  \/ m \in excused \cup lost
  \/ \E n \in scheduled \ {m} : <<m, n>> \in replaced

LEMMA SilenceParts ==
  SilenceHasReason <=> \A m \in Incoming : Owed(m) => ~Settled(m) \/ Reason(m)
  BY DEF SilenceHasReason, Owed, Reason

(* A reason stays a reason.                                                *)
LEMMA SilenceKept ==
  ASSUME IInv, RowsStay, delivered \subseteq delivered', excused \subseteq excused',
         lost \subseteq lost', scheduled \subseteq scheduled', replaced \subseteq replaced',
         \A m \in Incoming : Owed(m)' => m \in Stored \/ ~Settled(m)' \/ Reason(m)',
         \A m \in Incoming : Owed(m) /\ ~Settled(m) => ~Settled(m)' \/ Reason(m)'
  PROVE  SilenceHasReason'
  <1>1. \A m \in Incoming : Owed(m) => ~Settled(m) \/ Reason(m)
    BY Facts, SilenceParts
  <1>2. SUFFICES ASSUME NEW m \in Incoming, Owed(m)'
                 PROVE  ~Settled(m)' \/ Reason(m)'
    BY DEF SilenceHasReason, Owed, Reason
  <1>3. CASE m \in Stored
    <2>1. Owed(m)  BY <1>2, <1>3 DEF Owed, RowsStay
    <2>2. CASE Reason(m)  BY <2>2 DEF Reason
    <2>3. QED  BY <1>1, <2>1, <2>2
  <1>4. QED  BY <1>2, <1>3

\* The private path works on the same messages as before.
SameWork == UNCHANGED <<pollMsg, pending, job>>

LEMMA SilenceUntouched ==
  ASSUME IInv, RowsStay, SameWork, delivered \subseteq delivered', excused \subseteq excused',
         UNCHANGED <<lost, scheduled, replaced>>,
         \A m \in Incoming : Owed(m)' => m \in Stored \/ ~Settled(m)' \/ Reason(m)'
  PROVE  SilenceHasReason'
  <1>1. \A m \in Incoming : Settled(m)' = Settled(m)
    BY DEF Settled, SameWork, RunningJob
  <1>2. QED  BY <1>1, SilenceKept

-----------------------------------------------------------------------------
(* The administrator, the event path and the history sync *)

LEMMA ConfigStep ==
  ASSUME IInv, UNCHANGED <<debounce, sent, firstBy, evpc, poller, jobs, excused>>,
         authorized' \in BOOLEAN, selected' \subseteq ContactChats
  PROVE  IInv'
  <1>1. DP!IInv'  BY DebounceStutters
  <1>2. RowsStay /\ EventsStay /\ SameWork
    BY DEF RowsStay, EventsStay, SameWork, poller, jobs, debounce, Stored
  <1>3. UNCHANGED <<scheduled, lost, replaced, pollMsg, pollPc, polled, job, delivered, logs>>
    BY DEF poller, jobs, debounce
  <1>4. ConfigTypes' /\ RowTypes' /\ PollTypes' /\ JobTypes'
    BY <1>3, Facts DEF ConfigTypes, RowTypes, PollTypes, JobTypes, Stored
  <1>5. Rows' /\ Polling' /\ JobsOK' /\ LogsTruthful'
    BY <1>2, <1>3, Facts, RowsKept, PollingKept, JobsKept, LogsKept DEF Rows, Stored
  <1>6. SilenceHasReason'
    BY <1>2, <1>3, SilenceUntouched DEF Owed, Stored
  <1>7. QED  BY <1>1, <1>4, <1>5, <1>6, TypeOfParts DEF IInv

LEMMA LoginStep == ASSUME IInv, Login PROVE IInv'
  BY Facts, ConfigStep DEF Login, ConfigTypes

LEMMA SelectStep == ASSUME IInv, Select PROVE IInv'
  BY Facts, ConfigStep DEF Select, ConfigTypes

(* A step of the event path or of the history sync that starts no reply: a *)
(* row it inserts is not the poller's.                                     *)
LEMMA RowStep ==
  ASSUME IInv, NEW m \in Msgs, NEW by \in {"event", "history"},
         Insert(m, by) \/ UNCHANGED firstBy, EventsStay,
         DOMAIN evpc' \subseteq Msgs, \A n \in DOMAIN evpc' : evpc'[n] \in {"saved", "done"},
         \A n \in DOMAIN evpc' : evpc'[n] = "saved" => n \in Stored',
         UNCHANGED <<debounce, config, poller, jobs, excused>>
  PROVE  IInv'
  <1>1. DP!IInv'  BY DebounceStutters
  <1>2. /\ RowsStay /\ Stored' \subseteq Msgs
        /\ \A n \in Stored' : firstBy'[n] \in {"event", "poll", "history"}
        /\ \A n \in Stored' : firstBy'[n] = "poll" => n \in Stored
    <2>1. CASE Insert(m, by)  BY <2>1, InsertEffect
    <2>2. CASE UNCHANGED firstBy  BY <2>2, Facts DEF RowsStay, RowTypes, Stored
    <2>3. QED  BY <2>1, <2>2
  <1>3. UNCHANGED <<scheduled, lost, replaced, pending, pollMsg, pollPc, polled, job, delivered,
                    logs, sent, authorized, selected>>
    BY DEF poller, jobs, debounce, config
  <1>4. ConfigTypes' /\ RowTypes' /\ PollTypes' /\ JobTypes'
    BY <1>2, <1>3, Facts DEF ConfigTypes, RowTypes, PollTypes, JobTypes
  <1>5. Rows' /\ Polling' /\ JobsOK' /\ LogsTruthful'
    BY <1>2, <1>3, RowsKept, PollingKept, JobsKept, LogsKept
  <1>6. SilenceHasReason'
    BY <1>2, <1>3, SilenceUntouched DEF Owed, SameWork
  <1>7. QED  BY <1>1, <1>4, <1>5, <1>6, TypeOfParts DEF IInv

LEMMA EventSaveStep == ASSUME IInv, NEW m \in Msgs, EventSave(m) PROVE IInv'
  <1>1. Insert(m, "event") /\ m \notin DOMAIN evpc /\ evpc' = Put(evpc, m, "saved")
    BY DEF EventSave
  <1>2. /\ DOMAIN evpc' = DOMAIN evpc \cup {m} /\ evpc'[m] = "saved"
        /\ \A n \in DOMAIN evpc : evpc'[n] = evpc[n]
    BY <1>1 DEF Put
  <1>3. Stored' = Stored \cup {m}  BY <1>1, InsertEffect
  <1>4. EventsStay  BY <1>2 DEF EventsStay
  <1>5. /\ DOMAIN evpc' \subseteq Msgs /\ \A n \in DOMAIN evpc' : evpc'[n] \in {"saved", "done"}
        /\ \A n \in DOMAIN evpc' : evpc'[n] = "saved" => n \in Stored'
    BY <1>2, <1>3, Facts DEF RowTypes, Rows
  <1>6. UNCHANGED <<debounce, config, poller, jobs, excused>>  BY DEF EventSave
  <1>7. QED  BY <1>1, <1>4, <1>5, <1>6, RowStep

LEMMA EventSaveFailsStep == ASSUME IInv, NEW m \in Msgs, EventSaveFails(m) PROVE IInv'
  <1>1. /\ Insert(m, "event") \/ UNCHANGED firstBy
        /\ m \notin DOMAIN evpc /\ evpc' = Put(evpc, m, "done")
    BY DEF EventSaveFails
  <1>2. /\ DOMAIN evpc' = DOMAIN evpc \cup {m} /\ evpc'[m] = "done"
        /\ \A n \in DOMAIN evpc : evpc'[n] = evpc[n]
    BY <1>1 DEF Put
  <1>3. Stored \subseteq Stored'
    <2>1. CASE Insert(m, "event")  BY <2>1, InsertEffect
    <2>2. CASE UNCHANGED firstBy  BY <2>2 DEF Stored
    <2>3. QED  BY <1>1, <2>1, <2>2
  <1>4. EventsStay  BY <1>2 DEF EventsStay
  <1>5. /\ DOMAIN evpc' \subseteq Msgs /\ \A n \in DOMAIN evpc' : evpc'[n] \in {"saved", "done"}
        /\ \A n \in DOMAIN evpc' : evpc'[n] = "saved" => n \in Stored'
    BY <1>2, <1>3, Facts DEF RowTypes, Rows
  <1>6. UNCHANGED <<debounce, config, poller, jobs, excused>>  BY DEF EventSaveFails
  <1>7. QED  BY <1>1, <1>4, <1>5, <1>6, RowStep

(* The handler has decided.                                                *)
LEMMA EventDone ==
  ASSUME IInv, NEW m \in Msgs, m \in DOMAIN evpc, evpc' = [evpc EXCEPT ![m] = "done"]
  PROVE  /\ EventsStay /\ DOMAIN evpc' \subseteq Msgs
         /\ \A n \in DOMAIN evpc' : evpc'[n] \in {"saved", "done"}
         /\ \A n \in DOMAIN evpc' : evpc'[n] = "saved" => n \in Stored
         /\ m \in DOMAIN evpc' /\ evpc'[m] = "done"
  <1>1. /\ DOMAIN evpc' = DOMAIN evpc /\ evpc'[m] = "done"
        /\ \A n \in DOMAIN evpc : n # m => evpc'[n] = evpc[n]
    OBVIOUS
  <1>2. RowTypes /\ Rows  BY Facts
  <1>3. QED  BY <1>1, <1>2 DEF EventsStay, RowTypes, Rows

LEMMA DecisionFailsStep == ASSUME IInv, NEW m \in Msgs, DecisionFails(m) PROVE IInv'
  <1>1. /\ m \in DOMAIN evpc /\ evpc' = [evpc EXCEPT ![m] = "done"] /\ UNCHANGED firstBy
        /\ UNCHANGED <<debounce, config, poller, jobs, excused>>
    BY DEF DecisionFails
  <1>2. Stored' = Stored  BY <1>1 DEF Stored
  <1>3. QED  BY <1>1, <1>2, EventDone, RowStep

LEMMA HistorySaveStep == ASSUME IInv, NEW m \in Msgs, HistorySave(m) PROVE IInv'
  <1>1. Insert(m, "history") /\ UNCHANGED <<debounce, config, evpc, poller, jobs, excused>>
    BY DEF HistorySave
  <1>2. Stored \subseteq Stored'  BY <1>1, InsertEffect
  <1>3. EventsStay  BY <1>1 DEF EventsStay
  <1>4. /\ DOMAIN evpc' \subseteq Msgs /\ \A n \in DOMAIN evpc' : evpc'[n] \in {"saved", "done"}
        /\ \A n \in DOMAIN evpc' : evpc'[n] = "saved" => n \in Stored'
    BY <1>1, <1>2, Facts DEF RowTypes, Rows
  <1>5. QED  BY <1>1, <1>3, <1>4, RowStep

(* A reply goroutine starts.                                               *)
LEMMA StartEffect ==
  ASSUME IInv, NEW j \in Jobs, NEW label \in Running, NEW id \in Identities,
         StartJob(j, label, id)
  PROVE  /\ DOMAIN job' = DOMAIN job \cup {j}
         /\ job'[j].at = label /\ job'[j].as = id
         /\ \A i \in DOMAIN job : i # j => job'[i] = job[i]
         /\ UNCHANGED <<delivered, logs>>
         /\ \A i \in DOMAIN job' : job'[i] \in JobRows
         /\ RunningJob(j)'
  <1> DEFINE w == [at |-> label, as |-> id]
  <1>1. w \in JobRows /\ w.at = label /\ w.as = id  BY DEF JobRows
  <1>2. job' = Put(job, j, w) /\ UNCHANGED <<delivered, logs>>  BY DEF StartJob
  <1> HIDE DEF w
  <1>3. /\ DOMAIN job' = DOMAIN job \cup {j} /\ job'[j] = w
        /\ \A i \in DOMAIN job : i # j => job'[i] = job[i]
    BY <1>2 DEF Put
  <1>4. \A i \in DOMAIN job : job[i] \in JobRows  BY Facts DEF JobTypes
  <1>5. \A i \in DOMAIN job' : job'[i] \in JobRows  BY <1>1, <1>3, <1>4
  <1>6. RunningJob(j)'  BY <1>1, <1>3 DEF RunningJob
  <1>7. QED  BY <1>1, <1>2, <1>3, <1>5, <1>6

LEMMA JobStarted ==
  ASSUME IInv, NEW j \in Jobs, NEW label \in {"check", "ask"}, NEW id \in Identities,
         StartJob(j, label, id), UNCHANGED <<firstBy, excused>>, EventsStay,
         scheduled \subseteq scheduled', replaced' \subseteq Msgs \X Msgs,
         j[2] \in Incoming, j[2] \in Stored,
         j[1] = "poll" => id = "user" /\ j[2] \in scheduled',
         j[1] = "event" => j[2] \in DOMAIN evpc' /\ evpc'[j[2]] = "done",
         j \in delivered => id = "user"
  PROVE  JobsOK' /\ JobTypes' /\ LogsTruthful'
  <1>1. label \in Running  BY DEF Running
  <1>2. /\ DOMAIN job' = DOMAIN job \cup {j}
        /\ job'[j].at = label /\ job'[j].as = id
        /\ \A i \in DOMAIN job : i # j => job'[i] = job[i]
        /\ UNCHANGED <<delivered, logs>>
        /\ \A i \in DOMAIN job' : job'[i] \in JobRows
    BY <1>1, StartEffect
  <1>3. RowsStay  BY DEF RowsStay, Stored
  <1>4. ASSUME NEW i \in DOMAIN job, i # j PROVE JobOK(i)'
    <2>1. JobOK(i) /\ job'[i] = job[i]  BY <1>2, <1>4, Facts DEF JobsOK
    <2>2. MayWrite(i)' = MayWrite(i)  BY <2>1 DEF MayWrite, AttrOf
    <2>3. QED  BY <1>2, <1>3, <2>1, <2>2 DEF JobOK, RowsStay, EventsStay
  <1>5. JobOK(j)'
    <2>1. j \in delivered' => MayWrite(j)'  BY <1>2 DEF MayWrite
    <2>2. j[2] \in Stored'  BY <1>3 DEF RowsStay
    <2>3. QED  BY <1>2, <2>1, <2>2 DEF JobOK
  <1>6. JobsOK'  BY <1>2, <1>4, <1>5 DEF JobsOK
  <1>7. JobTypes'  BY <1>2, Facts DEF JobTypes
  <1>8. LogsTruthful'  BY <1>2, <1>3, LogsKept
  <1>9. QED  BY <1>6, <1>7, <1>8

LEMMA ReplyAttr ==
  ASSUME NEW m \in Msgs \ Incoming
  PROVE  /\ m[1] \in Incoming /\ m[2] \in Identities
         /\ AttrOf(m).sender = IF m[2] = "user" THEN "owner" ELSE "bot"
         /\ AttrOf(m).blank = FALSE /\ AttrOf(m).mention = "none"
         /\ AttrOf(m).type = Attr[m[1]].type /\ AttrOf(m).chat = Attr[m[1]].chat
         /\ AttrOf(m).type \in {"p2p", "group"}
  <1>1. m[1] \in Incoming /\ m[2] \in Identities  BY DEF Msgs
  <1> DEFINE a == Attr[m[1]]
             s == IF m[2] = "user" THEN "owner" ELSE "bot"
  <1>2. a \in Attributes  BY <1>1, MessagesAssumption
  <1>3. AttrOf(m) = [a EXCEPT !.sender = s, !.blank = FALSE, !.mention = "none"]
    BY DEF AttrOf
  <1> HIDE DEF a, s
  <1>4. /\ AttrOf(m).sender = s /\ AttrOf(m).blank = FALSE /\ AttrOf(m).mention = "none"
        /\ AttrOf(m).type = a.type /\ AttrOf(m).chat = a.chat /\ a.type \in {"p2p", "group"}
    BY <1>2, <1>3 DEF Attributes
  <1>5. QED  BY <1>1, <1>4 DEF a, s

(* shouldReply leaves every message of the assistant alone.                *)
LEMMA ReplySkipped ==
  ASSUME NEW m \in Msgs \ Incoming
  PROVE  Decision(m) = "skip"
  BY ReplyAttr DEF Decision, Identities

LEMMA DecisionType ==
  ASSUME NEW m \in Msgs
  PROVE  Decision(m) \in Identities \cup {"skip"}
  BY DEF Decision, Identities

LEMMA HandleMessageStep == ASSUME IInv, NEW m \in Msgs, HandleMessage(m) PROVE IInv'
  <1>1. /\ m \in DOMAIN evpc /\ evpc[m] = "saved" /\ evpc' = [evpc EXCEPT ![m] = "done"]
        /\ UNCHANGED <<debounce, config, firstBy, poller, excused>>
    BY DEF HandleMessage
  <1>2. /\ EventsStay /\ DOMAIN evpc' \subseteq Msgs
        /\ \A n \in DOMAIN evpc' : evpc'[n] \in {"saved", "done"}
        /\ \A n \in DOMAIN evpc' : evpc'[n] = "saved" => n \in Stored
        /\ m \in DOMAIN evpc' /\ evpc'[m] = "done" /\ m \in Stored
    BY <1>1, EventDone, Facts DEF Rows
  <1>3. Stored' = Stored /\ RowsStay  BY <1>1 DEF Stored, RowsStay
  <1>4. CASE Decision(m) = "skip"
    <2>1. UNCHANGED jobs  BY <1>4 DEF HandleMessage
    <2>2. QED  BY <1>1, <1>2, <1>3, <2>1, RowStep
  <1>5. CASE Decision(m) # "skip"
    <2> DEFINE j == <<"event", m>>
    <2>1. Decision(m) \in Identities /\ m \in Incoming
      BY <1>5, DecisionType, ReplySkipped
    <2>2. StartJob(j, "ask", Decision(m)) /\ j \in Jobs
      BY <1>5 DEF HandleMessage, Jobs, Paths
    <2>3. j \notin DOMAIN job /\ j \notin delivered
      BY <1>1, Facts DEF JobsOK, JobOK, JobTypes
    <2>4. UNCHANGED <<scheduled, lost, replaced, pending, pollMsg, pollPc, polled, sent, authorized,
                      selected>>
      BY <1>1 DEF poller, debounce, config
    <2>5. JobsOK' /\ JobTypes' /\ LogsTruthful'
      BY <1>1, <1>2, <2>1, <2>2, <2>3, <2>4, JobStarted, Facts DEF JobTypes
    <2>6. DP!IInv'  BY <1>1, DebounceStutters
    <2>7. ConfigTypes' /\ RowTypes' /\ PollTypes'
      BY <1>1, <1>2, <1>3, <2>4, Facts DEF ConfigTypes, RowTypes, PollTypes
    <2>8. Rows' /\ Polling'  BY <1>2, <1>3, <2>4, RowsKept, PollingKept
    <2>9. SilenceHasReason'
      <3>1. "ask" \in Running  BY DEF Running
      <3>2. /\ DOMAIN job' = DOMAIN job \cup {j} /\ UNCHANGED <<delivered, logs>>
            /\ \A i \in DOMAIN job : i # j => job'[i] = job[i]
        BY <2>1, <2>2, <3>1, StartEffect
      <3>3. ASSUME NEW n \in Incoming
            PROVE  RunningJob(<<"poll", n>>)' = RunningJob(<<"poll", n>>)
        <4>1. <<"poll", n>> # j  OBVIOUS
        <4>2. QED  BY <3>2, <4>1 DEF RunningJob
      <3>4. \A n \in Incoming : Settled(n)' = Settled(n)  BY <2>4, <3>3 DEF Settled
      <3>5. QED  BY <1>1, <1>3, <2>4, <3>2, <3>4, SilenceKept DEF Owed
    <2>10. QED  BY <2>5, <2>6, <2>7, <2>8, <2>9, TypeOfParts DEF IInv
  <1>6. QED  BY <1>4, <1>5

-----------------------------------------------------------------------------
(* The poller *)

LEMMA PollStartStep == ASSUME IInv, PollStart PROVE IInv'
  <1>1. /\ polled' = selected
        /\ UNCHANGED <<debounce, config, firstBy, evpc, pollMsg, pollPc, jobs, excused>>
    BY DEF PollStart
  <1>2. RowsStay /\ EventsStay /\ SameWork /\ Stored' = Stored
    BY <1>1 DEF RowsStay, EventsStay, SameWork, jobs, debounce, Stored
  <1>3. UNCHANGED <<scheduled, lost, replaced, job, delivered, logs, sent, authorized, selected>>
    BY <1>1 DEF jobs, debounce, config
  <1>4. DP!IInv'  BY <1>1, DebounceStutters
  <1>5. ConfigTypes' /\ RowTypes' /\ PollTypes' /\ JobTypes'
    BY <1>1, <1>2, <1>3, Facts DEF ConfigTypes, RowTypes, PollTypes, JobTypes
  <1>6. Rows' /\ Polling' /\ JobsOK' /\ LogsTruthful'
    BY <1>1, <1>2, <1>3, Facts, RowsKept, PollingKept, JobsKept, LogsKept DEF Rows
  <1>7. SilenceHasReason'
    BY <1>1, <1>2, <1>3, SilenceUntouched DEF Owed
  <1>8. QED  BY <1>4, <1>5, <1>6, <1>7, TypeOfParts DEF IInv

(* What the bot sent is in no chat the poller covers: it cannot write      *)
(* there.                                                                  *)
LEMMA FoundReply ==
  ASSUME IInv, NEW m \in Msgs, Found(m), m \notin Incoming
  PROVE  AttrOf(m).sender = "owner"
  <1>1. PICK p \in Paths : <<p, m[1]>> \in delivered /\ job[<<p, m[1]>>].as = m[2]
    BY DEF Found, Visible
  <1> DEFINE j == <<p, m[1]>>
  <1>2. m[1] \in Incoming /\ m[2] \in Identities /\ AttrOf(m).chat = Attr[m[1]].chat
    BY ReplyAttr
  <1>3. j \in DOMAIN job /\ JobOK(j)  BY <1>1, Facts DEF JobTypes, JobsOK
  <1>4. job[j].as = "user" \/ AttrOf(m[1]).chat \notin ContactChats
    BY <1>1, <1>3 DEF JobOK, MayWrite
  <1>5. AttrOf(m[1]).chat \in ContactChats
    BY <1>2, Facts DEF Found, ConfigTypes, AttrOf
  <1>6. m[2] = "user"  BY <1>1, <1>4, <1>5
  <1>7. QED  BY <1>6, ReplyAttr

LEMMA PollNewStep == ASSUME IInv, NEW m \in Msgs, PollNew(m) PROVE IInv'
  <1>1. /\ Found(m) /\ m \notin Stored /\ Insert(m, "poll") /\ pollMsg' = m /\ pollPc' = "check"
        /\ UNCHANGED <<debounce, config, evpc, polled, jobs, excused>>
    BY DEF PollNew
  <1>2. /\ RowsStay /\ Stored' = Stored \cup {m} /\ Stored' \subseteq Msgs
        /\ \A n \in Stored' : firstBy'[n] \in {"event", "poll", "history"}
        /\ firstBy'[m] = "poll"
    BY <1>1, InsertEffect
  <1>3. UNCHANGED <<scheduled, lost, replaced, pending, job, delivered, logs, sent, authorized,
                    selected>>
    BY <1>1 DEF jobs, debounce, config
  <1>4. DP!IInv'  BY <1>1, DebounceStutters
  <1>5. m # NoMsg /\ pollMsg = NoMsg  BY <1>1, DebounceAssumption DEF Found
  <1>6. ConfigTypes' /\ RowTypes' /\ PollTypes' /\ JobTypes'
    BY <1>1, <1>2, <1>3, <1>5, Facts DEF ConfigTypes, RowTypes, PollTypes, JobTypes
  <1>7. Rows'  BY <1>1, <1>2, <1>3, Facts, RowsKept DEF Rows
  <1>8. Polling'
    <2>1. m \notin scheduled  BY <1>1, Facts DEF Rows
    <2>2. m \notin Incoming => AttrOf(m).sender = "owner"  BY <1>1, FoundReply
    <2>3. QED  BY <1>1, <1>2, <1>3, <2>1, <2>2 DEF Polling, AttrOf
  <1>9. EventsStay  BY <1>1 DEF EventsStay
  <1>10. JobsOK' /\ LogsTruthful'  BY <1>1, <1>2, <1>3, <1>9, JobsKept, LogsKept
  <1>11. SilenceHasReason'
    <2>1. \A n \in Incoming : Owed(n)' => n \in Stored \/ ~Settled(n)' \/ Reason(n)'
      BY <1>1, <1>2 DEF Owed, Settled
    <2>2. \A n \in Incoming : ~Settled(n) => ~Settled(n)'
      BY <1>3, <1>5, DebounceAssumption, Facts DEF Settled, RunningJob
    <2>3. QED  BY <1>1, <1>2, <1>3, <2>1, <2>2, SilenceKept
  <1>12. QED  BY <1>4, <1>6, <1>7, <1>8, <1>10, <1>11, TypeOfParts DEF IInv

LEMMA PollSaveFailsStep == ASSUME IInv, NEW m \in Msgs, PollSaveFails(m) PROVE IInv'
  <1>1. /\ (m \notin Stored /\ Insert(m, "poll")) \/ UNCHANGED firstBy
        /\ excused' = excused \cup ({m} \cap Incoming)
        /\ UNCHANGED <<debounce, config, evpc, poller, jobs>>
    BY DEF PollSaveFails, Excuse
  <1>2. /\ RowsStay /\ Stored' \subseteq Stored \cup {m} /\ Stored' \subseteq Msgs
        /\ \A n \in Stored' : firstBy'[n] \in {"event", "poll", "history"}
    <2>1. CASE Insert(m, "poll")  BY <2>1, InsertEffect
    <2>2. CASE UNCHANGED firstBy  BY <2>2, Facts DEF RowsStay, RowTypes, Stored
    <2>3. QED  BY <1>1, <2>1, <2>2
  <1>3. UNCHANGED <<scheduled, lost, replaced, pending, pollMsg, pollPc, polled, job, delivered,
                    logs, sent, authorized, selected>>
    BY <1>1 DEF poller, jobs, debounce, config
  <1>4. DP!IInv'  BY <1>1, DebounceStutters
  <1>5. ConfigTypes' /\ RowTypes' /\ PollTypes' /\ JobTypes'
    BY <1>1, <1>2, <1>3, Facts DEF ConfigTypes, RowTypes, PollTypes, JobTypes
  <1>6. EventsStay  BY <1>1 DEF EventsStay
  <1>7. \A n \in DOMAIN evpc' : evpc'[n] = "saved" => n \in Stored'
    BY <1>1, <1>2, Facts DEF Rows, RowsStay
  <1>8. Rows' /\ Polling' /\ JobsOK' /\ LogsTruthful'
    BY <1>1, <1>2, <1>3, <1>6, <1>7, RowsKept, PollingKept, JobsKept, LogsKept
  <1>9. SilenceHasReason'
    <2>1. \A n \in Incoming : Owed(n)' => n \in Stored \/ Reason(n)'
      BY <1>1, <1>2 DEF Owed, Reason
    <2>2. QED  BY <1>1, <1>2, <1>3, <2>1, SilenceUntouched DEF SameWork
  <1>10. QED  BY <1>4, <1>5, <1>8, <1>9, TypeOfParts DEF IInv

LEMMA PollIdleEffect ==
  ASSUME IInv, PollIdle, UNCHANGED <<polled>>
  PROVE  PollTypes' /\ Polling'
  BY DEF PollIdle, PollTypes, Polling

LEMMA PollCheckStep == ASSUME IInv, PollCheck PROVE IInv'
  <1> DEFINE leave == AttrOf(pollMsg).blank \/ AttrOf(pollMsg).sender = "owner" \/ Recorded(pollMsg)
  <1>1. /\ pollPc = "check" /\ UNCHANGED <<debounce, config, firstBy, evpc, polled, jobs, excused>>
        /\ \/ leave /\ PollIdle
           \/ ~leave /\ pollPc' = "schedule" /\ UNCHANGED pollMsg
    BY DEF PollCheck
  <1>2. RowsStay /\ EventsStay /\ Stored' = Stored
    BY <1>1 DEF RowsStay, EventsStay, Stored
  <1>3. UNCHANGED <<scheduled, lost, replaced, pending, job, delivered, logs, sent, authorized,
                    selected>>
    BY <1>1 DEF jobs, debounce, config
  <1>4. pollMsg \in Msgs /\ pollMsg # NoMsg  BY <1>1, Facts DEF PollTypes
  <1>5. DP!IInv'  BY <1>1, DebounceStutters
  <1>6. ConfigTypes' /\ RowTypes' /\ JobTypes'
    BY <1>1, <1>2, <1>3, Facts DEF ConfigTypes, RowTypes, JobTypes
  <1>7. Rows' /\ JobsOK' /\ LogsTruthful'
    BY <1>1, <1>2, <1>3, Facts, RowsKept, JobsKept, LogsKept DEF Rows
  <1>8. CASE leave /\ PollIdle
    <2>1. PollTypes' /\ Polling'  BY <1>1, <1>8, PollIdleEffect
    <2>2. Owed(pollMsg) /\ pollMsg \in Incoming => Reason(pollMsg)
      <3>1. SUFFICES ASSUME Owed(pollMsg), pollMsg \in Incoming PROVE Reason(pollMsg)
        OBVIOUS
      <3>2. AttrOf(pollMsg) = Attr[pollMsg]  BY <3>1 DEF AttrOf
      <3>3. Recorded(pollMsg)  BY <1>8, <3>1, <3>2 DEF Owed
      <3>4. PICK p \in Paths : <<p, pollMsg, "sent">> \in logs  BY <3>3 DEF Recorded
      <3>5. <<p, pollMsg>> \in delivered  BY <3>4, Facts DEF LogsTruthful
      <3>6. QED  BY <3>5 DEF Reason
    <2>3. \A n \in Incoming : Owed(n) /\ ~Settled(n) => ~Settled(n)' \/ Reason(n)'
      <3>1. SUFFICES ASSUME NEW n \in Incoming, Owed(n), ~Settled(n)
                     PROVE  ~Settled(n)' \/ Reason(n)'
        OBVIOUS
      <3>2. CASE n = pollMsg
        <4>1. Reason(n)  BY <2>2, <3>1, <3>2
        <4>2. QED  BY <1>1, <1>3, <4>1 DEF Reason
      <3>3. CASE n # pollMsg
        BY <1>3, <3>1, <3>3 DEF Settled, RunningJob
      <3>4. QED  BY <3>2, <3>3
    <2>4. SilenceHasReason'
      BY <1>1, <1>2, <1>3, <2>3, SilenceKept DEF Owed
    <2>5. QED  BY <1>5, <1>6, <1>7, <2>1, <2>4, TypeOfParts DEF IInv
  <1>9. CASE ~leave /\ pollPc' = "schedule" /\ UNCHANGED pollMsg
    <2>1. PollTypes'  BY <1>4, <1>9, Facts DEF PollTypes
    <2>2. pollMsg \in Incoming  BY <1>4, <1>9, Facts DEF Polling
    <2>3. Polling'  BY <1>1, <1>2, <1>3, <1>9, <2>2, Facts DEF Polling, AttrOf
    <2>4. SilenceHasReason'
      BY <1>1, <1>2, <1>3, <1>9, SilenceUntouched DEF Owed, SameWork
    <2>5. QED  BY <1>5, <1>6, <1>7, <2>1, <2>3, <2>4, TypeOfParts DEF IInv
  <1>10. QED  BY <1>1, <1>8, <1>9

LEMMA PollCheckFailsStep == ASSUME IInv, PollCheckFails PROVE IInv'
  <1>1. /\ pollPc = "check" /\ UNCHANGED <<debounce, config, firstBy, evpc, polled, jobs>>
        /\ PollIdle /\ excused' = excused \cup ({pollMsg} \cap Incoming)
    BY DEF PollCheckFails, Excuse
  <1>2. RowsStay /\ EventsStay /\ Stored' = Stored
    BY <1>1 DEF RowsStay, EventsStay, Stored
  <1>3. UNCHANGED <<scheduled, lost, replaced, pending, job, delivered, logs, sent, authorized,
                    selected>>
    BY <1>1 DEF jobs, debounce, config
  <1>4. DP!IInv'  BY <1>1, DebounceStutters
  <1>5. ConfigTypes' /\ RowTypes' /\ PollTypes' /\ JobTypes'
    BY <1>1, <1>2, <1>3, Facts, PollIdleEffect DEF ConfigTypes, RowTypes, JobTypes
  <1>6. Rows' /\ Polling' /\ JobsOK' /\ LogsTruthful'
    BY <1>1, <1>2, <1>3, Facts, RowsKept, PollIdleEffect, JobsKept, LogsKept DEF Rows
  <1>7. SilenceHasReason'
    <2>1. \A n \in Incoming : Owed(n) /\ ~Settled(n) => ~Settled(n)' \/ Reason(n)'
      <3>1. SUFFICES ASSUME NEW n \in Incoming, ~Settled(n) PROVE ~Settled(n)' \/ Reason(n)'
        OBVIOUS
      <3>2. CASE n = pollMsg  BY <1>1, <3>2 DEF Reason
      <3>3. CASE n # pollMsg  BY <1>3, <3>1, <3>3 DEF Settled, RunningJob
      <3>4. QED  BY <3>2, <3>3
    <2>2. QED  BY <1>1, <1>2, <1>3, <2>1, SilenceKept DEF Owed
  <1>8. QED  BY <1>4, <1>5, <1>6, <1>7, TypeOfParts DEF IInv

(* A step of the debounce, here, is one of P2PDebounce.                    *)
LEMMA ScheduleIsStep ==
  ASSUME NEW m \in Msgs, D!Schedule(m)
  PROVE  DP!Next
  BY DEF D!Schedule, D!ScheduleKeyless, D!ScheduleReset, D!ScheduleNew,
         DP!Next, DP!Schedule, DP!ScheduleKeyless, DP!ScheduleReset, DP!ScheduleNew

LEMMA DebounceMoves ==
  ASSUME IInv, DP!Next
  PROVE  DP!IInv'
  BY Facts, DP!NextIInv, DebounceAssumption

\* What the debounce's invariant says of its slots.
LEMMA SlotFacts ==
  ASSUME IInv
  PROVE  /\ pending \in [Keys -> Msgs \cup {NoMsg}]
         /\ \A k \in Keys : pending[k] # NoMsg => KeyOf[pending[k]] = k /\ pending[k] \in scheduled
         /\ \A f \in flushers : f \in Timers \X Msgs /\ timerKey[f[1]] \in Keys
         /\ scheduled \subseteq Msgs /\ lost \subseteq scheduled
  <1>1. DP!TypeOK /\ DP!SlotsWired /\ DP!TimersWired  BY Facts DEF DP!IInv
  <1>2. \A f \in flushers : f \in Timers \X Msgs /\ timerKey[f[1]] \in Keys
    <2>1. SUFFICES ASSUME NEW f \in flushers PROVE f \in Timers \X Msgs /\ timerKey[f[1]] \in Keys
      OBVIOUS
    <2>2. f \in Timers \X Msgs /\ f = <<f[1], f[2]>>  BY <1>1 DEF DP!TypeOK
    <2>3. DP!Live(f[1])  BY <2>2 DEF DP!Live
    <2>4. QED  BY <1>1, <2>2, <2>3 DEF DP!TimersWired
  <1>3. QED  BY <1>1, <1>2 DEF DP!TypeOK, DP!SlotsWired

(* What scheduling m does to the slots: m waits in that of its             *)
(* conversation, or is answered at once.                                   *)
LEMMA ScheduleEffect ==
  ASSUME IInv, NEW m \in Msgs, D!Schedule(m)
  PROVE  /\ scheduled' = scheduled \cup {m} /\ UNCHANGED lost
         /\ KeyOf[m] = NoKey => pending' = pending
         /\ KeyOf[m] # NoKey =>
              KeyOf[m] \in Keys /\ pending' = [pending EXCEPT ![KeyOf[m]] = m]
  <1>1. KeyOf[m] \in Keys \cup {NoKey}  BY DebounceAssumption
  <1>2. CASE D!ScheduleKeyless(m)  BY <1>2 DEF D!ScheduleKeyless
  <1>3. CASE D!ScheduleReset(m)  BY <1>1, <1>3 DEF D!ScheduleReset
  <1>4. CASE D!ScheduleNew(m)  BY <1>1, <1>4 DEF D!ScheduleNew
  <1>5. QED  BY <1>2, <1>3, <1>4 DEF D!Schedule

LEMMA PollScheduleStep == ASSUME IInv, PollSchedule PROVE IInv'
  <1>0. PICK m \in Msgs \cup {NoMsg} : m = pollMsg
    BY Facts DEF PollTypes
  <1> DEFINE j == <<"poll", m>>
  <1>1. /\ pollPc = "schedule" /\ D!Schedule(m) /\ PollIdle
        /\ IF KeyOf[m] = NoKey THEN StartJob(j, "ask", "user") ELSE UNCHANGED jobs
        /\ replaced' = replaced \cup (Waiting(m) \X {m})
        /\ UNCHANGED <<config, firstBy, evpc, polled, excused>>
    BY <1>0 DEF PollSchedule
  <1>2. m \in Msgs /\ m # NoMsg  BY <1>0, <1>1, Facts DEF PollTypes
  <1>3. m \in Stored /\ firstBy[m] = "poll" /\ m \in Incoming
    BY <1>0, <1>1, <1>2, Facts DEF Polling
  <1>4. /\ scheduled' = scheduled \cup {m} /\ UNCHANGED lost
        /\ KeyOf[m] = NoKey => pending' = pending
        /\ KeyOf[m] # NoKey =>
             KeyOf[m] \in Keys /\ pending' = [pending EXCEPT ![KeyOf[m]] = m]
    BY <1>1, <1>2, ScheduleEffect
  <1>5. DP!IInv'  BY <1>1, <1>2, ScheduleIsStep, DebounceMoves
  <1>6. RowsStay /\ EventsStay /\ Stored' = Stored /\ UNCHANGED <<sent, authorized, selected>>
    BY <1>1 DEF RowsStay, EventsStay, Stored, config
  <1>7. ConfigTypes' /\ RowTypes' /\ PollTypes' /\ Polling'
    BY <1>1, <1>6, Facts, PollIdleEffect DEF ConfigTypes, RowTypes
  <1>8. Rows'  BY <1>1, <1>3, <1>4, <1>6, Facts DEF Rows
  <1>9. replaced \subseteq replaced' /\ replaced' \subseteq Msgs \X Msgs
    <2>1. Waiting(m) \subseteq Msgs  BY <1>4, SlotFacts DEF Waiting
    <2>2. replaced \subseteq Msgs \X Msgs  BY Facts DEF JobTypes
    <2>3. QED  BY <1>1, <1>2, <2>1, <2>2
  <1>10. CASE KeyOf[m] = NoKey
    <2>1. StartJob(j, "ask", "user")  BY <1>1, <1>10
    <2>2. j \in Jobs /\ j[1] = "poll" /\ j[2] = m  BY <1>2 DEF Jobs, Paths
    <2>3. "user" \in Identities /\ "ask" \in Running  BY DEF Identities, Running
    <2> HIDE DEF j
    <2>4. JobsOK' /\ JobTypes' /\ LogsTruthful'
      BY <1>1, <1>3, <1>4, <1>6, <1>9, <2>1, <2>2, <2>3, JobStarted
    <2>5. /\ RunningJob(j)' /\ UNCHANGED <<delivered, logs>> /\ DOMAIN job' = DOMAIN job \cup {j}
          /\ \A i \in DOMAIN job : i # j => job'[i] = job[i]
      BY <2>1, <2>2, <2>3, StartEffect
    <2>6. \A n \in Incoming : ~Settled(n) => ~Settled(n)'
      <3>1. SUFFICES ASSUME NEW n \in Incoming, ~Settled(n) PROVE ~Settled(n)'
        OBVIOUS
      <3>2. CASE n = m  BY <2>5, <3>2 DEF Settled, j
      <3>3. CASE n # m
        <4>1. <<"poll", n>> # j  BY <3>3 DEF j
        <4>2. RunningJob(<<"poll", n>>) => RunningJob(<<"poll", n>>)'
          BY <2>5, <4>1 DEF RunningJob
        <4>3. pending' = pending /\ pollMsg # n  BY <1>0, <1>4, <1>10, <3>3
        <4>4. QED  BY <3>1, <4>2, <4>3 DEF Settled
      <3>4. QED  BY <3>2, <3>3
    <2>7. SilenceHasReason'
      BY <1>1, <1>4, <1>6, <1>9, <2>5, <2>6, SilenceKept DEF Owed
    <2>8. QED  BY <1>5, <1>7, <1>8, <2>4, <2>7, TypeOfParts DEF IInv
  <1>11. CASE KeyOf[m] # NoKey
    <2>1. UNCHANGED <<job, delivered, logs>>  BY <1>1, <1>11 DEF jobs
    <2>2. JobTypes' /\ JobsOK' /\ LogsTruthful'
      BY <1>1, <1>4, <1>6, <1>9, <2>1, Facts, JobsKept, LogsKept DEF JobTypes
    <2> DEFINE k == KeyOf[m]
    <2>3. /\ k \in Keys /\ pending'[k] = m
          /\ \A h \in Keys : h # k => pending'[h] = pending[h]
      BY <1>4, <1>11, SlotFacts
    <2> HIDE DEF k
    <2>4. \A n \in Incoming : ~Settled(n) => ~Settled(n)' \/ Reason(n)'
      <3>1. SUFFICES ASSUME NEW n \in Incoming, ~Settled(n) PROVE ~Settled(n)' \/ Reason(n)'
        OBVIOUS
      <3>2. CASE n = m  BY <2>3, <3>2 DEF Settled
      <3>3. CASE n # m
        <4>1. CASE RunningJob(<<"poll", n>>)  BY <2>1, <4>1 DEF Settled, RunningJob
        <4>2. CASE \E h \in Keys : pending[h] = n
          <5>1. PICK h \in Keys : pending[h] = n  BY <4>2
          <5>2. CASE h # k  BY <2>3, <5>1, <5>2 DEF Settled
          <5>3. CASE h = k
            <6>1. n # NoMsg  BY DebounceAssumption, Facts
            <6>2. n \in Waiting(m)  BY <1>11, <5>1, <5>3, <6>1 DEF Waiting, k
            <6>3. <<n, m>> \in replaced' /\ m \in scheduled' \ {n}
              BY <1>1, <1>4, <3>3, <6>2
            <6>4. QED  BY <6>3 DEF Reason
          <5>4. QED  BY <5>2, <5>3
        <4>3. CASE pollMsg = n  BY <1>0, <3>3, <4>3
        <4>4. QED  BY <3>1, <4>1, <4>2, <4>3 DEF Settled
      <3>4. QED  BY <3>2, <3>3
    <2>5. SilenceHasReason'
      BY <1>1, <1>4, <1>6, <1>9, <2>1, <2>4, SilenceKept DEF Owed
    <2>6. QED  BY <1>5, <1>7, <1>8, <2>2, <2>5, TypeOfParts DEF IInv
  <1>12. QED  BY <1>10, <1>11

-----------------------------------------------------------------------------
(* Timers, reply goroutines and restarts *)

LEMMA ExpireStep == ASSUME IInv, NEW t \in Timers, Expire(t) PROVE IInv'
  <1>1. D!Expire(t) /\ UNCHANGED <<replaced, config, firstBy, evpc, poller, jobs, excused>>
    BY DEF Expire
  <1>2. DP!Next  BY <1>1 DEF D!Expire, DP!Next, DP!Expire
  <1>3. DP!IInv'  BY <1>2, DebounceMoves
  <1>4. RowsStay /\ EventsStay /\ SameWork /\ Stored' = Stored
    BY <1>1 DEF RowsStay, EventsStay, SameWork, jobs, poller, D!Expire, Stored
  <1>5. UNCHANGED <<scheduled, lost, replaced, pollMsg, pollPc, polled, job, delivered, logs, sent,
                    authorized, selected>>
    BY <1>1 DEF jobs, poller, config, D!Expire
  <1>6. ConfigTypes' /\ RowTypes' /\ PollTypes' /\ JobTypes'
    BY <1>1, <1>4, <1>5, Facts DEF ConfigTypes, RowTypes, PollTypes, JobTypes
  <1>7. Rows' /\ Polling' /\ JobsOK' /\ LogsTruthful'
    BY <1>1, <1>4, <1>5, Facts, RowsKept, PollingKept, JobsKept, LogsKept DEF Rows
  <1>8. SilenceHasReason'
    BY <1>1, <1>4, <1>5, SilenceUntouched DEF Owed
  <1>9. QED  BY <1>3, <1>6, <1>7, <1>8, TypeOfParts DEF IInv

LEMMA FlushStep == ASSUME IInv, NEW f \in flushers, Flush(f) PROVE IInv'
  <1>1. PICK k \in Keys : k = timerKey[f[1]]  BY SlotFacts
  <1>2. PICK m \in Msgs \cup {NoMsg} : m = pending[k]  BY SlotFacts
  <1> DEFINE j == <<"poll", m>>
  <1>3. /\ D!Flush(f) /\ UNCHANGED <<replaced, config, firstBy, evpc, poller, excused>>
        /\ IF m = NoMsg THEN UNCHANGED jobs ELSE StartJob(j, "check", "user")
    BY <1>1, <1>2 DEF Flush
  <1>4. /\ pending' = [pending EXCEPT ![k] = NoMsg] /\ UNCHANGED <<scheduled, lost, replaced>>
    BY <1>1, <1>3 DEF D!Flush
  <1>5. DP!Next  BY <1>3 DEF D!Flush, DP!Next, DP!Flush
  <1>6. DP!IInv'  BY <1>5, DebounceMoves
  <1>7. RowsStay /\ EventsStay /\ Stored' = Stored
    BY <1>3 DEF RowsStay, EventsStay, Stored
  <1>8. UNCHANGED <<pollMsg, pollPc, polled, sent, authorized, selected>>
    BY <1>3 DEF poller, config
  <1>9. ConfigTypes' /\ RowTypes' /\ PollTypes'
    BY <1>3, <1>7, <1>8, Facts DEF ConfigTypes, RowTypes, PollTypes
  <1>10. Rows' /\ Polling'
    BY <1>3, <1>4, <1>7, <1>8, Facts, RowsKept, PollingKept DEF Rows
  <1>11. /\ \A h \in Keys : h # k => pending'[h] = pending[h]
         /\ replaced' \subseteq Msgs \X Msgs
    BY <1>4, SlotFacts, Facts DEF JobTypes
  <1>12. CASE m = NoMsg
    <2>1. UNCHANGED <<job, delivered, logs>>  BY <1>3, <1>12 DEF jobs
    <2>2. JobTypes' /\ JobsOK' /\ LogsTruthful'
      BY <1>3, <1>4, <1>7, <1>11, <2>1, Facts, JobsKept, LogsKept DEF JobTypes
    <2>3. pending' = pending  BY <1>2, <1>4, <1>12, SlotFacts
    <2>4. SilenceHasReason'
      BY <1>3, <1>4, <1>7, <1>8, <2>1, <2>3, SilenceUntouched DEF Owed, SameWork
    <2>5. QED  BY <1>6, <1>9, <1>10, <2>2, <2>4, TypeOfParts DEF IInv
  <1>13. CASE m # NoMsg
    <2>1. StartJob(j, "check", "user")  BY <1>3, <1>13
    <2>2. m \in scheduled /\ m \in Incoming /\ m \in Stored
      BY <1>1, <1>2, <1>13, SlotFacts, Facts DEF Rows
    <2>3. j \in Jobs /\ j[1] = "poll" /\ j[2] = m  BY <1>13 DEF Jobs, Paths
    <2>4. "user" \in Identities /\ "check" \in Running  BY DEF Identities, Running
    <2> HIDE DEF j
    <2>5. JobsOK' /\ JobTypes' /\ LogsTruthful'
      BY <1>3, <1>4, <1>7, <1>11, <2>1, <2>2, <2>3, <2>4, JobStarted
    <2>6. /\ RunningJob(j)' /\ UNCHANGED <<delivered, logs>>
          /\ \A i \in DOMAIN job : i # j => job'[i] = job[i]
          /\ DOMAIN job' = DOMAIN job \cup {j}
      BY <2>1, <2>3, <2>4, StartEffect
    <2>7. \A n \in Incoming : ~Settled(n) => ~Settled(n)'
      <3>1. SUFFICES ASSUME NEW n \in Incoming, ~Settled(n) PROVE ~Settled(n)'
        OBVIOUS
      <3>2. CASE n = m  BY <2>6, <3>2 DEF Settled, j
      <3>3. CASE n # m
        <4>1. <<"poll", n>> # j  BY <3>3 DEF j
        <4>2. RunningJob(<<"poll", n>>) => RunningJob(<<"poll", n>>)'
          BY <2>6, <4>1 DEF RunningJob
        <4>3. \A h \in Keys : pending[h] = n => pending'[h] = n
          BY <1>2, <1>11, <3>3
        <4>4. QED  BY <1>8, <3>1, <4>2, <4>3 DEF Settled
      <3>4. QED  BY <3>2, <3>3
    <2>8. SilenceHasReason'
      BY <1>3, <1>4, <1>7, <2>6, <2>7, SilenceKept DEF Owed
    <2>9. QED  BY <1>6, <1>9, <1>10, <2>5, <2>8, TypeOfParts DEF IInv
  <1>14. QED  BY <1>12, <1>13

LEMMA GotoEffect ==
  ASSUME IInv, NEW j \in DOMAIN job, NEW label \in Running \cup {"ended"}, Goto(j, label)
  PROVE  /\ DOMAIN job' = DOMAIN job /\ job'[j].at = label /\ job'[j].as = job[j].as
         /\ \A i \in DOMAIN job : i # j => job'[i] = job[i]
         /\ \A i \in DOMAIN job : job'[i] \in JobRows /\ job'[i].as = job[i].as
  <1>1. \A i \in DOMAIN job : job[i] \in JobRows  BY Facts DEF JobTypes
  <1> DEFINE w == [job[j] EXCEPT !.at = label]
  <1>2. w \in JobRows /\ w.at = label /\ w.as = job[j].as  BY <1>1 DEF JobRows
  <1>3. job' = [job EXCEPT ![j] = w]  BY DEF Goto
  <1> HIDE DEF w
  <1>4. QED  BY <1>1, <1>2, <1>3

(* A step of a reply goroutine: what it still has to show is that its own  *)
(* job is in order, and, when it ends or is about to record a failure,     *)
(* that silence is excused.                                                *)
LEMMA GoroutineStep ==
  ASSUME IInv, NEW j \in DOMAIN job, NEW label \in Running \cup {"ended"}, Goto(j, label),
         UNCHANGED <<debounce, config, firstBy, evpc, poller>>,
         delivered \subseteq delivered', delivered' \subseteq delivered \cup {j},
         excused \subseteq excused', excused' \subseteq Incoming,
         logs \subseteq logs', logs' \subseteq Paths \X Msgs \X {"sent", "failed"},
         \A row \in logs' :
           row \in logs \/ (row[2] \in Stored /\ (row[3] = "sent" => <<row[1], row[2]>> \in delivered')),
         label = "logSent" => j \in delivered',
         label = "logFailed" /\ j[1] = "poll" => j[2] \in excused',
         j \in delivered' => MayWrite(j),
         label = "ended" /\ j[1] = "poll" =>
           (\E p \in Paths : <<p, j[2]>> \in delivered') \/ j[2] \in excused'
  PROVE  IInv'
  <1>1. /\ DOMAIN job' = DOMAIN job /\ job'[j].at = label /\ job'[j].as = job[j].as
        /\ \A i \in DOMAIN job : i # j => job'[i] = job[i]
        /\ \A i \in DOMAIN job : job'[i] \in JobRows /\ job'[i].as = job[i].as
    BY GotoEffect
  <1>2. RowsStay /\ EventsStay /\ Stored' = Stored  BY DEF RowsStay, EventsStay, Stored
  <1>3. UNCHANGED <<scheduled, lost, replaced, pending, pollMsg, pollPc, polled, sent, authorized,
                    selected>>
    BY DEF poller, debounce, config
  <1>4. DP!IInv'  BY DebounceStutters
  <1>5. ConfigTypes' /\ RowTypes' /\ PollTypes'
    BY <1>2, <1>3, Facts DEF ConfigTypes, RowTypes, PollTypes
  <1>6. JobTypes'  BY <1>1, <1>3, Facts DEF JobTypes
  <1>7. Rows' /\ Polling'
    BY <1>2, <1>3, Facts, RowsKept, PollingKept DEF Rows
  <1>8. JobsOK'
    <2>1. SUFFICES ASSUME NEW i \in DOMAIN job PROVE JobOK(i)'
      BY <1>1 DEF JobsOK
    <2>2. JobOK(i)  BY Facts DEF JobsOK
    <2>3. MayWrite(i)' = MayWrite(i)  BY <1>1 DEF MayWrite, AttrOf
    <2>4. CASE i = j  BY <1>1, <1>2, <1>3, <2>2, <2>3, <2>4 DEF JobOK
    <2>5. CASE i # j
      <3>1. job'[i] = job[i] /\ (i \in delivered' => i \in delivered)  BY <1>1, <2>5
      <3>2. QED  BY <1>2, <1>3, <2>2, <2>3, <3>1 DEF JobOK
    <2>6. QED  BY <2>4, <2>5
  <1>9. LogsTruthful'  BY <1>2, Facts DEF LogsTruthful
  <1>10. SilenceHasReason'
    <2>1. \A n \in Incoming : ~Settled(n) => ~Settled(n)' \/ Reason(n)'
      <3>1. SUFFICES ASSUME NEW n \in Incoming, ~Settled(n) PROVE ~Settled(n)' \/ Reason(n)'
        OBVIOUS
      <3>2. CASE ~RunningJob(<<"poll", n>>)  BY <1>3, <3>1, <3>2 DEF Settled
      <3>3. CASE RunningJob(<<"poll", n>>) /\ <<"poll", n>> # j
        BY <1>1, <3>3 DEF Settled, RunningJob
      <3>4. CASE <<"poll", n>> = j
        <4>1. j[1] = "poll" /\ j[2] = n  BY <3>4
        <4>2. CASE label = "ended"  BY <4>1, <4>2 DEF Reason
        <4>3. CASE label # "ended"
          <5>1. RunningJob(<<"poll", n>>)'  BY <1>1, <3>4, <4>3 DEF RunningJob
          <5>2. QED  BY <5>1 DEF Settled
        <4>4. QED  BY <4>2, <4>3
      <3>5. QED  BY <3>2, <3>3, <3>4
    <2>2. QED  BY <1>2, <1>3, <2>1, SilenceKept DEF Owed
  <1>11. QED  BY <1>4, <1>5, <1>6, <1>7, <1>8, <1>9, <1>10, TypeOfParts DEF IInv

LEMMA JobStepStep ==
  ASSUME IInv, NEW j \in DOMAIN job, JobStep(j), UNCHANGED Environment
  PROVE  IInv'
  <1>1. UNCHANGED <<debounce, config, firstBy, evpc, poller>>  BY DEF Environment
  <1>2. /\ JobOK(j) /\ logs \subseteq Paths \X Msgs \X {"sent", "failed"}
        /\ excused \subseteq Incoming /\ j \in Paths \X Msgs
    BY Facts DEF JobsOK, JobTypes, Jobs
  <1>3. j[2] \in Incoming /\ j[2] \in Stored /\ j[1] \in Paths /\ j = <<j[1], j[2]>>
    BY <1>2 DEF JobOK
  <1>4. {"ask", "send", "logSent", "logFailed", "ended"} \subseteq Running \cup {"ended"}
    BY DEF Running
  <1>5. \A m \in Incoming : Excuse(m) =>
          excused \subseteq excused' /\ excused' \subseteq Incoming /\ m \in excused'
    BY <1>2 DEF Excuse
  <1>6. ExcuseJob(j) => /\ excused \subseteq excused' /\ excused' \subseteq Incoming
                        /\ j[1] = "poll" => j[2] \in excused'
    BY <1>2, <1>3, <1>5 DEF ExcuseJob
  <1>7. j \in delivered => MayWrite(j)  BY <1>2 DEF JobOK
  <1>8. CASE FlushCheck(j)
    <2>1. UNCHANGED <<delivered, logs, excused>>  BY <1>8 DEF FlushCheck
    <2>2. CASE Recorded(j[2])
      <3>1. PICK p \in Paths : <<p, j[2], "sent">> \in logs  BY <2>2 DEF Recorded
      <3>2. <<p, j[2]>> \in delivered  BY <3>1, Facts DEF LogsTruthful
      <3>3. Goto(j, "ended")  BY <1>8, <2>2 DEF FlushCheck
      <3>4. QED  BY <1>1, <1>2, <1>4, <1>7, <2>1, <3>2, <3>3, GoroutineStep
    <2>3. CASE ~Recorded(j[2])
      <3>1. Goto(j, "ask")  BY <1>8, <2>3 DEF FlushCheck
      <3>2. QED  BY <1>1, <1>2, <1>4, <1>7, <2>1, <3>1, GoroutineStep
    <2>4. QED  BY <2>2, <2>3
  <1>9. CASE FailSilently(j)
    <2>1. Goto(j, "ended") /\ ExcuseJob(j) /\ UNCHANGED <<delivered, logs>>
      BY <1>9 DEF FailSilently
    <2>2. QED  BY <1>1, <1>2, <1>4, <1>6, <1>7, <2>1, GoroutineStep
  <1>10. CASE Answered(j)
    <2>1. Goto(j, "send") /\ UNCHANGED <<delivered, logs, excused>>  BY <1>10 DEF Answered
    <2>2. QED  BY <1>1, <1>2, <1>4, <1>7, <2>1, GoroutineStep
  <1>11. CASE AskFails(j)
    <2>1. Goto(j, "logFailed") /\ ExcuseJob(j) /\ UNCHANGED <<delivered, logs>>
      BY <1>11 DEF AskFails
    <2>2. QED  BY <1>1, <1>2, <1>4, <1>6, <1>7, <2>1, GoroutineStep
  <1>12. CASE Send(j)
    <2>1. /\ MayWrite(j) /\ delivered' = delivered \cup {j} /\ Goto(j, "logSent")
          /\ UNCHANGED <<logs, excused>>
      BY <1>12 DEF Send
    <2>2. QED  BY <1>1, <1>2, <1>4, <2>1, GoroutineStep
  <1>13. CASE SendFails(j)
    <2>1. Goto(j, "logFailed") /\ ExcuseJob(j) /\ UNCHANGED logs
      BY <1>13 DEF SendFails
    <2>2. /\ delivered \subseteq delivered' /\ delivered' \subseteq delivered \cup {j}
          /\ j \in delivered' => MayWrite(j)
      BY <1>7, <1>13 DEF SendFails
    <2>3. QED  BY <1>1, <1>2, <1>4, <1>6, <2>1, <2>2, GoroutineStep
  <1>14. CASE Log(j)
    <2> DEFINE row == <<j[1], j[2], IF job[j].at = "logSent" THEN "sent" ELSE "failed">>
    <2>1. /\ job[j].at \in {"logSent", "logFailed"} /\ logs' \in {logs, logs \cup {row}}
          /\ Goto(j, "ended") /\ UNCHANGED <<delivered, excused>>
      BY <1>14 DEF Log
    <2>2. /\ row \in Paths \X Msgs \X {"sent", "failed"} /\ row[1] = j[1] /\ row[2] = j[2]
          /\ row[3] = "sent" => job[j].at = "logSent"
      BY <1>2
    <2>3. row[3] = "sent" => <<row[1], row[2]>> \in delivered
      BY <1>2, <1>3, <2>2 DEF JobOK
    <2>4. j[1] = "poll" => (\E p \in Paths : <<p, j[2]>> \in delivered) \/ j[2] \in excused
      BY <1>2, <1>3, <2>1 DEF JobOK
    <2> HIDE DEF row
    <2>5. /\ logs \subseteq logs' /\ logs' \subseteq Paths \X Msgs \X {"sent", "failed"}
          /\ \A r \in logs' :
               r \in logs \/ (r[2] \in Stored /\ (r[3] = "sent" => <<r[1], r[2]>> \in delivered'))
      BY <1>2, <1>3, <2>1, <2>2, <2>3
    <2>6. QED  BY <1>1, <1>2, <1>4, <1>7, <2>1, <2>4, <2>5, GoroutineStep
  <1>15. QED
    BY <1>8, <1>9, <1>10, <1>11, <1>12, <1>13, <1>14 DEF JobStep

(* A restart accounts for all that the private path was at work on.        *)
LEMMA RestartStep == ASSUME IInv, Restart PROVE IInv'
  <1>1. /\ D!Restart /\ PollIdle /\ polled' = {}
        /\ excused' = excused \cup ({pollMsg} \cap Incoming)
                              \cup {m \in Incoming : RunningJob(<<"poll", m>>)}
        /\ evpc' = [m \in DOMAIN evpc |-> "done"]
        /\ job' = [j \in DOMAIN job |-> [job[j] EXCEPT !.at = "ended"]]
        /\ UNCHANGED <<replaced, config, firstBy, delivered, logs>>
    BY DEF Restart
  <1>2. DP!Next  BY <1>1 DEF D!Restart, DP!Next, DP!Restart
  <1>3. DP!IInv'  BY <1>2, DebounceMoves
  <1>4. /\ lost' = lost \cup {pending[k] : k \in {h \in Keys : pending[h] # NoMsg}}
        /\ UNCHANGED scheduled
    BY <1>1 DEF D!Restart
  <1>5. RowsStay /\ Stored' = Stored /\ UNCHANGED <<sent, authorized, selected>>
    BY <1>1 DEF RowsStay, Stored, config
  <1>6. DOMAIN evpc' = DOMAIN evpc /\ \A m \in DOMAIN evpc : evpc'[m] = "done"
    BY <1>1
  <1>7. /\ DOMAIN job' = DOMAIN job
        /\ \A j \in DOMAIN job : /\ job'[j] \in JobRows /\ job'[j].at = "ended"
                                 /\ job'[j].as = job[j].as
    <2>1. SUFFICES ASSUME NEW j \in DOMAIN job
                   PROVE  job'[j] \in JobRows /\ job'[j].at = "ended" /\ job'[j].as = job[j].as
      BY <1>1
    <2> DEFINE w == [job[j] EXCEPT !.at = "ended"]
    <2>2. job[j] \in JobRows  BY Facts DEF JobTypes
    <2>3. w \in JobRows /\ w.at = "ended" /\ w.as = job[j].as  BY <2>2 DEF JobRows
    <2>4. job'[j] = w  BY <1>1
    <2> HIDE DEF w
    <2>5. QED  BY <2>3, <2>4
  <1>8. ConfigTypes' /\ RowTypes'
    BY <1>1, <1>5, <1>6, Facts DEF ConfigTypes, RowTypes
  <1>9. PollTypes' /\ Polling'  BY <1>1 DEF PollIdle, PollTypes, Polling
  <1>10. JobTypes'  BY <1>1, <1>7, Facts DEF JobTypes
  <1>11. Rows'  BY <1>4, <1>5, <1>6, RowsKept
  <1>12. JobsOK'
    <2>1. SUFFICES ASSUME NEW j \in DOMAIN job PROVE JobOK(j)'
      BY <1>7 DEF JobsOK
    <2>2. JobOK(j)  BY Facts DEF JobsOK
    <2>3. MayWrite(j)' = MayWrite(j)  BY <1>7 DEF MayWrite, AttrOf
    <2>4. QED  BY <1>1, <1>4, <1>5, <1>6, <1>7, <2>2, <2>3 DEF JobOK
  <1>13. LogsTruthful'  BY <1>1, <1>5, LogsKept
  <1>14. SilenceHasReason'
    <2>1. \A n \in Incoming : ~Settled(n) => Reason(n)'
      <3>1. SUFFICES ASSUME NEW n \in Incoming, ~Settled(n) PROVE n \in excused' \cup lost'
        BY DEF Reason
      <3>2. CASE pollMsg = n  BY <1>1, <3>2
      <3>3. CASE RunningJob(<<"poll", n>>)  BY <1>1, <3>3
      <3>4. CASE \E k \in Keys : pending[k] = n
        <4>1. n # NoMsg  BY DebounceAssumption, Facts
        <4>2. QED  BY <1>4, <3>4, <4>1
      <3>5. QED  BY <3>1, <3>2, <3>3, <3>4 DEF Settled
    <2>2. QED  BY <1>1, <1>4, <1>5, <2>1, SilenceKept DEF Owed
  <1>15. QED
    BY <1>3, <1>8, <1>9, <1>10, <1>11, <1>12, <1>13, <1>14, TypeOfParts DEF IInv

LEMMA InitIInv == Init => IInv
  <1> SUFFICES ASSUME Init PROVE IInv
    OBVIOUS
  <1>1. DP!IInv
    <2>1. DP!Init  BY DEF Init, D!Init, DP!Init
    <2>2. QED  BY <2>1, DP!InitIInv, DebounceAssumption
  <1>2. /\ scheduled = {} /\ lost = {} /\ \A k \in Keys : pending[k] = NoMsg
        /\ firstBy = << >> /\ evpc = << >> /\ job = << >> /\ delivered = {} /\ logs = {}
        /\ replaced = {} /\ excused = {} /\ polled = {} /\ pollMsg = NoMsg /\ pollPc = "idle"
        /\ authorized = FALSE /\ selected = {} /\ sent \in Scenarios
    BY DEF Init, D!Init
  <1>3. Stored = {} /\ DOMAIN evpc = {} /\ DOMAIN job = {}  BY <1>2 DEF Stored
  <1>4. D!TypeOK  BY <1>1 DEF DP!IInv, DP!TypeOK, D!TypeOK
  <1>5. ConfigTypes /\ RowTypes /\ PollTypes /\ JobTypes
    BY <1>2, <1>3, MessagesAssumption DEF ConfigTypes, RowTypes, PollTypes, JobTypes
  <1>6. TypeOK  BY <1>4, <1>5, TypeParts
  <1>7. Rows /\ Polling /\ JobsOK /\ LogsTruthful
    BY <1>2, <1>3 DEF Rows, Polling, JobsOK, LogsTruthful
  <1>8. SilenceHasReason  BY <1>3 DEF SilenceHasReason
  <1>9. QED  BY <1>1, <1>6, <1>7, <1>8 DEF IInv

-----------------------------------------------------------------------------
(* The theorems *)

LEMMA NextIInv == ASSUME IInv, Next PROVE IInv'
  <1>1. CASE Login \/ Select \/ PollStart \/ PollCheck \/ PollCheckFails \/ PollSchedule \/ Restart
    BY <1>1, LoginStep, SelectStep, PollStartStep, PollCheckStep, PollCheckFailsStep,
       PollScheduleStep, RestartStep
  <1>2. ASSUME NEW m \in Msgs,
               EventSave(m) \/ EventSaveFails(m) \/ HandleMessage(m) \/ DecisionFails(m)
        PROVE  IInv'
    BY <1>2, EventSaveStep, EventSaveFailsStep, HandleMessageStep, DecisionFailsStep
  <1>3. ASSUME NEW m \in Msgs, PollNew(m) \/ PollSaveFails(m) \/ HistorySave(m) PROVE IInv'
    BY <1>3, PollNewStep, PollSaveFailsStep, HistorySaveStep
  <1>4. ASSUME NEW t \in Timers, Expire(t) PROVE IInv'  BY <1>4, ExpireStep
  <1>5. ASSUME NEW f \in flushers, Flush(f) PROVE IInv'  BY <1>5, FlushStep
  <1>6. ASSUME NEW j \in DOMAIN job, JobStep(j), UNCHANGED Environment PROVE IInv'
    BY <1>6, JobStepStep
  <1>7. QED  BY <1>1, <1>2, <1>3, <1>4, <1>5, <1>6 DEF Next

LEMMA StutterIInv == ASSUME IInv, UNCHANGED vars PROVE IInv'
  <1>1. UNCHANGED <<debounce, sent, firstBy, evpc, poller, jobs, excused, authorized, selected>>
    BY DEF vars, config
  <1>2. authorized \in BOOLEAN /\ selected \subseteq ContactChats  BY Facts DEF ConfigTypes
  <1>3. QED  BY <1>1, <1>2, ConfigStep

(* IInv is an inductive invariant of the auto-reply.                       *)
THEOREM AutoReplyInvariant == Spec => []IInv
  <1>1. IInv /\ [Next]_vars => IInv'  BY NextIInv, StutterIInv
  <1>2. QED  BY <1>1, InitIInv, PTL DEF Spec

(* Every variable keeps its type: replies start for messages people sent,  *)
(* and only started replies are delivered.                                 *)
THEOREM TypeCorrect == Spec => []TypeOK
  <1>1. IInv => TypeOK  BY DEF IInv
  <1>2. QED  BY <1>1, AutoReplyInvariant, PTL

(* Nothing the assistant sent, as the account or as the bot, starts a      *)
(* reply, by whatever path it comes back.                                  *)
THEOREM NoLoop == Spec => []NeverAnswersItself
  <1>1. IInv => NeverAnswersItself
    <2>1. SUFFICES ASSUME IInv, NEW m \in Msgs \ Incoming
                   PROVE  m \notin scheduled /\ \A p \in Paths : <<p, m>> \notin DOMAIN job
      BY DEF NeverAnswersItself
    <2>2. m \notin scheduled  BY <2>1, Facts DEF Rows
    <2>3. ASSUME NEW p \in Paths, <<p, m>> \in DOMAIN job PROVE FALSE
      BY <2>1, <2>3, Facts DEF JobsOK, JobOK
    <2>4. QED  BY <2>2, <2>3
  <1>2. QED  BY <1>1, AutoReplyInvariant, PTL

(* The debounce gets a message once, and only if the poller inserted its   *)
(* row.                                                                    *)
THEOREM OnlyFirstWriter == Spec => []FirstWriterAnswers
  <1>1. IInv => FirstWriterAnswers
    <2>1. SUFFICES ASSUME IInv
                   PROVE  /\ \A m \in scheduled : firstBy[m] = "poll"
                          /\ pollPc = "schedule" => pollMsg \notin scheduled
      BY DEF FirstWriterAnswers
    <2>2. pollPc = "schedule" => pollMsg # NoMsg  BY <2>1, Facts DEF PollTypes
    <2>3. QED  BY <2>1, <2>2, Facts DEF Rows, Polling
  <1>2. QED  BY <1>1, AutoReplyInvariant, PTL

(* reply_logs speaks of stored messages, and "sent" means delivered.       *)
THEOREM LogsAreTruthful == Spec => []LogsTruthful
  <1>1. IInv => LogsTruthful  BY DEF IInv
  <1>2. QED  BY <1>1, AutoReplyInvariant, PTL

(* No interleaving of the two paths, the timers and the restarts drops a   *)
(* contact's message the poller stored.                                    *)
THEOREM NoSilentDrop == Spec => []SilenceHasReason
  <1>1. IInv => SilenceHasReason  BY DEF IInv
  <1>2. QED  BY <1>1, AutoReplyInvariant, PTL

(* The auto-reply uses the debounce as P2PDebounce says it is used: each   *)
(* of its steps is a step of that specification, or leaves it alone.       *)
THEOREM DebounceEmbedded == Spec => D!Spec
  <1>1. Init => D!Init  BY DEF Init
  <1>2. IInv /\ [Next]_vars => [D!Next]_D!vars
    <2>1. SUFFICES ASSUME IInv, [Next]_vars PROVE D!Next \/ UNCHANGED D!vars
      OBVIOUS
    <2> USE DEF debounce, D!vars
    <2>2. CASE Login \/ Select \/ PollStart \/ PollCheck \/ PollCheckFails
      BY <2>2 DEF Login, Select, PollStart, PollCheck, PollCheckFails
    <2>3. CASE PollSchedule
      <3>1. pollMsg \in Msgs  BY <2>1, <2>3, Facts DEF PollSchedule, PollTypes
      <3>2. QED  BY <2>3, <3>1 DEF PollSchedule, D!Next
    <2>4. CASE Restart  BY <2>4 DEF Restart, D!Next
    <2>5. ASSUME NEW m \in Msgs,
                 EventSave(m) \/ EventSaveFails(m) \/ HandleMessage(m) \/ DecisionFails(m)
          PROVE  UNCHANGED D!vars
      BY <2>5 DEF EventSave, EventSaveFails, HandleMessage, DecisionFails
    <2>6. ASSUME NEW m \in Msgs, PollNew(m) \/ PollSaveFails(m) \/ HistorySave(m)
          PROVE  UNCHANGED D!vars
      BY <2>6 DEF PollNew, PollSaveFails, HistorySave
    <2>7. ASSUME NEW t \in Timers, Expire(t) PROVE D!Next
      BY <2>7 DEF Expire, D!Next
    <2>8. ASSUME NEW f \in flushers, Flush(f) PROVE D!Next
      BY <2>8 DEF Flush, D!Next
    <2>9. CASE UNCHANGED Environment  BY <2>9 DEF Environment
    <2>10. CASE UNCHANGED vars  BY <2>10 DEF vars
    <2>11. QED
      BY <2>1, <2>2, <2>3, <2>4, <2>5, <2>6, <2>7, <2>8, <2>9, <2>10 DEF Next
  <1>3. QED  BY <1>1, <1>2, AutoReplyInvariant, PTL DEF Spec, D!Spec

=============================================================================
