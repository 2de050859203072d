---------------------------- MODULE HistorySync ----------------------------
(***************************************************************************)
(* The history sync, internal/syncer/history.go, as its two callers run    *)
(* it: HourlySync.run (internal/scheduler/hourly_sync.go), which then      *)
(* builds the index and sends a notice, and the handler of POST            *)
(* /sync/history.  Both may be at work at once, and share sync_jobs,       *)
(* messages and the contacts' chat ids.                                    *)
(*                                                                         *)
(* A run has one context, which its deadline or its caller may end at any  *)
(* moment: from then on every call of the run fails, the UPDATE that would *)
(* have settled its job included.  A call may also fail by itself, before  *)
(* or after it took effect.                                                *)
(*                                                                         *)
(* The hourly run's BuildIndex is one step here, and the only build: what  *)
(* it reads and has written when it returns.  What other builds, of POST   *)
(* /index or of a later hour, then make of the index is KnowledgeIndex.    *)
(***************************************************************************)
EXTENDS Naturals, Sequences, FiniteSets

CONSTANTS
  Chats,       \* group chats
  Contacts,    \* contacts
  Rooms,       \* chat ids on the platform
  NoRoom,      \* feishu_chat_id ""
  RoomOf,      \* RoomOf[c], c a chat: its id
  Matches,     \* Matches[c], c a contact: the id matchP2PChat finds, or NoRoom
  ItemsOf,     \* ItemsOf[room]: messages ListHistoryMessages returns for it
  WithText,    \* messages whose content_text is not blank
  Aging,       \* messages so old that they may leave the window of `days`
  Hourly,      \* the run of the scheduler
  Requests,    \* the runs of HTTP requests
  NoSource,
  Scenarios,   \* .selected: the selected sources; .starts[r]: how often run r may start
  MaxCrashes   \* bound on crashes of the server

Sources == Chats \cup Contacts
Msgs == UNION {ItemsOf[room] : room \in Rooms}
Runs == {Hourly} \cup Requests

ASSUME SourcesAssumption == Chats \cap Contacts = {} /\ NoSource \notin Sources
ASSUME RoomsAssumption ==
  /\ NoRoom \notin Rooms
  /\ RoomOf \in [Chats -> Rooms] /\ Matches \in [Contacts -> Rooms \cup {NoRoom}]
  /\ DOMAIN ItemsOf = Rooms
ASSUME RunsAssumption == Hourly \notin Requests
ASSUME LimitsAssumption == Scenarios \subseteq [selected : SUBSET Sources, starts : [Runs -> Nat]]
                            /\ MaxCrashes \in Nat

VARIABLES
  run,       \* run[r]: the locals of run r; .pc is the call it is about to make
  jobs,      \* rows of sync_jobs, by id
  messages,  \* rows of messages
  roomIn,    \* roomIn[c]: feishu_chat_id of contact c
  running,   \* HourlySync.isRunning
  indexed,   \* messages in the units that the last BuildIndex has written
  notices,   \* notices sent: <<status, the messages they count, indexed by then>>
  cut,       \* <<job, cause>>: what left a job running (see Causes)
  selected,  \* enabled chats and selected contacts
  starts,    \* starts[r]: how often run r may still start
  crashes,
  outdated   \* messages sent more than `days` ago

bounds == <<selected, starts, crashes, outdated>>
vars == <<run, jobs, messages, roomIn, running, indexed, notices, cut, bounds>>

\* Job ids start at 1.
NoJob == 0

NotRunning ==
  [pc |-> "idle",
   dead |-> FALSE,          \* its context has ended
   phase |-> "chats",       \* the list it is working through
   todo |-> {},             \* the sources of that list still to come
   addr |-> [c \in Contacts |-> NoRoom],  \* chat ids in its copy of the contacts
   source |-> NoSource, job |-> NoJob,    \* what syncChat works on
   left |-> {}, saved |-> {},             \* its items, and those already saved
   synced |-> {}, failed |-> {}, skipped |-> {},  \* the result so far
   counted |-> {}]          \* the messages that SavedMessages counts

Init ==
  /\ run = [r \in Runs |-> NotRunning]
  /\ jobs = << >>
  /\ messages = {}
  /\ roomIn = [c \in Contacts |-> NoRoom]
  /\ running = FALSE
  /\ indexed = {}
  /\ notices = {}
  /\ cut = {}
  /\ \E s \in Scenarios : selected = s.selected /\ starts = s.starts
  /\ crashes = 0
  /\ outdated = {}

At(r, label) == run[r].pc = label

\* Only while its context lives can a call of r succeed.
Succeeds(r, label) == At(r, label) /\ ~run[r].dead

Goto(r, label) == run' = [run EXCEPT ![r].pc = label]

\* r returns: its deferred unlock and cancel are executed.
Return(r) ==
  /\ run' = [run EXCEPT ![r] = NotRunning]
  /\ running' = (running /\ r # Hourly)

-----------------------------------------------------------------------------
(* The callers: HourlySync.Start and run, POST /sync/history *)

\* The ticker fires and tryLock succeeds.
Tick ==
  /\ At(Hourly, "idle")
  /\ ~running
  /\ starts[Hourly] > 0
  /\ running' = TRUE
  /\ Goto(Hourly, "session")
  /\ starts' = [starts EXCEPT ![Hourly] = @ - 1]
  /\ UNCHANGED <<jobs, messages, roomIn, indexed, notices, cut, selected, crashes, outdated>>

Request(r) ==
  /\ r \in Requests
  /\ At(r, "idle")
  /\ starts[r] > 0
  /\ Goto(r, "list")
  /\ starts' = [starts EXCEPT ![r] = @ - 1]
  /\ UNCHANGED <<jobs, messages, roomIn, running, indexed, notices, cut, selected, crashes, outdated>>

SessionLoaded ==
  /\ Succeeds(Hourly, "session")
  /\ Goto(Hourly, "list")
  /\ UNCHANGED <<jobs, messages, roomIn, running, indexed, notices, cut, bounds>>

\* Mutant: no defer, and the early return forgets the unlock.
SessionMissingKeepsLock ==
  /\ At(Hourly, "session")
  /\ run' = [run EXCEPT ![Hourly] = NotRunning]
  /\ UNCHANGED <<jobs, messages, roomIn, running, indexed, notices, cut, bounds>>

\* No session, or it cannot be read: nothing is synced and nobody is told.
SessionMissing ==
  /\ At(Hourly, "session")
  /\ Return(Hourly)
  /\ UNCHANGED <<jobs, messages, roomIn, indexed, notices, cut, bounds>>

\* Messages of the window that have a text, of those in the table.
Current == WithText \ outdated
Readable == messages \cap Current

\* BuildIndex reads the table and writes a unit for each chat and day of it.
IndexBuilt ==
  /\ Succeeds(Hourly, "index")
  /\ indexed' = Readable
  /\ Goto(Hourly, "notifyDone")
  /\ UNCHANGED <<jobs, messages, roomIn, running, notices, cut, bounds>>

\* Mutant: indexErr is left out of the status.
IndexFailsUnnoticed ==
  /\ At(Hourly, "index")
  /\ indexed' \in SUBSET Readable
  /\ Goto(Hourly, "notifyDone")
  /\ UNCHANGED <<jobs, messages, roomIn, running, notices, cut, bounds>>

\* It stops at the unit it could not save or embed.
IndexFails ==
  /\ At(Hourly, "index")
  /\ indexed' \in IF run[Hourly].dead THEN {{}} ELSE SUBSET Readable
  /\ Goto(Hourly, "notifyFailed")
  /\ UNCHANGED <<jobs, messages, roomIn, running, notices, cut, bounds>>

NotifyPc == [Done |-> "notifyDone", Failed |-> "notifyFailed"]

\* The notice counts the messages of the result; its error is only logged.
Notify ==
  \E status \in {"Done", "Failed"} :
    /\ At(Hourly, NotifyPc[status])
    /\ notices' \in {notices} \cup
         IF run[Hourly].dead THEN {} ELSE {notices \cup {<<status, run[Hourly].counted, indexed>>}}
    /\ Return(Hourly)
    /\ UNCHANGED <<jobs, messages, roomIn, indexed, cut, bounds>>

-----------------------------------------------------------------------------
(* SyncSelectedHistory *)

\* The token is loaded, and the selected chats are listed.
ChatsListed(r) ==
  /\ Succeeds(r, "list")
  /\ run' = [run EXCEPT ![r].pc = "loop", ![r].todo = Chats \cap selected]
  /\ UNCHANGED <<jobs, messages, roomIn, running, indexed, notices, cut, bounds>>

LoopEnds(r, phase) == At(r, "loop") /\ run[r].todo = {} /\ run[r].phase = phase

\* r goes on with its own copy of the contacts.
ContactsListed(r) ==
  /\ LoopEnds(r, "chats")
  /\ ~run[r].dead
  /\ run' = [run EXCEPT ![r].pc = IF Contacts \cap selected = {} THEN "loop" ELSE "resolve",
                        ![r].phase = "contacts", ![r].todo = Contacts \cap selected,
                        ![r].addr = roomIn]
  /\ UNCHANGED <<jobs, messages, roomIn, running, indexed, notices, cut, bounds>>

\* The token or a list cannot be read: Result{} and the error.
ListFails(r) ==
  /\ At(r, "list") \/ LoopEnds(r, "chats")
  /\ IF r = Hourly
       THEN /\ run' = [run EXCEPT ![r].pc = "notifyFailed", ![r].counted = {}]
            /\ UNCHANGED running
       ELSE Return(r)
  /\ UNCHANGED <<jobs, messages, roomIn, indexed, notices, cut, bounds>>

\* resolveP2PChatIDs: the copy gets the ids it lacks, and each is saved for
\* its contact, which may fail unnoticed.
Resolve(r) ==
  LET found == {c \in Contacts \cap selected : run[r].addr[c] = NoRoom /\ Matches[c] # NoRoom} IN
  /\ Succeeds(r, "resolve")
  /\ run' = [run EXCEPT ![r].pc = "loop",
                        ![r].addr = [c \in Contacts |-> IF c \in found THEN Matches[c] ELSE run[r].addr[c]]]
  /\ \E kept \in SUBSET found :
       roomIn' = [c \in Contacts |-> IF c \in kept THEN Matches[c] ELSE roomIn[c]]
  /\ UNCHANGED <<jobs, messages, running, indexed, notices, cut, bounds>>

\* The private chats cannot be listed: the copy stays as it is.
ResolveFails(r) ==
  /\ At(r, "resolve")
  /\ Goto(r, "loop")
  /\ UNCHANGED <<jobs, messages, roomIn, running, indexed, notices, cut, bounds>>

RoomFor(r, s) == IF s \in Chats THEN RoomOf[s] ELSE run[r].addr[s]

\* Mutant: `continue` without an entry in SkippedContacts.
SkipSilently(r) ==
  /\ At(r, "loop")
  /\ \E s \in run[r].todo :
       /\ RoomFor(r, s) = NoRoom
       /\ run' = [run EXCEPT ![r].todo = @ \ {s}]
  /\ UNCHANGED <<jobs, messages, roomIn, running, indexed, notices, cut, bounds>>

\* A contact whose chat is unknown is reported as skipped.
Skip(r) ==
  /\ At(r, "loop")
  /\ \E s \in run[r].todo :
       /\ RoomFor(r, s) = NoRoom
       /\ run' = [run EXCEPT ![r].todo = @ \ {s}, ![r].skipped = @ \cup {s}]
  /\ UNCHANGED <<jobs, messages, roomIn, running, indexed, notices, cut, bounds>>

ContactsDone(r) ==
  /\ LoopEnds(r, "contacts")
  /\ IF r = Hourly THEN Goto(r, "index") /\ UNCHANGED running ELSE Return(r)
  /\ UNCHANGED <<jobs, messages, roomIn, indexed, notices, cut, bounds>>

-----------------------------------------------------------------------------
(* syncChat *)

\* syncChat returns with an error, or its source is counted.
Left(r) ==
  [run[r] EXCEPT !.pc = "loop", !.source = NoSource, !.job = NoJob, !.left = {}, !.saved = {}]
SourceFails(r) ==
  LET failed == run[r].failed \cup {run[r].source} IN
  run' = [run EXCEPT ![r] = [Left(r) EXCEPT !.failed = failed]]
SourceSynced(r) ==
  LET synced == run[r].synced \cup {run[r].source}
      counted == run[r].counted \cup run[r].saved IN
  run' = [run EXCEPT ![r] = [Left(r) EXCEPT !.synced = synced, !.counted = counted]]

NewRow(r, s) == [source |-> s, status |-> "running", by |-> r, count |-> 0]

\* Sources of the list whose chat is known.
Known(r) == {s \in run[r].todo : RoomFor(r, s) # NoRoom}

CreateJob(r) ==
  /\ Succeeds(r, "loop")
  /\ \E s \in Known(r) :
       /\ jobs' = Append(jobs, NewRow(r, s))
       /\ run' = [run EXCEPT ![r].pc = "fetch", ![r].todo = @ \ {s}, ![r].source = s,
                             ![r].job = Len(jobs) + 1]
  /\ UNCHANGED <<messages, roomIn, running, indexed, notices, cut, bounds>>

\* The INSERT fails, before or after the row is there.
CreateJobFails(r) ==
  /\ At(r, "loop")
  /\ \E s \in Known(r) :
       /\ run' = [run EXCEPT ![r].todo = @ \ {s}, ![r].failed = @ \cup {s}]
       /\ \/ UNCHANGED <<jobs, cut>>
          \/ /\ ~run[r].dead
             /\ jobs' = Append(jobs, NewRow(r, s))
             /\ cut' = cut \cup {<<Len(jobs) + 1, "insert">>}
  /\ UNCHANGED <<messages, roomIn, running, indexed, notices, bounds>>

Fetch(r) ==
  /\ Succeeds(r, "fetch")
  /\ run' = [run EXCEPT ![r].pc = "save", ![r].left = ItemsOf[RoomFor(r, run[r].source)]]
  /\ UNCHANGED <<jobs, messages, roomIn, running, indexed, notices, cut, bounds>>

\* Mutant: the early return leaves out finishJob.
FetchFailsUnsettled(r) ==
  /\ At(r, "fetch")
  /\ SourceFails(r)
  /\ UNCHANGED <<jobs, messages, roomIn, running, indexed, notices, cut, bounds>>

FetchFails(r) ==
  /\ At(r, "fetch")
  /\ Goto(r, "fail")
  /\ UNCHANGED <<jobs, messages, roomIn, running, indexed, notices, cut, bounds>>

Save(r) ==
  /\ Succeeds(r, "save")
  /\ \E m \in run[r].left :
       /\ messages' = messages \cup {m}
       /\ run' = [run EXCEPT ![r].left = @ \ {m}, ![r].saved = @ \cup {m}]
  /\ UNCHANGED <<jobs, roomIn, running, indexed, notices, cut, bounds>>

\* Mutant: `continue` in place of the return.
SaveFailsContinues(r) ==
  /\ At(r, "save")
  /\ \E m \in run[r].left :
       run' = [run EXCEPT ![r].left = @ \ {m}, ![r].saved = @ \cup {m}]
  /\ UNCHANGED <<jobs, messages, roomIn, running, indexed, notices, cut, bounds>>

\* Mutant: the item is tried again, whatever the error.
SaveFailsRetries(r) ==
  /\ At(r, "save")
  /\ run[r].left # {}
  /\ UNCHANGED vars

\* The upsert fails, before or after it took effect.
SaveFails(r) ==
  /\ At(r, "save")
  /\ \E m \in run[r].left :
       messages' \in {messages} \cup IF run[r].dead THEN {} ELSE {messages \cup {m}}
  /\ Goto(r, "fail")
  /\ UNCHANGED <<jobs, roomIn, running, indexed, notices, cut, bounds>>

\* Mutant: any other status than 'failed' is written as 'done'.
SettledDone(r, status) ==
  [jobs EXCEPT ![run[r].job].status = IF status = "failed" THEN status ELSE "done",
               ![run[r].job].count = Cardinality(run[r].saved)]

Settled(r, status) ==
  [jobs EXCEPT ![run[r].job].status = status, ![run[r].job].count = Cardinality(run[r].saved)]

\* All items are saved: finishJob("finished").  The total counted before it is
\* only shown.
Finish(r) ==
  /\ Succeeds(r, "save")
  /\ run[r].left = {}
  /\ jobs' = Settled(r, "finished")
  /\ SourceSynced(r)
  /\ UNCHANGED <<messages, roomIn, running, indexed, notices, cut, bounds>>

\* finishJob("failed").
Fail(r) ==
  /\ Succeeds(r, "fail")
  /\ jobs' = Settled(r, "failed")
  /\ SourceFails(r)
  /\ UNCHANGED <<messages, roomIn, running, indexed, notices, cut, bounds>>

\* The UPDATE fails, before or after it took effect.
FinishFails(r) ==
  /\ At(r, "fail") \/ (At(r, "save") /\ run[r].left = {})
  /\ \/ cut' = cut \cup {<<run[r].job, IF run[r].dead THEN "context" ELSE "update">>}
        /\ UNCHANGED jobs
     \/ ~run[r].dead /\ jobs' = Settled(r, IF At(r, "fail") THEN "failed" ELSE "finished")
        /\ UNCHANGED cut
  /\ SourceFails(r)
  /\ UNCHANGED <<messages, roomIn, running, indexed, notices, bounds>>

-----------------------------------------------------------------------------
(* What else happens *)

\* The deadline passes, the client goes away, or the server shuts down.
Expire(r) ==
  /\ ~At(r, "idle")
  /\ ~run[r].dead
  /\ run' = [run EXCEPT ![r].dead = TRUE]
  /\ UNCHANGED <<jobs, messages, roomIn, running, indexed, notices, cut, bounds>>

\* Time passes: m is older than `days` now.
Age(m) ==
  /\ m \notin outdated
  /\ outdated' = outdated \cup {m}
  /\ UNCHANGED <<run, jobs, messages, roomIn, running, indexed, notices, cut, selected, starts, crashes>>

Crash ==
  /\ crashes < MaxCrashes
  /\ crashes' = crashes + 1
  /\ cut' = cut \cup {<<run[r].job, "crash">> : r \in {q \in Runs : run[q].job # NoJob}}
  /\ run' = [r \in Runs |-> NotRunning]
  /\ running' = FALSE
  /\ UNCHANGED <<jobs, messages, roomIn, indexed, notices, selected, starts, outdated>>

\* A step of r's own code.
Step(r) ==
  \/ ChatsListed(r) \/ ContactsListed(r) \/ ListFails(r)
  \/ Resolve(r) \/ ResolveFails(r) \/ Skip(r) \/ ContactsDone(r)
  \/ CreateJob(r) \/ CreateJobFails(r) \/ Fetch(r) \/ FetchFails(r)
  \/ Save(r) \/ SaveFails(r) \/ Finish(r) \/ Fail(r) \/ FinishFails(r)

HourlyStep == SessionLoaded \/ SessionMissing \/ IndexBuilt \/ IndexFails \/ Notify

Next ==
  \/ Tick \/ HourlyStep
  \/ \E r \in Requests : Request(r)
  \/ \E r \in Runs : Step(r) \/ Expire(r)
  \/ \E m \in Aging : Age(m)
  \/ Crash

Spec == Init /\ [][Next]_vars

\* A started run goes on: each call returns, its context's deadline at the
\* latest.  Nobody is obliged to start a run, to end it or to crash.
Fairness == WF_vars(HourlyStep) /\ WF_vars(Step(Hourly))

FairSpec == Spec /\ Fairness

-----------------------------------------------------------------------------
(* Properties *)

Pcs == {"idle", "session", "list", "resolve", "loop", "fetch", "save", "fail", "index",
        "notifyDone", "notifyFailed"}

\* Why a job may stay "running": the INSERT or the UPDATE of its row failed, the
\* UPDATE came after the end of its context, or the server crashed.
Causes == {"insert", "update", "context", "crash"}

Locals ==
  [pc : Pcs, dead : BOOLEAN, phase : {"chats", "contacts"},
   todo : SUBSET Sources, addr : [Contacts -> Rooms \cup {NoRoom}],
   source : Sources \cup {NoSource}, job : Nat, left : SUBSET Msgs, saved : SUBSET Msgs,
   synced : SUBSET Sources, failed : SUBSET Sources, skipped : SUBSET Sources,
   counted : SUBSET Msgs]

JobRows ==
  [source : Sources, status : {"running", "finished", "failed"}, by : Runs, count : Nat]

TypeOK ==
  /\ run \in [Runs -> Locals] /\ \A r \in Runs : run[r].job \in 0..Len(jobs)
  /\ jobs \in Seq(JobRows)
  /\ messages \subseteq Msgs /\ indexed \subseteq messages
  /\ roomIn \in [Contacts -> Rooms \cup {NoRoom}]
  /\ running \in BOOLEAN
  /\ notices \subseteq {"Done", "Failed"} \X (SUBSET Msgs) \X (SUBSET Msgs)
  /\ cut \subseteq (DOMAIN jobs) \X Causes
  /\ selected \subseteq Sources /\ starts \in [Runs -> Nat] /\ crashes \in 0..MaxCrashes
  /\ outdated \subseteq Aging

(* A job is "running" in sync_jobs only while a run works on it, unless    *)
(* one of the job's own writes failed or the run crashed: no path through  *)
(* syncChat leaves without settling the row.                               *)
RunningJobIsWorkedOn ==
  \A i \in DOMAIN jobs :
    jobs[i].status = "running" =>
      \/ \E r \in Runs : run[r].job = i
      \/ \E cause \in Causes : <<i, cause>> \in cut

(* What a run reports is what sync_jobs and messages hold: each source it  *)
(* counts has a finished job of that run, and each message it counts is    *)
(* stored, whatever the other run, its deadline and failed calls do.       *)
ReportIsBacked ==
  \A r \in Runs :
    /\ \A s \in run[r].synced :
         \E i \in DOMAIN jobs : jobs[i].source = s /\ jobs[i].by = r /\ jobs[i].status = "finished"
    /\ run[r].counted \subseteq messages

(* A source is reported once: as synced, as failed or as skipped; when the *)
(* run leaves the loop for good, each selected source is.                  *)
EverySourceReported ==
  \A r \in Runs :
    LET seen == <<run[r].synced, run[r].failed, run[r].skipped, run[r].todo>> IN
    /\ \A i, j \in 1..4 : i # j => seen[i] \cap seen[j] = {}
    /\ run[r].pc = "index" => run[r].synced \cup run[r].failed \cup run[r].skipped = selected

(* A notice that says the hourly sync is complete is right about the       *)
(* index: the build before it has written every message the notice counts, *)
(* but those without a text and those that have left the window meanwhile, *)
(* whatever failed in the sync or broke off the build.                     *)
DoneNoticeIsIndexed ==
  \A n \in notices : n[1] = "Done" => n[2] \cap Current \subseteq n[3]

(* isRunning never outlives the run: else no hourly sync would start again *)
(* until the server restarts.                                              *)
LockIsHeldByRun == running = ~At(Hourly, "idle")

(* An hourly run comes to its end, whatever fails on its way.              *)
HourlyEnds == ~At(Hourly, "idle") ~> At(Hourly, "idle")

=============================================================================
