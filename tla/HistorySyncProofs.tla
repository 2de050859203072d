------------------------- MODULE HistorySyncProofs -------------------------
(***************************************************************************)
(* Theorems about HistorySync for every set of sources, rooms and          *)
(* messages, every scenario, and any number of requests and crashes.       *)
(***************************************************************************)
EXTENDS HistorySync, FiniteSetTheorems, TLAPS

-----------------------------------------------------------------------------
(* The inductive invariant *)

\* A run is in syncChat.
Working(r) == run[r].pc \in {"fetch", "save", "fail"}

Reported(r) == run[r].synced \cup run[r].failed \cup run[r].skipped

\* Which locals mean something where.
Shape(r) ==
  /\ run[r].pc \in {"session", "index", "notifyDone", "notifyFailed"} => r = Hourly
  /\ Working(r) <=> run[r].job # NoJob
  /\ run[r].pc = "resolve" => run[r].phase = "contacts"
  /\ run[r].pc \notin {"save", "fail"} => run[r].saved = {}
  /\ run[r].pc \in {"idle", "session", "list"} =>
       /\ run[r].phase = "chats" /\ run[r].todo = {} /\ Reported(r) = {} /\ run[r].counted = {}

\* syncChat works on a row of its own, for a source that has a room.
OwnRow(r) ==
  Working(r) =>
    /\ run[r].source \in Sources
    /\ jobs[run[r].job].source = run[r].source
    /\ jobs[run[r].job].by = r
    /\ jobs[run[r].job].status = "running"
    /\ RoomFor(r, run[r].source) # NoRoom

\* What was saved, and what is counted, is in the table.
Items(r) ==
  /\ IsFiniteSet(run[r].saved)
  /\ run[r].saved \subseteq messages
  /\ run[r].counted \subseteq messages

Backed(r) ==
  \A s \in run[r].synced :
    \E i \in DOMAIN jobs : jobs[i].source = s /\ jobs[i].by = r /\ jobs[i].status = "finished"

\* A source is in one place at a time.
OnePlace(r) ==
  /\ run[r].synced \cap run[r].failed = {}
  /\ run[r].synced \cap run[r].skipped = {}
  /\ run[r].failed \cap run[r].skipped = {}
  /\ Reported(r) \cap run[r].todo = {}
  /\ Working(r) => run[r].source \notin Reported(r) \cup run[r].todo

\* The sources r has dealt with, deals with, or is still to deal with.
Dealt(r) ==
  Reported(r) \cup run[r].todo \cup {s \in {run[r].source} : Working(r)}

\* No source of the lists read so far is lost on the way.
NoneLost(r) ==
  /\ Working(r) \/ run[r].pc \in {"loop", "resolve"} =>
       Dealt(r) = IF run[r].phase = "chats" THEN Chats \cap selected ELSE selected
  /\ run[r].pc = "index" => Reported(r) = selected

\* The status of a notice is settled before it is sent.
Indexed(r) == run[r].pc = "notifyDone" => run[r].counted \cap Current \subseteq indexed

RunInv(r) ==
  Shape(r) /\ OwnRow(r) /\ Items(r) /\ Backed(r) /\ OnePlace(r) /\ NoneLost(r) /\ Indexed(r)

IInv ==
  /\ TypeOK
  /\ \A r \in Runs : RunInv(r)
  /\ RunningJobIsWorkedOn
  /\ DoneNoticeIsIndexed
  /\ LockIsHeldByRun

-----------------------------------------------------------------------------
(* The initial states, and what a step of one run leaves to the others *)

LEMMA NotRunningType == NotRunning \in Locals
  <1> DEFINE a == [c \in Contacts |-> NoRoom]
  <1>1. a \in [Contacts -> Rooms \cup {NoRoom}]  OBVIOUS
  <1> HIDE DEF a
  <1>2. QED  BY <1>1 DEF NotRunning, Locals, Pcs, NoJob, a

LEMMA IdleInv ==
  ASSUME NEW r \in Runs, run[r] = NotRunning
  PROVE  RunInv(r)
  <1>1. /\ run[r].pc = "idle" /\ run[r].phase = "chats" /\ run[r].todo = {} /\ run[r].job = NoJob
        /\ run[r].saved = {} /\ run[r].synced = {} /\ run[r].failed = {} /\ run[r].skipped = {}
        /\ run[r].counted = {}
    BY DEF NotRunning
  <1>2. ~Working(r) /\ Reported(r) = {}  BY <1>1 DEF Working, Reported
  <1>3. Shape(r) /\ OwnRow(r)  BY <1>1, <1>2 DEF Shape, OwnRow
  <1>4. Items(r) /\ Backed(r)  BY <1>1, FS_EmptySet DEF Items, Backed
  <1>5. OnePlace(r) /\ NoneLost(r) /\ Indexed(r)
    BY <1>1, <1>2 DEF OnePlace, NoneLost, Indexed
  <1>6. QED  BY <1>3, <1>4, <1>5 DEF RunInv

(* The same of the state after a step.                                     *)
LEMMA IdleAfter ==
  ASSUME NEW r \in Runs, run'[r] = NotRunning
  PROVE  RunInv(r)'
  <1>1. /\ run'[r].pc = "idle" /\ run'[r].phase = "chats" /\ run'[r].todo = {}
        /\ run'[r].job = NoJob /\ run'[r].saved = {} /\ run'[r].synced = {}
        /\ run'[r].failed = {} /\ run'[r].skipped = {} /\ run'[r].counted = {}
    BY DEF NotRunning
  <1>2. ~Working(r)' /\ Reported(r)' = {}  BY <1>1 DEF Working, Reported
  <1>3. Shape(r)' /\ OwnRow(r)'  BY <1>1, <1>2 DEF Shape, OwnRow
  <1>4. Items(r)' /\ Backed(r)'  BY <1>1, FS_EmptySet DEF Items, Backed
  <1>5. OnePlace(r)' /\ NoneLost(r)' /\ Indexed(r)'
    BY <1>1, <1>2 DEF OnePlace, NoneLost, Indexed
  <1>6. QED  BY <1>3, <1>4, <1>5 DEF RunInv

\* A step of r touches no row but the one r has in hand.
JobsKept(r) ==
  \A i \in DOMAIN jobs :
    /\ i \in DOMAIN jobs'
    /\ jobs'[i] = jobs[i] \/ (jobs[i].by = r /\ jobs[i].status = "running")

(* What holds of a run survives the steps of the others: the tables only   *)
(* grow, and the rows another run settles are its own.                     *)
LEMMA OthersKept ==
  ASSUME IInv, NEW r \in Runs, NEW q \in Runs, q # r, run'[q] = run[q], JobsKept(r),
         messages \subseteq messages', q = Hourly => indexed' = indexed, selected' = selected,
         outdated' = outdated
  PROVE  RunInv(q)'
  <1>1. /\ Shape(q) /\ OwnRow(q) /\ Items(q) /\ Backed(q) /\ OnePlace(q) /\ NoneLost(q)
        /\ Indexed(q)
    BY DEF IInv, RunInv
  <1>2. run[q].job \in 0..Len(jobs) /\ DOMAIN jobs = 1..Len(jobs)  BY DEF IInv, TypeOK
  <1>3. Working(q)' = Working(q) /\ Reported(q)' = Reported(q)  BY DEF Working, Reported
  <1>4. Shape(q)'  BY <1>1, <1>3 DEF Shape
  <1>5. OwnRow(q)'
    <2>1. SUFFICES ASSUME Working(q)
                   PROVE  /\ run[q].source \in Sources
                          /\ jobs'[run[q].job].source = run[q].source
                          /\ jobs'[run[q].job].by = q
                          /\ jobs'[run[q].job].status = "running"
                          /\ RoomFor(q, run[q].source)' # NoRoom
      BY <1>3 DEF OwnRow
    <2>2. run[q].job \in DOMAIN jobs  BY <1>1, <1>2, <2>1 DEF Shape, NoJob
    <2>3. jobs'[run[q].job] = jobs[run[q].job]  BY <1>1, <2>1, <2>2 DEF OwnRow, JobsKept
    <2>4. QED  BY <1>1, <2>1, <2>3 DEF OwnRow, RoomFor
  <1>6. Items(q)'  BY <1>1 DEF Items
  <1>7. Backed(q)'
    <2>1. SUFFICES ASSUME NEW s \in run[q].synced
                   PROVE  \E i \in DOMAIN jobs' :
                            jobs'[i].source = s /\ jobs'[i].by = q /\ jobs'[i].status = "finished"
      BY DEF Backed
    <2>2. PICK i \in DOMAIN jobs : jobs[i].source = s /\ jobs[i].by = q /\ jobs[i].status = "finished"
      BY <1>1 DEF Backed
    <2>3. i \in DOMAIN jobs' /\ jobs'[i] = jobs[i]  BY <2>2 DEF JobsKept
    <2>4. QED  BY <2>2, <2>3
  <1>8. OnePlace(q)'  BY <1>1, <1>3 DEF OnePlace
  <1>9. NoneLost(q)'
    <2>1. Dealt(q)' = Dealt(q)  BY <1>3 DEF Dealt
    <2>2. QED  BY <1>1, <1>3, <2>1 DEF NoneLost
  <1>10. Indexed(q)'  BY <1>1 DEF Indexed, Shape, Current
  <1>11. QED  BY <1>4, <1>5, <1>6, <1>7, <1>8, <1>9, <1>10 DEF RunInv

LEMMA InitIInv == Init => IInv
  <1> SUFFICES ASSUME Init PROVE IInv
    OBVIOUS
  <1>1. PICK s \in Scenarios : selected = s.selected /\ starts = s.starts  BY DEF Init
  <1>2. selected \subseteq Sources /\ starts \in [Runs -> Nat]  BY <1>1, LimitsAssumption
  <1>3. \A r \in Runs : run[r] = NotRunning  BY DEF Init
  <1>4. run \in [Runs -> Locals]  BY NotRunningType DEF Init
  <1>5. \A r \in Runs : run[r].job \in 0..Len(jobs)
    BY <1>3 DEF NotRunning, NoJob, Init
  <1>6. TypeOK
    <2>1. jobs \in Seq(JobRows) /\ cut \subseteq (DOMAIN jobs) \X Causes  BY DEF Init
    <2>2. /\ messages \subseteq Msgs /\ indexed \subseteq messages /\ running \in BOOLEAN
          /\ notices \subseteq {"Done", "Failed"} \X (SUBSET Msgs) \X (SUBSET Msgs)
      BY DEF Init
    <2>3. roomIn \in [Contacts -> Rooms \cup {NoRoom}]  BY DEF Init
    <2>4. crashes \in 0..MaxCrashes /\ outdated \subseteq Aging  BY LimitsAssumption DEF Init
    <2>5. QED  BY <1>2, <1>4, <1>5, <2>1, <2>2, <2>3, <2>4 DEF TypeOK
  <1>7. \A r \in Runs : RunInv(r)  BY <1>3, IdleInv
  <1>8. RunningJobIsWorkedOn /\ DoneNoticeIsIndexed
    BY DEF Init, RunningJobIsWorkedOn, DoneNoticeIsIndexed
  <1>9. Hourly \in Runs /\ run[Hourly].pc = "idle"  BY <1>3 DEF Runs, NotRunning
  <1>10. LockIsHeldByRun  BY <1>9 DEF LockIsHeldByRun, At, Init
  <1>11. QED  BY <1>6, <1>7, <1>8, <1>10 DEF IInv

\* What a step adds to the notices is right about the index.
NoticesRight ==
  \A n \in notices' :
    \/ n \in notices
    \/ /\ n \in {"Done", "Failed"} \X (SUBSET Msgs) \X (SUBSET Msgs)
       /\ n[1] = "Done" => n[2] \cap Current \subseteq n[3]

(* A step that writes no row of sync_jobs: what is left to show of it is   *)
(* that its own run is in order, and the lock.                             *)
LEMMA QuietStep ==
  ASSUME IInv, NEW r \in Runs, NEW y \in Locals, run' = [run EXCEPT ![r] = y],
         y.job = run[r].job, UNCHANGED <<jobs, cut, selected, crashes, outdated>>, NoticesRight,
         messages \subseteq messages', messages' \subseteq Msgs,
         r # Hourly => indexed' = indexed, indexed' \subseteq messages',
         roomIn' \in [Contacts -> Rooms \cup {NoRoom}], starts' \in [Runs -> Nat],
         IF r = Hourly THEN running' = (y.pc # "idle") ELSE running' = running, RunInv(r)'
  PROVE  IInv'
  <1>1. run \in [Runs -> Locals] /\ \A q \in Runs : run[q].job \in 0..Len(jobs)
    BY DEF IInv, TypeOK
  <1>2. run'[r] = y /\ \A q \in Runs : q # r => run'[q] = run[q]  BY <1>1
  <1>3. \A q \in Runs : run'[q].job = run[q].job  BY <1>2
  <1>4. TypeOK'
    <2>1. run' \in [Runs -> Locals] /\ \A q \in Runs : run'[q].job \in 0..Len(jobs')
      BY <1>1, <1>2, <1>3
    <2>2. running' \in BOOLEAN  BY DEF IInv, TypeOK
    <2>3. notices' \subseteq {"Done", "Failed"} \X (SUBSET Msgs) \X (SUBSET Msgs)
      BY DEF IInv, TypeOK, NoticesRight
    <2>4. QED  BY <2>1, <2>2, <2>3 DEF IInv, TypeOK
  <1>5. \A q \in Runs : RunInv(q)'
    <2>1. JobsKept(r)  BY DEF JobsKept
    <2>2. ASSUME NEW q \in Runs, q # r PROVE RunInv(q)'
      <3>1. q = Hourly => indexed' = indexed  BY <2>2
      <3>2. QED  BY <1>2, <2>1, <2>2, <3>1, OthersKept
    <2>3. QED  BY <2>2
  <1>6. RunningJobIsWorkedOn'  BY <1>3 DEF IInv, RunningJobIsWorkedOn
  <1>7. DoneNoticeIsIndexed'  BY DEF IInv, DoneNoticeIsIndexed, NoticesRight, Current
  <1>8. LockIsHeldByRun'
    <2>1. CASE r = Hourly
      <3>1. run'[Hourly] = y  BY <1>2, <2>1
      <3>2. running' = (y.pc # "idle")  BY <2>1
      <3>3. QED  BY <3>1, <3>2, Zenon DEF LockIsHeldByRun, At
    <2>2. CASE r # Hourly
      <3>1. Hourly \in Runs  BY DEF Runs
      <3>2. running' = running /\ run'[Hourly] = run[Hourly]  BY <1>2, <2>2, <3>1
      <3>3. QED  BY <3>2 DEF IInv, LockIsHeldByRun, At
    <2>3. QED  BY <2>1, <2>2
  <1>9. QED  BY <1>4, <1>5, <1>6, <1>7, <1>8 DEF IInv

-----------------------------------------------------------------------------
(* Steps of a run that write no row of sync_jobs *)

LEMMA RunFacts ==
  ASSUME IInv, NEW r \in Runs
  PROVE  /\ run \in [Runs -> Locals] /\ run[r] \in Locals
         /\ run[r].todo \subseteq Sources /\ run[r].addr \in [Contacts -> Rooms \cup {NoRoom}]
         /\ run[r].source \in Sources \cup {NoSource} /\ run[r].job \in Nat
         /\ run[r].left \subseteq Msgs /\ run[r].saved \subseteq Msgs
         /\ run[r].synced \subseteq Sources /\ run[r].failed \subseteq Sources
         /\ run[r].skipped \subseteq Sources /\ run[r].counted \subseteq Msgs
         /\ run[r].phase \in {"chats", "contacts"} /\ run[r].pc \in Pcs
         /\ run[r].dead \in BOOLEAN
  <1>1. run \in [Runs -> Locals] /\ run[r] \in Locals  BY DEF IInv, TypeOK
  <1>2. QED  BY <1>1 DEF Locals

(* A run that only moves on to its next call.                              *)
LEMMA GotoStep ==
  ASSUME IInv, NEW r \in Runs, NEW p \in Pcs, Goto(r, p), p # "idle",
         UNCHANGED <<jobs, cut, notices, selected, crashes, outdated>>,
         messages \subseteq messages', messages' \subseteq Msgs,
         r # Hourly => indexed' = indexed, indexed' \subseteq messages',
         roomIn' \in [Contacts -> Rooms \cup {NoRoom}], starts' \in [Runs -> Nat],
         IF r = Hourly THEN running' = TRUE ELSE running' = running,
         p \in {"session", "index", "notifyDone", "notifyFailed"} => r = Hourly,
         p \in {"session", "list"} <=> run[r].pc \in {"idle", "session"},
         p \in {"fetch", "save", "fail"} <=> Working(r),
         p \in {"fetch", "save"} => run[r].pc = p,
         p = "resolve" => run[r].pc = p,
         p = "loop" => run[r].pc = "resolve",
         p = "index" => Reported(r) = selected,
         p = "notifyDone" => run[r].counted \cap Current \subseteq indexed'
  PROVE  IInv'
  <1> DEFINE y == [run[r] EXCEPT !.pc = p]
  <1>1. /\ y \in Locals /\ run' = [run EXCEPT ![r] = y] /\ run'[r] = y
        /\ y.pc = p /\ y.phase = run[r].phase /\ y.todo = run[r].todo /\ y.addr = run[r].addr
        /\ y.source = run[r].source /\ y.job = run[r].job /\ y.saved = run[r].saved
        /\ y.synced = run[r].synced /\ y.failed = run[r].failed /\ y.skipped = run[r].skipped
        /\ y.counted = run[r].counted
    BY RunFacts, ZenonT(40) DEF Goto, Locals
  <1> HIDE DEF y
  <1>2. /\ Shape(r) /\ OwnRow(r) /\ Items(r) /\ Backed(r) /\ OnePlace(r) /\ NoneLost(r)
        /\ Indexed(r)
    BY DEF IInv, RunInv
  <1>3. Working(r)' = Working(r) /\ Reported(r)' = Reported(r) /\ Dealt(r)' = Dealt(r)
    BY <1>1 DEF Working, Reported, Dealt
  <1>4. Shape(r)'  BY <1>1, <1>2, <1>3 DEF Shape, Working
  <1>5. OwnRow(r)'  BY <1>1, <1>2, <1>3 DEF OwnRow, RoomFor
  <1>6. Items(r)'  BY <1>1, <1>2 DEF Items
  <1>7. Backed(r)'  BY <1>1, <1>2 DEF Backed
  <1>8. OnePlace(r)'  BY <1>1, <1>2, <1>3 DEF OnePlace
  <1>9. NoneLost(r)'  BY <1>1, <1>2, <1>3 DEF NoneLost
  <1>10. Indexed(r)'  BY <1>1 DEF Indexed, Current
  <1>11. RunInv(r)'  BY <1>4, <1>5, <1>6, <1>7, <1>8, <1>9, <1>10 DEF RunInv
  <1>12. IF r = Hourly THEN running' = (y.pc # "idle") ELSE running' = running  BY <1>1
  <1>13. NoticesRight  BY DEF NoticesRight
  <1>14. QED  BY <1>1, <1>11, <1>12, <1>13, QuietStep

(* The locals at the pc an action asks for. *)
LEMMA ShapeFacts ==
  ASSUME IInv, NEW r \in Runs
  PROVE  /\ Shape(r) /\ OwnRow(r) /\ Items(r) /\ Backed(r) /\ OnePlace(r) /\ NoneLost(r)
         /\ Indexed(r)
         /\ messages \subseteq Msgs /\ indexed \subseteq messages
         /\ roomIn \in [Contacts -> Rooms \cup {NoRoom}] /\ starts \in [Runs -> Nat]
         /\ selected \subseteq Sources /\ Hourly \in Runs
         /\ running = ~At(Hourly, "idle")
  BY DEF IInv, RunInv, TypeOK, LockIsHeldByRun, Runs

LEMMA TickStep == ASSUME IInv, Tick PROVE IInv'
  <1>1. "session" \in Pcs /\ Hourly \in Runs  BY DEF Pcs, Runs
  <1>2. starts' \in [Runs -> Nat]  BY <1>1, ShapeFacts DEF Tick
  <1>3. QED  BY <1>1, <1>2, ShapeFacts, GotoStep DEF Tick, At, Working, bounds

LEMMA RequestStep == ASSUME IInv, NEW r \in Requests, Request(r) PROVE IInv'
  <1>1. "list" \in Pcs /\ r \in Runs /\ r # Hourly  BY RunsAssumption DEF Pcs, Runs
  <1>2. starts' \in [Runs -> Nat]  BY <1>1, ShapeFacts DEF Request
  <1>3. QED  BY <1>1, <1>2, ShapeFacts, GotoStep DEF Request, At, Working

LEMMA HourlyRuns ==
  ASSUME IInv, ~At(Hourly, "idle")
  PROVE  running = TRUE
  BY DEF IInv, LockIsHeldByRun

LEMMA SessionLoadedStep == ASSUME IInv, SessionLoaded PROVE IInv'
  <1>1. "list" \in Pcs /\ Hourly \in Runs /\ running = TRUE
    BY HourlyRuns DEF Pcs, Runs, SessionLoaded, Succeeds, At
  <1>2. QED  BY <1>1, ShapeFacts, GotoStep DEF SessionLoaded, Succeeds, At, Working, bounds

LEMMA IndexBuiltStep == ASSUME IInv, IndexBuilt PROVE IInv'
  <1>1. "notifyDone" \in Pcs /\ Hourly \in Runs /\ running = TRUE
    BY HourlyRuns DEF Pcs, Runs, IndexBuilt, Succeeds, At
  <1>2. indexed' \subseteq messages /\ run[Hourly].counted \cap Current \subseteq indexed'
    BY <1>1, ShapeFacts DEF Items, IndexBuilt, Readable
  <1>3. QED
    BY <1>1, <1>2, ShapeFacts, GotoStep DEF IndexBuilt, Succeeds, At, Working, bounds

LEMMA IndexFailsStep == ASSUME IInv, IndexFails PROVE IInv'
  <1>1. "notifyFailed" \in Pcs /\ Hourly \in Runs /\ running = TRUE
    BY HourlyRuns DEF Pcs, Runs, IndexFails, At
  <1>2. indexed' \subseteq messages
    BY ShapeFacts, <1>1 DEF IndexFails, Readable
  <1>3. QED
    BY <1>1, <1>2, ShapeFacts, GotoStep DEF IndexFails, At, Working, bounds

LEMMA StepRunning ==
  ASSUME IInv, NEW r \in Runs, ~At(r, "idle")
  PROVE  IF r = Hourly THEN running = TRUE ELSE TRUE
  BY HourlyRuns

LEMMA ResolveFailsStep == ASSUME IInv, NEW r \in Runs, ResolveFails(r) PROVE IInv'
  <1>1. "loop" \in Pcs /\ ~At(r, "idle")  BY DEF Pcs, ResolveFails, At
  <1>2. IF r = Hourly THEN running' = TRUE ELSE running' = running
    BY <1>1, StepRunning DEF ResolveFails
  <1>3. QED  BY <1>1, <1>2, ShapeFacts, GotoStep DEF ResolveFails, At, Working, bounds

LEMMA FetchFailsStep == ASSUME IInv, NEW r \in Runs, FetchFails(r) PROVE IInv'
  <1>1. "fail" \in Pcs /\ ~At(r, "idle")  BY DEF Pcs, FetchFails, At
  <1>2. IF r = Hourly THEN running' = TRUE ELSE running' = running
    BY <1>1, StepRunning DEF FetchFails
  <1>3. QED  BY <1>1, <1>2, ShapeFacts, GotoStep DEF FetchFails, At, Working, bounds

LEMMA SaveFailsStep == ASSUME IInv, NEW r \in Runs, SaveFails(r) PROVE IInv'
  <1>1. "fail" \in Pcs /\ ~At(r, "idle")  BY DEF Pcs, SaveFails, At
  <1>2. IF r = Hourly THEN running' = TRUE ELSE running' = running
    BY <1>1, StepRunning DEF SaveFails
  <1>3. messages \subseteq messages' /\ messages' \subseteq Msgs
    BY ShapeFacts, RunFacts DEF SaveFails
  <1>4. /\ Goto(r, "fail") /\ run[r].pc = "save"
        /\ UNCHANGED <<jobs, cut, notices, selected, crashes, outdated, indexed, roomIn, starts>>
    BY DEF SaveFails, At, bounds
  <1>5. QED  BY <1>1, <1>2, <1>3, <1>4, ShapeFacts, GotoStep DEF Working

(* A run that returns: it had no job in hand.                              *)
LEMMA ReturnStep ==
  ASSUME IInv, NEW r \in Runs, Return(r), ~Working(r),
         UNCHANGED <<jobs, messages, roomIn, indexed, cut, bounds>>, NoticesRight
  PROVE  IInv'
  <1>1. run[r].job = NoJob  BY ShapeFacts DEF Shape
  <1>2. NotRunning.job = NoJob /\ NotRunning.pc = "idle"  BY DEF NotRunning
  <1>3. run' = [run EXCEPT ![r] = NotRunning] /\ run'[r] = NotRunning
    BY RunFacts DEF Return
  <1>4. RunInv(r)'  BY <1>3, IdleAfter
  <1>5. IF r = Hourly THEN running' = (NotRunning.pc # "idle") ELSE running' = running
    BY <1>2, ShapeFacts DEF Return
  <1>6. QED
    BY <1>1, <1>2, <1>3, <1>4, <1>5, NotRunningType, ShapeFacts, QuietStep DEF bounds

LEMMA SameNotices ==
  ASSUME UNCHANGED notices
  PROVE  NoticesRight
  BY DEF NoticesRight

LEMMA SessionMissingStep == ASSUME IInv, SessionMissing PROVE IInv'
  <1>1. Hourly \in Runs /\ ~Working(Hourly)  BY DEF Runs, SessionMissing, At, Working
  <1>2. QED  BY <1>1, SameNotices, ReturnStep DEF SessionMissing

LEMMA NotifyStep == ASSUME IInv, Notify PROVE IInv'
  <1>1. PICK status \in {"Done", "Failed"} :
          /\ At(Hourly, NotifyPc[status])
          /\ notices' \in {notices} \cup
               IF run[Hourly].dead THEN {} ELSE {notices \cup {<<status, run[Hourly].counted, indexed>>}}
          /\ Return(Hourly)
          /\ UNCHANGED <<jobs, messages, roomIn, indexed, cut, bounds>>
    BY DEF Notify
  <1>2. /\ status = "Done" => run[Hourly].pc = "notifyDone"
        /\ status = "Failed" => run[Hourly].pc = "notifyFailed"
    BY <1>1 DEF NotifyPc, At
  <1>3. Hourly \in Runs /\ ~Working(Hourly)  BY <1>2 DEF Runs, Working
  <1>4. NoticesRight
    <2>1. run[Hourly].counted \subseteq Msgs /\ indexed \subseteq Msgs
      BY <1>3, RunFacts, ShapeFacts
    <2>2. status = "Done" => run[Hourly].counted \cap Current \subseteq indexed
      BY <1>1, <1>2, ShapeFacts, <1>3 DEF Indexed
    <2>3. notices' \subseteq notices \cup {<<status, run[Hourly].counted, indexed>>}  BY <1>1
    <2>4. QED  BY <2>1, <2>2, <2>3 DEF NoticesRight
  <1>5. QED  BY <1>1, <1>3, <1>4, ReturnStep

LEMMA ContactsDoneStep == ASSUME IInv, NEW r \in Runs, ContactsDone(r) PROVE IInv'
  <1>1. run[r].pc = "loop" /\ run[r].todo = {} /\ run[r].phase = "contacts" /\ ~Working(r)
    BY DEF ContactsDone, LoopEnds, At, Working
  <1>2. CASE r = Hourly
    <2>1. Reported(r) = selected
      BY <1>1, ShapeFacts DEF NoneLost, Dealt
    <2>2. "index" \in Pcs /\ running = TRUE /\ Goto(r, "index")
      BY <1>1, <1>2, HourlyRuns DEF Pcs, At, ContactsDone
    <2>3. UNCHANGED <<jobs, cut, notices, selected, crashes, outdated, messages, indexed, roomIn, starts, running>>
      BY <1>2 DEF ContactsDone, bounds
    <2>4. QED  BY <1>1, <1>2, <2>1, <2>2, <2>3, ShapeFacts, GotoStep
  <1>3. CASE r # Hourly
    BY <1>1, <1>3, SameNotices, ReturnStep DEF ContactsDone
  <1>4. QED  BY <1>2, <1>3

LEMMA ListFailsStep == ASSUME IInv, NEW r \in Runs, ListFails(r) PROVE IInv'
  <1>1. run[r].pc \in {"list", "loop"} /\ ~Working(r)
    BY DEF ListFails, LoopEnds, At, Working
  <1>2. CASE r = Hourly
    <2> DEFINE y == [run[r] EXCEPT !.pc = "notifyFailed", !.counted = {}]
    <2>1. run' = [run EXCEPT ![r] = y] /\ UNCHANGED <<running, jobs, messages, roomIn, indexed, notices, cut, bounds>>
      BY <1>2 DEF ListFails
    <2>2. /\ y \in Locals /\ run'[r] = y
          /\ y.pc = "notifyFailed" /\ y.job = run[r].job /\ y.saved = run[r].saved
          /\ y.todo = run[r].todo /\ y.synced = run[r].synced /\ y.failed = run[r].failed
          /\ y.skipped = run[r].skipped /\ y.counted = {}
      BY <2>1, RunFacts, ZenonT(40) DEF Locals, Pcs
    <2> HIDE DEF y
    <2>3. ~Working(r)' /\ Reported(r)' = Reported(r)  BY <2>2 DEF Working, Reported
    <2>4. Shape(r)'  BY <1>1, <1>2, <2>2, <2>3, ShapeFacts DEF Shape
    <2>5. OwnRow(r)' /\ NoneLost(r)' /\ Indexed(r)'
      BY <2>2, <2>3 DEF OwnRow, NoneLost, Indexed
    <2>6. Items(r)'  BY <2>1, <2>2, ShapeFacts DEF Items
    <2>7. Backed(r)'  BY <2>1, <2>2, ShapeFacts DEF Backed
    <2>8. OnePlace(r)'  BY <2>2, <2>3, ShapeFacts DEF OnePlace
    <2>9. RunInv(r)'  BY <2>4, <2>5, <2>6, <2>7, <2>8 DEF RunInv
    <2>10. running' = (y.pc # "idle")
      <3>1. running = TRUE  BY <1>1, <1>2, HourlyRuns DEF At
      <3>2. QED  BY <2>1, <2>2, <3>1
    <2>11. QED
      BY <1>2, <2>1, <2>2, <2>9, <2>10, ShapeFacts, SameNotices, QuietStep DEF bounds
  <1>3. CASE r # Hourly
    BY <1>1, <1>3, SameNotices, ReturnStep DEF ListFails
  <1>4. QED  BY <1>2, <1>3

LEMMA ChatsListedStep == ASSUME IInv, NEW r \in Runs, ChatsListed(r) PROVE IInv'
  <1> DEFINE t == Chats \cap selected
             y == [run[r] EXCEPT !.pc = "loop", !.todo = t]
  <1>1. run[r].pc = "list" /\ ~Working(r) /\ run' = [run EXCEPT ![r] = y]
    BY DEF ChatsListed, Succeeds, At, Working
  <1>2. t \in SUBSET Sources /\ "loop" \in Pcs  BY DEF Sources, Pcs
  <1> HIDE DEF t
  <1>3. /\ y \in Locals /\ run'[r] = y
        /\ y.pc = "loop" /\ y.todo = t /\ y.phase = run[r].phase /\ y.job = run[r].job
        /\ y.saved = run[r].saved /\ y.synced = run[r].synced /\ y.failed = run[r].failed
        /\ y.skipped = run[r].skipped /\ y.counted = run[r].counted
    BY <1>1, <1>2, RunFacts, ZenonT(40) DEF Locals
  <1> HIDE DEF y
  <1>4. UNCHANGED <<jobs, messages, roomIn, running, indexed, notices, cut, bounds>>
    BY DEF ChatsListed
  <1>5. run[r].phase = "chats" /\ Reported(r) = {} /\ run[r].counted = {}
    BY <1>1, ShapeFacts DEF Shape
  <1>6. ~Working(r)' /\ Reported(r)' = {} /\ Dealt(r)' = t
    BY <1>3, <1>5 DEF Working, Reported, Dealt
  <1>7. Shape(r)' /\ OwnRow(r)' /\ Indexed(r)'
    BY <1>1, <1>3, <1>6, ShapeFacts DEF Shape, OwnRow, Indexed, Current, bounds
  <1>8. Items(r)'  BY <1>3, <1>4, ShapeFacts DEF Items
  <1>9. Backed(r)'  BY <1>3, <1>4, ShapeFacts DEF Backed
  <1>10. OnePlace(r)'  BY <1>3, <1>6, ShapeFacts DEF OnePlace
  <1>11. NoneLost(r)'  BY <1>3, <1>4, <1>5, <1>6 DEF NoneLost, t, bounds
  <1>12. RunInv(r)'  BY <1>7, <1>8, <1>9, <1>10, <1>11 DEF RunInv
  <1>13. IF r = Hourly THEN running' = (y.pc # "idle") ELSE running' = running
    BY <1>1, <1>3, <1>4, HourlyRuns DEF At
  <1>14. QED
    BY <1>1, <1>3, <1>4, <1>12, <1>13, ShapeFacts, SameNotices, QuietStep DEF bounds

LEMMA ContactsListedStep == ASSUME IInv, NEW r \in Runs, ContactsListed(r) PROVE IInv'
  <1> DEFINE t == Contacts \cap selected
             p == IF t = {} THEN "loop" ELSE "resolve"
             y == [run[r] EXCEPT !.pc = p, !.phase = "contacts", !.todo = t, !.addr = roomIn]
  <1>1. /\ run[r].pc = "loop" /\ run[r].todo = {} /\ run[r].phase = "chats" /\ ~Working(r)
        /\ run' = [run EXCEPT ![r] = y]
    BY DEF ContactsListed, LoopEnds, At, Working
  <1>2. t \in SUBSET Sources /\ p \in Pcs /\ p \in {"loop", "resolve"}  BY DEF Sources, Pcs
  <1> HIDE DEF t, p
  <1>3. y \in Locals  BY <1>2, RunFacts, ShapeFacts, ZenonT(40) DEF Locals
  <1>4. /\ run'[r] = y
        /\ y.pc = p /\ y.todo = t /\ y.phase = "contacts" /\ y.job = run[r].job
        /\ y.saved = run[r].saved /\ y.synced = run[r].synced /\ y.failed = run[r].failed
        /\ y.skipped = run[r].skipped /\ y.counted = run[r].counted
    BY <1>1, <1>3, RunFacts DEF Locals
  <1> HIDE DEF y
  <1>5. UNCHANGED <<jobs, messages, roomIn, running, indexed, notices, cut, bounds>>
    BY DEF ContactsListed
  <1>6. ~Working(r)' /\ Reported(r)' = Reported(r) /\ Dealt(r)' = Reported(r) \cup t
    BY <1>2, <1>4 DEF Working, Reported, Dealt
  <1>7. Reported(r) = Chats \cap selected
    BY <1>1, ShapeFacts DEF NoneLost, Dealt
  <1>8. Shape(r)' /\ OwnRow(r)' /\ Indexed(r)'
    BY <1>1, <1>2, <1>4, <1>6, ShapeFacts DEF Shape, OwnRow, Indexed, Current, bounds
  <1>9. Items(r)'  BY <1>4, <1>5, ShapeFacts DEF Items
  <1>10. Backed(r)'  BY <1>4, <1>5, ShapeFacts DEF Backed
  <1>11. OnePlace(r)'
    <2>1. Reported(r) \cap t = {}  BY <1>7, SourcesAssumption DEF t
    <2>2. QED  BY <1>4, <1>6, <2>1, ShapeFacts DEF OnePlace
  <1>12. NoneLost(r)'
    <2>1. Reported(r) \cup t = selected  BY <1>7, ShapeFacts DEF t, Sources
    <2>2. QED  BY <1>2, <1>4, <1>5, <1>6, <2>1 DEF NoneLost, bounds
  <1>13. RunInv(r)'  BY <1>8, <1>9, <1>10, <1>11, <1>12 DEF RunInv
  <1>14. IF r = Hourly THEN running' = (y.pc # "idle") ELSE running' = running
    BY <1>1, <1>2, <1>4, <1>5, HourlyRuns DEF At
  <1>15. QED
    BY <1>1, <1>3, <1>4, <1>5, <1>13, <1>14, ShapeFacts, SameNotices, QuietStep DEF bounds

LEMMA ResolveStep == ASSUME IInv, NEW r \in Runs, Resolve(r) PROVE IInv'
  <1> DEFINE found == {c \in Contacts \cap selected : run[r].addr[c] = NoRoom /\ Matches[c] # NoRoom}
             a == [c \in Contacts |-> IF c \in found THEN Matches[c] ELSE run[r].addr[c]]
             y == [run[r] EXCEPT !.pc = "loop", !.addr = a]
  <1>1. run[r].pc = "resolve" /\ ~Working(r) /\ run' = [run EXCEPT ![r] = y]
    BY DEF Resolve, Succeeds, At, Working
  <1>2. a \in [Contacts -> Rooms \cup {NoRoom}] /\ "loop" \in Pcs
    BY RunFacts, RoomsAssumption DEF Pcs
  <1>3. roomIn' \in [Contacts -> Rooms \cup {NoRoom}]
    <2>1. PICK kept \in SUBSET found :
            roomIn' = [c \in Contacts |-> IF c \in kept THEN Matches[c] ELSE roomIn[c]]
      BY DEF Resolve
    <2>2. QED  BY <2>1, ShapeFacts, RoomsAssumption
  <1> HIDE DEF a
  <1>4. y \in Locals  BY <1>2, RunFacts, ZenonT(40) DEF Locals
  <1>5. /\ run'[r] = y
        /\ y.pc = "loop" /\ y.todo = run[r].todo /\ y.phase = run[r].phase /\ y.job = run[r].job
        /\ y.saved = run[r].saved /\ y.synced = run[r].synced /\ y.failed = run[r].failed
        /\ y.skipped = run[r].skipped /\ y.counted = run[r].counted
    BY <1>1, <1>4, RunFacts DEF Locals
  <1> HIDE DEF y
  <1>6. UNCHANGED <<jobs, messages, running, indexed, notices, cut, bounds>>
    BY DEF Resolve
  <1>7. ~Working(r)' /\ Reported(r)' = Reported(r) /\ Dealt(r)' = Dealt(r)
    BY <1>1, <1>5 DEF Working, Reported, Dealt
  <1>8. Shape(r)' /\ OwnRow(r)' /\ Indexed(r)'
    BY <1>1, <1>5, <1>7, ShapeFacts DEF Shape, OwnRow, Indexed, Current, bounds
  <1>9. Items(r)'  BY <1>5, <1>6, ShapeFacts DEF Items
  <1>10. Backed(r)'  BY <1>5, <1>6, ShapeFacts DEF Backed
  <1>11. OnePlace(r)'  BY <1>5, <1>7, ShapeFacts DEF OnePlace
  <1>12. NoneLost(r)'  BY <1>1, <1>5, <1>6, <1>7, ShapeFacts DEF NoneLost, bounds
  <1>13. RunInv(r)'  BY <1>8, <1>9, <1>10, <1>11, <1>12 DEF RunInv
  <1>14. IF r = Hourly THEN running' = (y.pc # "idle") ELSE running' = running
    BY <1>1, <1>5, <1>6, HourlyRuns DEF At
  <1>15. QED
    BY <1>1, <1>3, <1>4, <1>5, <1>6, <1>13, <1>14, ShapeFacts, SameNotices, QuietStep DEF bounds

LEMMA SkipStep == ASSUME IInv, NEW r \in Runs, Skip(r) PROVE IInv'
  <1>1. PICK s \in run[r].todo :
          run' = [run EXCEPT ![r].todo = @ \ {s}, ![r].skipped = @ \cup {s}]
    BY DEF Skip
  <1> DEFINE t == run[r].todo \ {s}
             k == run[r].skipped \cup {s}
             y == [run[r] EXCEPT !.todo = t, !.skipped = k]
  <1>2. run[r].pc = "loop" /\ ~Working(r) /\ run' = [run EXCEPT ![r] = y]
    BY <1>1 DEF Skip, At, Working
  <1>3. t \in SUBSET Sources /\ k \in SUBSET Sources  BY RunFacts
  <1> HIDE DEF t, k
  <1>4. y \in Locals  BY <1>3, RunFacts, ZenonT(40) DEF Locals
  <1>5. /\ run'[r] = y
        /\ y.pc = "loop" /\ y.todo = t /\ y.phase = run[r].phase /\ y.job = run[r].job
        /\ y.saved = run[r].saved /\ y.synced = run[r].synced /\ y.failed = run[r].failed
        /\ y.skipped = k /\ y.counted = run[r].counted
    BY <1>2, <1>4, RunFacts DEF Locals
  <1> HIDE DEF y
  <1>6. UNCHANGED <<jobs, messages, roomIn, running, indexed, notices, cut, bounds>>
    BY DEF Skip
  <1>7. ~Working(r)' /\ Reported(r)' = Reported(r) \cup {s}
    BY <1>5 DEF Working, Reported, k
  <1>8. Dealt(r)' = Dealt(r)
    BY <1>1, <1>2, <1>5, <1>7 DEF Dealt, t
  <1>9. Shape(r)' /\ OwnRow(r)' /\ Indexed(r)'
    BY <1>2, <1>5, <1>7, ShapeFacts DEF Shape, OwnRow, Indexed, Current, bounds
  <1>10. Items(r)'  BY <1>5, <1>6, ShapeFacts DEF Items
  <1>11. Backed(r)'  BY <1>5, <1>6, ShapeFacts DEF Backed
  <1>12. OnePlace(r)'
    <2>1. /\ run[r].synced \cap k = {} /\ run[r].failed \cap k = {}
          /\ (Reported(r) \cup {s}) \cap t = {}
      BY <1>1, ShapeFacts DEF OnePlace, Reported, t, k
    <2>2. QED  BY <1>5, <1>7, <2>1, ShapeFacts DEF OnePlace
  <1>13. NoneLost(r)'  BY <1>2, <1>5, <1>6, <1>7, <1>8, ShapeFacts DEF NoneLost, bounds
  <1>14. RunInv(r)'  BY <1>9, <1>10, <1>11, <1>12, <1>13 DEF RunInv
  <1>15. IF r = Hourly THEN running' = (y.pc # "idle") ELSE running' = running
    BY <1>2, <1>5, <1>6, HourlyRuns DEF At
  <1>16. QED
    BY <1>2, <1>4, <1>5, <1>6, <1>14, <1>15, ShapeFacts, SameNotices, QuietStep DEF bounds

LEMMA FetchStep == ASSUME IInv, NEW r \in Runs, Fetch(r) PROVE IInv'
  <1> DEFINE l == ItemsOf[RoomFor(r, run[r].source)]
             y == [run[r] EXCEPT !.pc = "save", !.left = l]
  <1>1. run[r].pc = "fetch" /\ Working(r) /\ run' = [run EXCEPT ![r] = y]
    BY DEF Fetch, Succeeds, At, Working
  <1>2. l \in SUBSET Msgs
    <2>1. RoomFor(r, run[r].source) \in Rooms
      <3>1. run[r].source \in Sources /\ RoomFor(r, run[r].source) # NoRoom
        BY <1>1, ShapeFacts DEF OwnRow
      <3>2. QED  BY <3>1, RunFacts, RoomsAssumption DEF RoomFor, Sources
    <2>2. QED  BY <2>1, RoomsAssumption DEF Msgs
  <1> HIDE DEF l
  <1>3. y \in Locals  BY <1>2, RunFacts, ZenonT(40) DEF Locals, Pcs
  <1>4. /\ run'[r] = y
        /\ y.pc = "save" /\ y.todo = run[r].todo /\ y.phase = run[r].phase /\ y.job = run[r].job
        /\ y.source = run[r].source /\ y.addr = run[r].addr
        /\ y.saved = run[r].saved /\ y.synced = run[r].synced /\ y.failed = run[r].failed
        /\ y.skipped = run[r].skipped /\ y.counted = run[r].counted
    BY <1>1, <1>3, RunFacts DEF Locals
  <1> HIDE DEF y
  <1>5. UNCHANGED <<jobs, messages, roomIn, running, indexed, notices, cut, bounds>>
    BY DEF Fetch
  <1>6. Working(r)' /\ Reported(r)' = Reported(r)
    BY <1>4 DEF Working, Reported
  <1>7. Dealt(r)' = Dealt(r)  BY <1>1, <1>4, <1>6 DEF Dealt
  <1>8. Shape(r)' /\ Indexed(r)'
    BY <1>1, <1>4, <1>6, ShapeFacts DEF Shape, Indexed, Current, bounds
  <1>9. OwnRow(r)'  BY <1>1, <1>4, <1>5, ShapeFacts DEF OwnRow, RoomFor
  <1>10. Items(r)'  BY <1>4, <1>5, ShapeFacts DEF Items
  <1>11. Backed(r)'  BY <1>4, <1>5, ShapeFacts DEF Backed
  <1>12. OnePlace(r)'  BY <1>1, <1>4, <1>6, ShapeFacts DEF OnePlace
  <1>13. NoneLost(r)'  BY <1>1, <1>4, <1>5, <1>6, <1>7, ShapeFacts DEF NoneLost, bounds
  <1>14. RunInv(r)'  BY <1>8, <1>9, <1>10, <1>11, <1>12, <1>13 DEF RunInv
  <1>15. IF r = Hourly THEN running' = (y.pc # "idle") ELSE running' = running
    BY <1>1, <1>4, <1>5, HourlyRuns DEF At
  <1>16. QED
    BY <1>1, <1>3, <1>4, <1>5, <1>14, <1>15, ShapeFacts, SameNotices, QuietStep DEF bounds

LEMMA SaveStep == ASSUME IInv, NEW r \in Runs, Save(r) PROVE IInv'
  <1>1. PICK m \in run[r].left :
          /\ messages' = messages \cup {m}
          /\ run' = [run EXCEPT ![r].left = @ \ {m}, ![r].saved = @ \cup {m}]
    BY DEF Save
  <1> DEFINE l == run[r].left \ {m}
             v == run[r].saved \cup {m}
             y == [run[r] EXCEPT !.left = l, !.saved = v]
  <1>2. run[r].pc = "save" /\ Working(r) /\ run' = [run EXCEPT ![r] = y]
    BY <1>1 DEF Save, Succeeds, At, Working
  <1>3. l \in SUBSET Msgs /\ v \in SUBSET Msgs /\ m \in Msgs  BY RunFacts
  <1> HIDE DEF l, v
  <1>4. y \in Locals  BY <1>3, RunFacts, ZenonT(40) DEF Locals
  <1>5. /\ run'[r] = y
        /\ y.pc = "save" /\ y.todo = run[r].todo /\ y.phase = run[r].phase /\ y.job = run[r].job
        /\ y.source = run[r].source /\ y.addr = run[r].addr
        /\ y.saved = v /\ y.synced = run[r].synced /\ y.failed = run[r].failed
        /\ y.skipped = run[r].skipped /\ y.counted = run[r].counted
    BY <1>2, <1>4, RunFacts DEF Locals
  <1> HIDE DEF y
  <1>6. UNCHANGED <<jobs, roomIn, running, indexed, notices, cut, bounds>>
    BY DEF Save
  <1>7. Working(r)' /\ Reported(r)' = Reported(r)
    BY <1>5 DEF Working, Reported
  <1>8. Dealt(r)' = Dealt(r)  BY <1>2, <1>5, <1>7 DEF Dealt
  <1>9. Shape(r)' /\ Indexed(r)'
    BY <1>2, <1>5, <1>7, ShapeFacts DEF Shape, Indexed, Current, bounds
  <1>10. OwnRow(r)'  BY <1>2, <1>5, <1>6, ShapeFacts DEF OwnRow, RoomFor
  <1>11. Items(r)'
    <2>1. IsFiniteSet(v)  BY ShapeFacts, FS_AddElement DEF Items, v
    <2>2. QED  BY <1>1, <1>5, <2>1, ShapeFacts DEF Items, v
  <1>12. Backed(r)'  BY <1>5, <1>6, ShapeFacts DEF Backed
  <1>13. OnePlace(r)'  BY <1>2, <1>5, <1>7, ShapeFacts DEF OnePlace
  <1>14. NoneLost(r)'  BY <1>2, <1>5, <1>6, <1>7, <1>8, ShapeFacts DEF NoneLost, bounds
  <1>15. RunInv(r)'  BY <1>9, <1>10, <1>11, <1>12, <1>13, <1>14 DEF RunInv
  <1>16. IF r = Hourly THEN running' = (y.pc # "idle") ELSE running' = running
    BY <1>2, <1>5, <1>6, HourlyRuns DEF At
  <1>17. messages \subseteq messages' /\ messages' \subseteq Msgs  BY <1>1, <1>3, ShapeFacts
  <1>18. QED
    BY <1>2, <1>4, <1>5, <1>6, <1>15, <1>16, <1>17, ShapeFacts, SameNotices, QuietStep DEF bounds

LEMMA ExpireStep == ASSUME IInv, NEW r \in Runs, Expire(r) PROVE IInv'
  <1> DEFINE y == [run[r] EXCEPT !.dead = TRUE]
  <1>1. run[r].pc # "idle" /\ run' = [run EXCEPT ![r] = y]
    BY DEF Expire, At
  <1>2. y \in Locals  BY RunFacts, ZenonT(40) DEF Locals
  <1>3. /\ run'[r] = y
        /\ y.pc = run[r].pc /\ y.todo = run[r].todo /\ y.phase = run[r].phase
        /\ y.job = run[r].job /\ y.source = run[r].source /\ y.addr = run[r].addr
        /\ y.saved = run[r].saved /\ y.synced = run[r].synced /\ y.failed = run[r].failed
        /\ y.skipped = run[r].skipped /\ y.counted = run[r].counted
    BY <1>1, <1>2, RunFacts DEF Locals
  <1> HIDE DEF y
  <1>4. UNCHANGED <<jobs, messages, roomIn, running, indexed, notices, cut, bounds>>
    BY DEF Expire
  <1>5. Working(r)' = Working(r) /\ Reported(r)' = Reported(r) /\ Dealt(r)' = Dealt(r)
    BY <1>3 DEF Working, Reported, Dealt
  <1>6. Shape(r)' /\ Indexed(r)'
    BY <1>3, <1>4, <1>5, ShapeFacts DEF Shape, Indexed, Current, bounds
  <1>7. OwnRow(r)'  BY <1>3, <1>4, <1>5, ShapeFacts DEF OwnRow, RoomFor
  <1>8. Items(r)'  BY <1>3, <1>4, ShapeFacts DEF Items
  <1>9. Backed(r)'  BY <1>3, <1>4, ShapeFacts DEF Backed
  <1>10. OnePlace(r)'  BY <1>3, <1>5, ShapeFacts DEF OnePlace
  <1>11. NoneLost(r)'  BY <1>3, <1>4, <1>5, ShapeFacts DEF NoneLost, bounds
  <1>12. RunInv(r)'  BY <1>6, <1>7, <1>8, <1>9, <1>10, <1>11 DEF RunInv
  <1>13. IF r = Hourly THEN running' = (y.pc # "idle") ELSE running' = running
    BY <1>1, <1>3, <1>4, HourlyRuns DEF At
  <1>14. QED
    BY <1>1, <1>2, <1>3, <1>4, <1>12, <1>13, ShapeFacts, SameNotices, QuietStep DEF bounds

-----------------------------------------------------------------------------
(* Steps of a run that write rows of sync_jobs *)

LEMMA JobStep ==
  ASSUME IInv, NEW r \in Runs, NEW y \in Locals, run' = [run EXCEPT ![r] = y],
         run[r].pc # "idle", y.pc # "idle", y.job \in 0..Len(jobs'),
         jobs' \in Seq(JobRows), Len(jobs) <= Len(jobs'), JobsKept(r),
         cut' \subseteq (DOMAIN jobs') \X Causes, RunningJobIsWorkedOn',
         UNCHANGED <<messages, roomIn, running, indexed, notices, bounds>>, RunInv(r)'
  PROVE  IInv'
  <1>1. /\ run \in [Runs -> Locals] /\ jobs \in Seq(JobRows)
        /\ \A q \in Runs : run[q].job \in 0..Len(jobs)
    BY DEF IInv, TypeOK
  <1>2. run'[r] = y /\ \A q \in Runs : q # r => run'[q] = run[q]  BY <1>1
  <1>3. \A q \in Runs : run'[q].job \in 0..Len(jobs')
    <2>1. Len(jobs) \in Nat /\ Len(jobs') \in Nat  BY <1>1
    <2>2. QED  BY <1>1, <1>2, <2>1
  <1>4. TypeOK'
    <2>1. run' \in [Runs -> Locals]  BY <1>1, <1>2
    <2>2. QED  BY <1>3, <2>1 DEF IInv, TypeOK, bounds
  <1>5. \A q \in Runs : RunInv(q)'  BY <1>2, OthersKept DEF bounds
  <1>6. DoneNoticeIsIndexed'  BY DEF IInv, DoneNoticeIsIndexed, Current, bounds
  <1>7. LockIsHeldByRun'
    <2>1. Hourly \in Runs  BY DEF Runs
    <2>2. (run'[Hourly].pc = "idle") <=> (run[Hourly].pc = "idle")  BY <1>2, <2>1
    <2>3. running' = running /\ running = ~(run[Hourly].pc = "idle")
      BY DEF IInv, LockIsHeldByRun, At
    <2>4. QED  BY <2>2, <2>3, Zenon DEF LockIsHeldByRun, At
  <1>8. QED  BY <1>4, <1>5, <1>6, <1>7 DEF IInv

LEMMA JobFacts ==
  ASSUME IInv
  PROVE  /\ jobs \in Seq(JobRows) /\ Len(jobs) \in Nat /\ DOMAIN jobs = 1..Len(jobs)
         /\ \A i \in DOMAIN jobs : jobs[i] \in JobRows
         /\ \A r \in Runs : run[r].job \in 0..Len(jobs)
         /\ cut \subseteq (DOMAIN jobs) \X Causes
         /\ RunningJobIsWorkedOn
  BY DEF IInv, TypeOK

(* What an INSERT does to the table.                                       *)
LEMMA InsertEffect ==
  ASSUME IInv, NEW r \in Runs, NEW s \in Sources, jobs' = Append(jobs, NewRow(r, s))
  PROVE  /\ jobs' \in Seq(JobRows) /\ Len(jobs') = Len(jobs) + 1
         /\ DOMAIN jobs' = 1..(Len(jobs) + 1)
         /\ jobs'[Len(jobs) + 1] = NewRow(r, s)
         /\ \A i \in DOMAIN jobs : i \in DOMAIN jobs' /\ jobs'[i] = jobs[i]
         /\ JobsKept(r)
  <1>1. NewRow(r, s) \in JobRows  BY DEF NewRow, JobRows
  <1> DEFINE w == NewRow(r, s)
  <1> HIDE DEF w
  <1>2. jobs' = Append(jobs, w) /\ w \in JobRows  BY <1>1 DEF w
  <1>3. /\ jobs' \in Seq(JobRows) /\ Len(jobs') = Len(jobs) + 1
        /\ DOMAIN jobs' = 1..(Len(jobs) + 1) /\ jobs'[Len(jobs) + 1] = w
        /\ \A i \in DOMAIN jobs : i \in DOMAIN jobs' /\ jobs'[i] = jobs[i]
    BY <1>2, JobFacts
  <1>4. QED  BY <1>3 DEF w, JobsKept

LEMMA CreateJobStep == ASSUME IInv, NEW r \in Runs, CreateJob(r) PROVE IInv'
  <1>1. PICK s \in Known(r) :
          /\ jobs' = Append(jobs, NewRow(r, s))
          /\ run' = [run EXCEPT ![r].pc = "fetch", ![r].todo = @ \ {s}, ![r].source = s,
                                ![r].job = Len(jobs) + 1]
    BY DEF CreateJob
  <1>2. s \in run[r].todo /\ s \in Sources /\ RoomFor(r, s) # NoRoom
    BY RunFacts DEF Known
  <1> DEFINE t == run[r].todo \ {s}
             n == Len(jobs) + 1
             y == [run[r] EXCEPT !.pc = "fetch", !.todo = t, !.source = s, !.job = n]
  <1>3. run[r].pc = "loop" /\ ~Working(r) /\ run' = [run EXCEPT ![r] = y]
    BY <1>1 DEF CreateJob, Succeeds, At, Working
  <1>4. /\ t \in SUBSET Sources /\ n \in Nat /\ n # NoJob /\ "fetch" \in Pcs
        /\ s \in Sources \cup {NoSource}
    BY <1>2, RunFacts, JobFacts DEF NoJob, Pcs
  <1> HIDE DEF t, n
  <1>5. y \in Locals  BY <1>4, RunFacts, ZenonT(40) DEF Locals
  <1>6. /\ run'[r] = y
        /\ y.pc = "fetch" /\ y.todo = t /\ y.phase = run[r].phase /\ y.job = n
        /\ y.source = s /\ y.addr = run[r].addr
        /\ y.saved = run[r].saved /\ y.synced = run[r].synced /\ y.failed = run[r].failed
        /\ y.skipped = run[r].skipped /\ y.counted = run[r].counted
    BY <1>3, <1>5, RunFacts DEF Locals
  <1> HIDE DEF y
  <1>7. UNCHANGED <<messages, roomIn, running, indexed, notices, cut, bounds>>
    BY DEF CreateJob
  <1>8. /\ jobs' \in Seq(JobRows) /\ Len(jobs') = n /\ DOMAIN jobs' = 1..n
        /\ jobs'[n] = NewRow(r, s)
        /\ \A i \in DOMAIN jobs : i \in DOMAIN jobs' /\ jobs'[i] = jobs[i]
        /\ JobsKept(r)
    BY <1>1, <1>2, InsertEffect DEF n
  <1>9. Working(r)' /\ Reported(r)' = Reported(r)
    BY <1>6 DEF Working, Reported
  <1>10. Dealt(r)' = Dealt(r)  BY <1>2, <1>3, <1>6, <1>9 DEF Dealt, t
  <1>11. Shape(r)' /\ Indexed(r)'
    BY <1>3, <1>4, <1>6, <1>9, ShapeFacts DEF Shape, Indexed, Current, bounds
  <1>12. OwnRow(r)'
    <2>1. RoomFor(r, s)' = RoomFor(r, s)  BY <1>6 DEF RoomFor
    <2>2. QED  BY <1>2, <1>6, <1>8, <2>1 DEF OwnRow, NewRow
  <1>13. Items(r)'  BY <1>6, <1>7, ShapeFacts DEF Items
  <1>14. Backed(r)'  BY <1>6, <1>8, ShapeFacts DEF Backed
  <1>15. OnePlace(r)'
    <2>1. s \notin Reported(r) \cup t /\ Reported(r) \cap t = {}
      BY <1>2, ShapeFacts DEF OnePlace, t
    <2>2. QED  BY <1>6, <1>9, <2>1, ShapeFacts DEF OnePlace
  <1>16. NoneLost(r)'  BY <1>3, <1>6, <1>7, <1>9, <1>10, ShapeFacts DEF NoneLost, bounds
  <1>17. RunInv(r)'  BY <1>11, <1>12, <1>13, <1>14, <1>15, <1>16 DEF RunInv
  <1>18. RunningJobIsWorkedOn'
    <2>1. SUFFICES ASSUME NEW i \in DOMAIN jobs', jobs'[i].status = "running"
                   PROVE  \/ \E q \in Runs : run'[q].job = i
                          \/ \E cause \in Causes : <<i, cause>> \in cut'
      BY DEF RunningJobIsWorkedOn
    <2>2. CASE i = n  BY <1>6, <2>2
    <2>3. CASE i # n
      <3>1. i \in DOMAIN jobs  BY <1>8, <2>3, JobFacts DEF n
      <3>2. jobs[i].status = "running"  BY <1>8, <2>1, <3>1
      <3>3. CASE \E cause \in Causes : <<i, cause>> \in cut  BY <1>7, <3>3
      <3>4. CASE \E q \in Runs : run[q].job = i
        <4>1. PICK q \in Runs : run[q].job = i  BY <3>4
        <4>2. run[r].job = NoJob  BY <1>3, ShapeFacts DEF Shape
        <4>3. i # NoJob  BY <3>1, JobFacts DEF NoJob
        <4>4. run'[q] = run[q]  BY <1>3, <4>1, <4>2, <4>3, RunFacts
        <4>5. QED  BY <4>1, <4>4
      <3>5. QED  BY <3>1, <3>2, <3>3, <3>4, JobFacts DEF RunningJobIsWorkedOn
    <2>4. QED  BY <2>2, <2>3
  <1>19. cut' \subseteq (DOMAIN jobs') \X Causes
    BY <1>7, <1>8, JobFacts
  <1>20. y.job \in 0..Len(jobs') /\ Len(jobs) <= Len(jobs')
    BY <1>4, <1>6, <1>8, JobFacts DEF n
  <1>21. QED
    BY <1>3, <1>5, <1>6, <1>7, <1>8, <1>17, <1>18, <1>19, <1>20, JobStep

LEMMA CreateJobFailsStep == ASSUME IInv, NEW r \in Runs, CreateJobFails(r) PROVE IInv'
  <1>1. PICK s \in Known(r) :
          /\ run' = [run EXCEPT ![r].todo = @ \ {s}, ![r].failed = @ \cup {s}]
          /\ \/ UNCHANGED <<jobs, cut>>
             \/ /\ ~run[r].dead
                /\ jobs' = Append(jobs, NewRow(r, s))
                /\ cut' = cut \cup {<<Len(jobs) + 1, "insert">>}
    BY DEF CreateJobFails
  <1>2. s \in run[r].todo /\ s \in Sources  BY RunFacts DEF Known
  <1> DEFINE t == run[r].todo \ {s}
             f == run[r].failed \cup {s}
             y == [run[r] EXCEPT !.todo = t, !.failed = f]
  <1>3. run[r].pc = "loop" /\ ~Working(r) /\ run' = [run EXCEPT ![r] = y]
    BY <1>1 DEF CreateJobFails, At, Working
  <1>4. t \in SUBSET Sources /\ f \in SUBSET Sources  BY <1>2, RunFacts
  <1> HIDE DEF t, f
  <1>5. y \in Locals  BY <1>4, RunFacts, ZenonT(40) DEF Locals
  <1>6. /\ run'[r] = y
        /\ y.pc = "loop" /\ y.todo = t /\ y.phase = run[r].phase /\ y.job = run[r].job
        /\ y.saved = run[r].saved /\ y.synced = run[r].synced /\ y.failed = f
        /\ y.skipped = run[r].skipped /\ y.counted = run[r].counted
    BY <1>3, <1>5, RunFacts DEF Locals
  <1> HIDE DEF y
  <1>7. UNCHANGED <<messages, roomIn, running, indexed, notices, bounds>>
    BY DEF CreateJobFails
  <1>8. ~Working(r)' /\ Reported(r)' = Reported(r) \cup {s}
    BY <1>6 DEF Working, Reported, f
  <1>9. Dealt(r)' = Dealt(r)  BY <1>2, <1>3, <1>6, <1>8 DEF Dealt, t
  <1>10. Shape(r)' /\ OwnRow(r)' /\ Indexed(r)'
    BY <1>3, <1>6, <1>8, ShapeFacts DEF Shape, OwnRow, Indexed, Current, bounds
  <1>11. Items(r)'  BY <1>6, <1>7, ShapeFacts DEF Items
  <1>12. OnePlace(r)'
    <2>1. /\ run[r].synced \cap f = {} /\ f \cap run[r].skipped = {}
          /\ (Reported(r) \cup {s}) \cap t = {}
      BY <1>2, ShapeFacts DEF OnePlace, Reported, t, f
    <2>2. QED  BY <1>6, <1>8, <2>1, ShapeFacts DEF OnePlace
  <1>13. NoneLost(r)'  BY <1>3, <1>6, <1>7, <1>8, <1>9, ShapeFacts DEF NoneLost, bounds
  <1>14. CASE UNCHANGED <<jobs, cut>>
    <2>1. Backed(r)'  BY <1>6, <1>14, ShapeFacts DEF Backed
    <2>2. RunInv(r)'  BY <1>10, <1>11, <1>12, <1>13, <2>1 DEF RunInv
    <2>3. IF r = Hourly THEN running' = (y.pc # "idle") ELSE running' = running
      BY <1>3, <1>6, <1>7, HourlyRuns DEF At
    <2>4. QED
      BY <1>3, <1>5, <1>6, <1>7, <1>14, <2>2, <2>3, ShapeFacts, SameNotices, QuietStep DEF bounds
  <1>15. CASE /\ jobs' = Append(jobs, NewRow(r, s))
              /\ cut' = cut \cup {<<Len(jobs) + 1, "insert">>}
    <2>1. /\ jobs' \in Seq(JobRows) /\ Len(jobs') = Len(jobs) + 1
          /\ DOMAIN jobs' = 1..(Len(jobs) + 1)
          /\ \A i \in DOMAIN jobs : i \in DOMAIN jobs' /\ jobs'[i] = jobs[i]
          /\ JobsKept(r)
      BY <1>2, <1>15, InsertEffect
    <2>2. Backed(r)'  BY <1>6, <2>1, ShapeFacts DEF Backed
    <2>3. RunInv(r)'  BY <1>10, <1>11, <1>12, <1>13, <2>2 DEF RunInv
    <2>4. \A q \in Runs : run'[q].job = run[q].job  BY <1>3, <1>6, RunFacts
    <2>5. RunningJobIsWorkedOn'
      <3>1. SUFFICES ASSUME NEW i \in DOMAIN jobs', jobs'[i].status = "running"
                     PROVE  \/ \E q \in Runs : run'[q].job = i
                            \/ \E cause \in Causes : <<i, cause>> \in cut'
        BY DEF RunningJobIsWorkedOn
      <3>2. CASE i = Len(jobs) + 1  BY <1>15, <3>2 DEF Causes
      <3>3. CASE i # Len(jobs) + 1
        <4>1. i \in DOMAIN jobs  BY <2>1, <3>3, JobFacts
        <4>2. jobs[i].status = "running"  BY <2>1, <3>1, <4>1
        <4>3. QED  BY <1>15, <2>4, <4>1, <4>2, JobFacts DEF RunningJobIsWorkedOn
      <3>4. QED  BY <3>2, <3>3
    <2>6. cut' \subseteq (DOMAIN jobs') \X Causes
      <3>1. Len(jobs) + 1 \in DOMAIN jobs' /\ "insert" \in Causes  BY <2>1, JobFacts DEF Causes
      <3>2. cut \subseteq (DOMAIN jobs') \X Causes  BY <2>1, JobFacts
      <3>3. QED  BY <1>15, <3>1, <3>2
    <2>7. y.job \in 0..Len(jobs') /\ Len(jobs) <= Len(jobs')
      BY <1>6, <2>1, JobFacts
    <2>8. QED
      BY <1>3, <1>5, <1>6, <1>7, <2>1, <2>3, <2>5, <2>6, <2>7, JobStep
  <1>16. QED  BY <1>1, <1>14, <1>15

(* What the UPDATE of finishJob does to the table.                         *)
LEMMA SettleEffect ==
  ASSUME IInv, NEW r \in Runs, Working(r), NEW st \in {"finished", "failed"},
         jobs' = Settled(r, st)
  PROVE  /\ jobs' \in Seq(JobRows) /\ Len(jobs') = Len(jobs)
         /\ run[r].job \in DOMAIN jobs
         /\ jobs'[run[r].job].status = st
         /\ jobs'[run[r].job].by = r /\ jobs'[run[r].job].source = run[r].source
         /\ \A i \in DOMAIN jobs : i # run[r].job => jobs'[i] = jobs[i]
  <1> DEFINE n == run[r].job
             k == Cardinality(run[r].saved)
             w == [jobs[n] EXCEPT !.status = st, !.count = k]
  <1>1. n \in DOMAIN jobs
    BY ShapeFacts, JobFacts DEF Shape, NoJob
  <1>2. k \in Nat  BY ShapeFacts, FS_CardinalityType DEF Items
  <1>3. jobs' = [jobs EXCEPT ![n] = w]  BY <1>1, JobFacts DEF Settled
  <1>4. jobs[n] \in JobRows /\ jobs[n].by = r /\ jobs[n].source = run[r].source
    BY <1>1, ShapeFacts, JobFacts DEF OwnRow
  <1> HIDE DEF k, n
  <1>5. w \in JobRows /\ w.status = st /\ w.by = r /\ w.source = run[r].source
    BY <1>2, <1>4 DEF JobRows
  <1> HIDE DEF w
  <1>6. /\ jobs' \in Seq(JobRows) /\ Len(jobs') = Len(jobs) /\ jobs'[n] = w
        /\ \A i \in DOMAIN jobs : i # n => jobs'[i] = jobs[i]
    BY <1>1, <1>3, <1>5, JobFacts
  <1>7. QED  BY <1>1, <1>5, <1>6 DEF n

(* syncChat returns: its source is reported, and its row is settled unless *)
(* the write that should have done so failed.                              *)
LEMMA LeaveStep ==
  ASSUME IInv, NEW r \in Runs, Working(r), NEW y \in Locals, run' = [run EXCEPT ![r] = y],
         y.pc = "loop", y.job = NoJob, y.saved = {}, y.todo = run[r].todo,
         y.phase = run[r].phase, y.skipped = run[r].skipped,
         \/ /\ y.synced = run[r].synced \cup {run[r].source} /\ y.failed = run[r].failed
            /\ y.counted = run[r].counted \cup run[r].saved
            /\ jobs' = Settled(r, "finished")
         \/ /\ y.failed = run[r].failed \cup {run[r].source} /\ y.synced = run[r].synced
            /\ y.counted = run[r].counted,
         \/ /\ jobs' = jobs
            /\ \E cause \in Causes : cut' = cut \cup {<<run[r].job, cause>>}
         \/ (\E st \in {"finished", "failed"} : jobs' = Settled(r, st)) /\ cut' = cut,
         UNCHANGED <<messages, roomIn, running, indexed, notices, bounds>>
  PROVE  IInv'
  <1> DEFINE n == run[r].job
  <1>1. n \in DOMAIN jobs /\ n # NoJob /\ run[r].pc # "idle" /\ run[r].source \in Sources
    BY ShapeFacts, JobFacts DEF Shape, NoJob, Working, OwnRow
  <1>2. /\ jobs' \in Seq(JobRows) /\ Len(jobs') = Len(jobs)
        /\ jobs'[n].by = r /\ jobs'[n].source = run[r].source
        /\ \A i \in DOMAIN jobs : i # n => jobs'[i] = jobs[i]
    BY SettleEffect, ShapeFacts, JobFacts DEF OwnRow
  <1>3. jobs'[n].status # "running" \/ \E cause \in Causes : <<n, cause>> \in cut'
    <2>1. CASE \E st \in {"finished", "failed"} : jobs' = Settled(r, st)
      BY <2>1, SettleEffect
    <2>2. QED  BY <2>1
  <1>4. DOMAIN jobs' = DOMAIN jobs  BY <1>2, JobFacts
  <1>5. cut \subseteq cut' /\ cut' \subseteq (DOMAIN jobs') \X Causes
    BY <1>1, <1>4, JobFacts
  <1>6. jobs[n].by = r /\ jobs[n].status = "running"  BY ShapeFacts DEF OwnRow
  <1>7. JobsKept(r)  BY <1>2, <1>4, <1>6 DEF JobsKept
  <1>8. run'[r] = y  BY RunFacts
  <1>9. ~Working(r)' /\ Reported(r)' = Reported(r) \cup {run[r].source}
    BY <1>8 DEF Working, Reported
  <1>10. Dealt(r)' = Dealt(r)  BY <1>8, <1>9 DEF Dealt
  <1>11. Shape(r)' /\ OwnRow(r)' /\ Indexed(r)'
    BY <1>8, <1>9 DEF Shape, OwnRow, Indexed, Current, bounds
  <1>12. Items(r)'
    <2>1. y.counted \subseteq messages  BY ShapeFacts DEF Items
    <2>2. QED  BY <1>8, <2>1, FS_EmptySet DEF Items
  <1>13. Backed(r)'
    <2>1. SUFFICES ASSUME NEW s \in y.synced
                   PROVE  \E i \in DOMAIN jobs' :
                            jobs'[i].source = s /\ jobs'[i].by = r /\ jobs'[i].status = "finished"
      BY <1>8 DEF Backed
    <2>2. CASE s \in run[r].synced
      <3>1. PICK i \in DOMAIN jobs : jobs[i].source = s /\ jobs[i].by = r /\ jobs[i].status = "finished"
        BY <2>2, ShapeFacts DEF Backed
      <3>2. i # n  BY <1>6, <3>1
      <3>3. QED  BY <1>2, <1>4, <3>1, <3>2
    <2>3. CASE s \notin run[r].synced
      <3>1. s = run[r].source /\ jobs' = Settled(r, "finished")  BY <2>1, <2>3
      <3>2. jobs'[n].status = "finished"  BY <3>1, SettleEffect
      <3>3. QED  BY <1>1, <1>2, <1>4, <3>1, <3>2
    <2>4. QED  BY <2>2, <2>3
  <1>14. OnePlace(r)'
    <2>1. run[r].source \notin Reported(r) \cup run[r].todo  BY ShapeFacts DEF OnePlace
    <2>2. /\ y.synced \cap y.failed = {} /\ y.synced \cap run[r].skipped = {}
          /\ y.failed \cap run[r].skipped = {}
      BY <2>1, ShapeFacts DEF OnePlace, Reported
    <2>3. (Reported(r) \cup {run[r].source}) \cap run[r].todo = {}
      BY <2>1, ShapeFacts DEF OnePlace
    <2>4. QED  BY <1>8, <1>9, <2>2, <2>3 DEF OnePlace
  <1>15. NoneLost(r)'  BY <1>8, <1>9, <1>10, ShapeFacts DEF NoneLost, bounds
  <1>16. RunInv(r)'  BY <1>11, <1>12, <1>13, <1>14, <1>15 DEF RunInv
  <1>17. RunningJobIsWorkedOn'
    <2>1. SUFFICES ASSUME NEW i \in DOMAIN jobs, jobs'[i].status = "running"
                   PROVE  \/ \E q \in Runs : run'[q].job = i
                          \/ \E cause \in Causes : <<i, cause>> \in cut'
      BY <1>4 DEF RunningJobIsWorkedOn
    <2>2. CASE i = n  BY <1>3, <2>1, <2>2
    <2>3. CASE i # n
      <3>1. jobs[i].status = "running"  BY <1>2, <2>1, <2>3
      <3>2. CASE \E cause \in Causes : <<i, cause>> \in cut  BY <1>5, <3>2
      <3>3. CASE \E q \in Runs : run[q].job = i
        <4>1. PICK q \in Runs : run[q].job = i  BY <3>3
        <4>2. run'[q] = run[q]  BY <2>3, <4>1, RunFacts
        <4>3. QED  BY <4>1, <4>2
      <3>4. QED  BY <3>1, <3>2, <3>3, JobFacts DEF RunningJobIsWorkedOn
    <2>4. QED  BY <2>2, <2>3
  <1>18. y.job \in 0..Len(jobs') /\ Len(jobs) <= Len(jobs')
    BY <1>2, JobFacts DEF NoJob
  <1>19. QED
    BY <1>1, <1>2, <1>5, <1>7, <1>16, <1>17, <1>18, JobStep

LEMMA SourceFailsEffect ==
  ASSUME IInv, NEW r \in Runs, Working(r), SourceFails(r)
  PROVE  \E y \in Locals :
           /\ run' = [run EXCEPT ![r] = y]
           /\ y.pc = "loop" /\ y.job = NoJob /\ y.saved = {} /\ y.todo = run[r].todo
           /\ y.phase = run[r].phase /\ y.skipped = run[r].skipped
           /\ y.failed = run[r].failed \cup {run[r].source} /\ y.synced = run[r].synced
           /\ y.counted = run[r].counted
  <1> DEFINE f == run[r].failed \cup {run[r].source}
             l == Left(r)
             y == [l EXCEPT !.failed = f]
  <1>1. /\ f \in SUBSET Sources /\ NoSource \in Sources \cup {NoSource} /\ "loop" \in Pcs
        /\ NoJob \in Nat /\ {} \in SUBSET Msgs
    BY RunFacts, ShapeFacts DEF OwnRow, Pcs, NoJob
  <1>2. /\ l \in Locals
        /\ l.pc = "loop" /\ l.job = NoJob /\ l.saved = {} /\ l.todo = run[r].todo
        /\ l.phase = run[r].phase /\ l.skipped = run[r].skipped
        /\ l.synced = run[r].synced /\ l.counted = run[r].counted
    BY <1>1, RunFacts, ZenonT(40) DEF Left, Locals
  <1>3. run' = [run EXCEPT ![r] = y]  BY DEF SourceFails
  <1> HIDE DEF f, l
  <1>4. /\ y \in Locals
        /\ y.pc = l.pc /\ y.job = l.job /\ y.saved = l.saved /\ y.todo = l.todo
        /\ y.phase = l.phase /\ y.skipped = l.skipped /\ y.failed = f
        /\ y.synced = l.synced /\ y.counted = l.counted
    BY <1>1, <1>2 DEF Locals
  <1> HIDE DEF y
  <1>5. QED  BY <1>2, <1>3, <1>4 DEF f

LEMMA SourceSyncedEffect ==
  ASSUME IInv, NEW r \in Runs, Working(r), SourceSynced(r)
  PROVE  \E y \in Locals :
           /\ run' = [run EXCEPT ![r] = y]
           /\ y.pc = "loop" /\ y.job = NoJob /\ y.saved = {} /\ y.todo = run[r].todo
           /\ y.phase = run[r].phase /\ y.skipped = run[r].skipped
           /\ y.synced = run[r].synced \cup {run[r].source} /\ y.failed = run[r].failed
           /\ y.counted = run[r].counted \cup run[r].saved
  <1> DEFINE d == run[r].synced \cup {run[r].source}
             c == run[r].counted \cup run[r].saved
             l == Left(r)
             y == [l EXCEPT !.synced = d, !.counted = c]
  <1>1. /\ d \in SUBSET Sources /\ c \in SUBSET Msgs
        /\ NoSource \in Sources \cup {NoSource} /\ "loop" \in Pcs
        /\ NoJob \in Nat /\ {} \in SUBSET Msgs
    BY RunFacts, ShapeFacts DEF OwnRow, Pcs, NoJob
  <1>2. /\ l \in Locals
        /\ l.pc = "loop" /\ l.job = NoJob /\ l.saved = {} /\ l.todo = run[r].todo
        /\ l.phase = run[r].phase /\ l.skipped = run[r].skipped /\ l.failed = run[r].failed
    BY <1>1, RunFacts, ZenonT(40) DEF Left, Locals
  <1>3. run' = [run EXCEPT ![r] = y]  BY DEF SourceSynced
  <1> HIDE DEF d, c, l
  <1>4. /\ y \in Locals
        /\ y.pc = l.pc /\ y.job = l.job /\ y.saved = l.saved /\ y.todo = l.todo
        /\ y.phase = l.phase /\ y.skipped = l.skipped /\ y.failed = l.failed
        /\ y.synced = d /\ y.counted = c
    BY <1>1, <1>2 DEF Locals
  <1> HIDE DEF y
  <1>5. QED  BY <1>2, <1>3, <1>4 DEF d, c

LEMMA FinishStep == ASSUME IInv, NEW r \in Runs, Finish(r) PROVE IInv'
  <1>1. Working(r) /\ jobs' = Settled(r, "finished") /\ cut' = cut
    BY DEF Finish, Succeeds, At, Working
  <1>2. UNCHANGED <<messages, roomIn, running, indexed, notices, bounds>>  BY DEF Finish
  <1>3. PICK y \in Locals :
           /\ run' = [run EXCEPT ![r] = y]
           /\ y.pc = "loop" /\ y.job = NoJob /\ y.saved = {} /\ y.todo = run[r].todo
           /\ y.phase = run[r].phase /\ y.skipped = run[r].skipped
           /\ y.synced = run[r].synced \cup {run[r].source} /\ y.failed = run[r].failed
           /\ y.counted = run[r].counted \cup run[r].saved
    BY <1>1, SourceSyncedEffect DEF Finish
  <1>4. QED  BY <1>1, <1>2, <1>3, LeaveStep

LEMMA FailStep == ASSUME IInv, NEW r \in Runs, Fail(r) PROVE IInv'
  <1>1. Working(r) /\ jobs' = Settled(r, "failed") /\ cut' = cut
    BY DEF Fail, Succeeds, At, Working
  <1>2. UNCHANGED <<messages, roomIn, running, indexed, notices, bounds>>  BY DEF Fail
  <1>3. PICK y \in Locals :
           /\ run' = [run EXCEPT ![r] = y]
           /\ y.pc = "loop" /\ y.job = NoJob /\ y.saved = {} /\ y.todo = run[r].todo
           /\ y.phase = run[r].phase /\ y.skipped = run[r].skipped
           /\ y.failed = run[r].failed \cup {run[r].source} /\ y.synced = run[r].synced
           /\ y.counted = run[r].counted
    BY <1>1, SourceFailsEffect DEF Fail
  <1>4. QED  BY <1>1, <1>2, <1>3, LeaveStep

LEMMA FinishFailsStep == ASSUME IInv, NEW r \in Runs, FinishFails(r) PROVE IInv'
  <1>1. Working(r)  BY DEF FinishFails, At, Working
  <1>2. UNCHANGED <<messages, roomIn, running, indexed, notices, bounds>>  BY DEF FinishFails
  <1>3. PICK y \in Locals :
           /\ run' = [run EXCEPT ![r] = y]
           /\ y.pc = "loop" /\ y.job = NoJob /\ y.saved = {} /\ y.todo = run[r].todo
           /\ y.phase = run[r].phase /\ y.skipped = run[r].skipped
           /\ y.failed = run[r].failed \cup {run[r].source} /\ y.synced = run[r].synced
           /\ y.counted = run[r].counted
    BY <1>1, SourceFailsEffect DEF FinishFails
  <1>4. \/ jobs' = jobs /\ \E cause \in Causes : cut' = cut \cup {<<run[r].job, cause>>}
        \/ (\E st \in {"finished", "failed"} : jobs' = Settled(r, st)) /\ cut' = cut
    <2>1. CASE /\ cut' = cut \cup {<<run[r].job, IF run[r].dead THEN "context" ELSE "update">>}
               /\ UNCHANGED jobs
      <3>1. PICK cause \in Causes : cause = IF run[r].dead THEN "context" ELSE "update"
        BY DEF Causes
      <3>2. QED  BY <2>1, <3>1
    <2>2. CASE /\ jobs' = Settled(r, IF At(r, "fail") THEN "failed" ELSE "finished")
               /\ UNCHANGED cut
      <3>1. PICK st \in {"finished", "failed"} : st = IF At(r, "fail") THEN "failed" ELSE "finished"
        OBVIOUS
      <3>2. QED  BY <2>2, <3>1
    <2>3. QED  BY <2>1, <2>2 DEF FinishFails
  <1>5. QED  BY <1>1, <1>2, <1>3, <1>4, LeaveStep

LEMMA CrashStep == ASSUME IInv, Crash PROVE IInv'
  <1>1. /\ UNCHANGED <<jobs, messages, roomIn, indexed, notices, selected, starts, outdated>>
        /\ running' = FALSE /\ crashes' = crashes + 1 /\ crashes < MaxCrashes
        /\ run' = [r \in Runs |-> NotRunning]
        /\ cut' = cut \cup {<<run[r].job, "crash">> : r \in {q \in Runs : run[q].job # NoJob}}
    BY DEF Crash
  <1>2. \A r \in Runs : run'[r] = NotRunning /\ run'[r].job = 0 /\ run'[r].pc = "idle"
    BY <1>1 DEF NotRunning, NoJob
  <1>3. \A r \in Runs : RunInv(r)'  BY <1>2, IdleAfter
  <1>4. TypeOK'
    <2>1. run' \in [Runs -> Locals]  BY <1>1, NotRunningType
    <2>2. \A r \in Runs : run'[r].job \in 0..Len(jobs')  BY <1>1, <1>2, JobFacts
    <2>3. cut' \subseteq (DOMAIN jobs') \X Causes
      <3>1. \A r \in Runs : run[r].job # NoJob => run[r].job \in DOMAIN jobs
        BY JobFacts DEF NoJob
      <3>2. "crash" \in Causes  BY DEF Causes
      <3>3. QED  BY <1>1, <3>1, <3>2, JobFacts
    <2>4. crashes' \in 0..MaxCrashes
      BY <1>1, LimitsAssumption DEF IInv, TypeOK
    <2>5. QED  BY <1>1, <2>1, <2>2, <2>3, <2>4 DEF IInv, TypeOK
  <1>5. RunningJobIsWorkedOn'
    <2>1. SUFFICES ASSUME NEW i \in DOMAIN jobs, jobs[i].status = "running"
                   PROVE  \E cause \in Causes : <<i, cause>> \in cut'
      BY <1>1 DEF RunningJobIsWorkedOn
    <2>2. CASE \E q \in Runs : run[q].job = i
      <3>1. PICK q \in Runs : run[q].job = i  BY <2>2
      <3>2. i # NoJob /\ "crash" \in Causes  BY JobFacts DEF NoJob, Causes
      <3>3. QED  BY <1>1, <3>1, <3>2
    <2>3. QED  BY <1>1, <2>1, <2>2, JobFacts DEF RunningJobIsWorkedOn
  <1>6. DoneNoticeIsIndexed'  BY <1>1 DEF IInv, DoneNoticeIsIndexed, Current
  <1>7. LockIsHeldByRun'
    <2>1. run'[Hourly].pc = "idle"  BY <1>2 DEF Runs
    <2>2. QED  BY <1>1, <2>1 DEF LockIsHeldByRun, At
  <1>8. QED  BY <1>3, <1>4, <1>5, <1>6, <1>7 DEF IInv

(* A message that leaves the window makes less, not more, to be found.     *)
LEMMA AgeStep == ASSUME IInv, NEW m \in Aging, Age(m) PROVE IInv'
  <1>1. /\ UNCHANGED <<run, jobs, messages, roomIn, running, indexed, notices, cut, selected,
                      starts, crashes>>
        /\ outdated' = outdated \cup {m}
    BY DEF Age
  <1>2. TypeOK'  BY <1>1 DEF IInv, TypeOK
  <1>3. Current' \subseteq Current  BY <1>1 DEF Current
  <1>4. \A r \in Runs : RunInv(r)'
    <2>1. SUFFICES ASSUME NEW r \in Runs PROVE RunInv(r)'
      OBVIOUS
    <2>2. Shape(r)' /\ OwnRow(r)' /\ Items(r)' /\ Backed(r)'
      BY <1>1, ShapeFacts DEF Shape, OwnRow, Items, Backed, Working, Reported, RoomFor
    <2>3. OnePlace(r)' /\ NoneLost(r)'
      BY <1>1, ShapeFacts DEF OnePlace, NoneLost, Dealt, Working, Reported
    <2>4. Indexed(r)'  BY <1>1, <1>3, ShapeFacts DEF Indexed
    <2>5. QED  BY <2>2, <2>3, <2>4 DEF RunInv
  <1>5. RunningJobIsWorkedOn' /\ DoneNoticeIsIndexed' /\ LockIsHeldByRun'
    BY <1>1, <1>3 DEF IInv, RunningJobIsWorkedOn, DoneNoticeIsIndexed, LockIsHeldByRun, At
  <1>6. QED  BY <1>2, <1>4, <1>5 DEF IInv

-----------------------------------------------------------------------------
(* The theorems *)

LEMMA NextIInv == ASSUME IInv, Next PROVE IInv'
  <1>1. CASE Tick  BY <1>1, TickStep
  <1>2. CASE HourlyStep
    BY <1>2, SessionLoadedStep, SessionMissingStep, IndexBuiltStep, IndexFailsStep, NotifyStep
    DEF HourlyStep
  <1>3. CASE \E r \in Requests : Request(r)  BY <1>3, RequestStep
  <1>4. ASSUME NEW r \in Runs, Step(r) PROVE IInv'
    <2>1. CASE \/ ChatsListed(r) \/ ContactsListed(r) \/ ListFails(r) \/ Resolve(r)
               \/ ResolveFails(r) \/ Skip(r) \/ ContactsDone(r) \/ Fetch(r) \/ FetchFails(r)
               \/ Save(r) \/ SaveFails(r)
      BY <2>1, ChatsListedStep, ContactsListedStep, ListFailsStep, ResolveStep, ResolveFailsStep,
         SkipStep, ContactsDoneStep, FetchStep, FetchFailsStep, SaveStep, SaveFailsStep
    <2>2. CASE CreateJob(r) \/ CreateJobFails(r) \/ Finish(r) \/ Fail(r) \/ FinishFails(r)
      BY <2>2, CreateJobStep, CreateJobFailsStep, FinishStep, FailStep, FinishFailsStep
    <2>3. QED  BY <1>4, <2>1, <2>2 DEF Step
  <1>5. ASSUME NEW r \in Runs, Expire(r) PROVE IInv'  BY <1>5, ExpireStep
  <1>6. CASE Crash  BY <1>6, CrashStep
  <1>7. CASE \E m \in Aging : Age(m)  BY <1>7, AgeStep
  <1>8. QED  BY <1>1, <1>2, <1>3, <1>4, <1>5, <1>6, <1>7 DEF Next

LEMMA StutterIInv == ASSUME IInv, UNCHANGED vars PROVE IInv'
  <1> USE DEF vars, bounds
  <1>1. TypeOK'  BY DEF IInv, TypeOK
  <1>2. \A r \in Runs : RunInv(r)'
    <2>1. SUFFICES ASSUME NEW r \in Runs PROVE RunInv(r)'
      OBVIOUS
    <2>2. Shape(r)' /\ OwnRow(r)' /\ Items(r)' /\ Backed(r)' /\ Indexed(r)'
      BY ShapeFacts DEF Shape, OwnRow, Items, Backed, Indexed, Current, Working, Reported, RoomFor
    <2>3. OnePlace(r)' /\ NoneLost(r)'
      BY ShapeFacts DEF OnePlace, NoneLost, Dealt, Working, Reported
    <2>4. QED  BY <2>2, <2>3 DEF RunInv
  <1>3. RunningJobIsWorkedOn' /\ DoneNoticeIsIndexed' /\ LockIsHeldByRun'
    BY DEF IInv, RunningJobIsWorkedOn, DoneNoticeIsIndexed, Current, LockIsHeldByRun, At
  <1>4. QED  BY <1>1, <1>2, <1>3 DEF IInv

(* IInv is an inductive invariant of the history sync.                     *)
THEOREM HistoryInvariant == Spec => []IInv
  <1>1. IInv /\ [Next]_vars => IInv'  BY NextIInv, StutterIInv
  <1>2. QED  BY <1>1, InitIInv, PTL DEF Spec

(* Every variable keeps its type: a run's job is a row of the table, and   *)
(* what it holds in hand are sources and messages that exist.              *)
THEOREM TypeCorrect == Spec => []TypeOK
  <1>1. IInv => TypeOK  BY DEF IInv
  <1>2. QED  BY <1>1, HistoryInvariant, PTL

(* No path through syncChat leaves a row "running" behind, unless one of   *)
(* the row's own writes failed or the server crashed.                      *)
THEOREM JobsAreSettled == Spec => []RunningJobIsWorkedOn
  <1>1. IInv => RunningJobIsWorkedOn  BY DEF IInv
  <1>2. QED  BY <1>1, HistoryInvariant, PTL

(* The result a run reports is backed by finished rows of its own and by   *)
(* stored messages, however many runs overlap.                             *)
THEOREM ReportsAreBacked == Spec => []ReportIsBacked
  <1>1. IInv => ReportIsBacked
    <2>1. SUFFICES ASSUME IInv, NEW r \in Runs
                   PROVE  Backed(r) /\ run[r].counted \subseteq messages
      BY DEF ReportIsBacked, Backed
    <2>2. QED  BY <2>1, ShapeFacts DEF Items
  <1>2. QED  BY <1>1, HistoryInvariant, PTL

(* Each source is reported exactly once, and none is left out by the time  *)
(* a run goes on to the index.                                             *)
THEOREM SourcesAreReported == Spec => []EverySourceReported
  <1>1. IInv => EverySourceReported
    <2>1. SUFFICES ASSUME IInv, NEW r \in Runs
                   PROVE  LET seen == <<run[r].synced, run[r].failed, run[r].skipped, run[r].todo>> IN
                          /\ \A i, j \in 1..4 : i # j => seen[i] \cap seen[j] = {}
                          /\ run[r].pc = "index" =>
                               run[r].synced \cup run[r].failed \cup run[r].skipped = selected
      BY DEF EverySourceReported
    <2> DEFINE a == run[r].synced
               b == run[r].failed
               c == run[r].skipped
               d == run[r].todo
    <2>2. /\ a \cap b = {} /\ a \cap c = {} /\ b \cap c = {}
          /\ a \cap d = {} /\ b \cap d = {} /\ c \cap d = {}
      BY <2>1, ShapeFacts DEF OnePlace, Reported
    <2>3. run[r].pc = "index" => a \cup b \cup c = selected
      BY <2>1, ShapeFacts DEF NoneLost, Reported
    <2> HIDE DEF a, b, c, d
    <2>4. \A i, j \in 1..4 : i # j => <<a, b, c, d>>[i] \cap <<a, b, c, d>>[j] = {}
      BY <2>2
    <2>5. QED  BY <2>3, <2>4 DEF a, b, c, d
  <1>2. QED  BY <1>1, HistoryInvariant, PTL

(* Whoever is told that the hourly sync is complete: each message the      *)
(* notice counts was in what its build wrote, unless it has no text or has *)
(* left the window.                                                        *)
THEOREM DoneNoticesAreIndexed == Spec => []DoneNoticeIsIndexed
  <1>1. IInv => DoneNoticeIsIndexed  BY DEF IInv
  <1>2. QED  BY <1>1, HistoryInvariant, PTL

(* The scheduler's flag is set exactly while the hourly run is at work.    *)
THEOREM LockIsReleased == Spec => []LockIsHeldByRun
  <1>1. IInv => LockIsHeldByRun  BY DEF IInv
  <1>2. QED  BY <1>1, HistoryInvariant, PTL

=============================================================================
