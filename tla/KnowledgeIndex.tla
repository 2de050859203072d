--------------------------- MODULE KnowledgeIndex ---------------------------
(***************************************************************************)
(* BuildIndex of internal/knowledge/service.go: the messages of a chat and *)
(* a day become a knowledge unit, and the unit's text is cut into chunks,  *)
(* which are what a question retrieves.  The scheduler and POST /index may *)
(* run it at the same time, each with a window of days of its own, while   *)
(* messages arrive.                                                        *)
(*                                                                         *)
(* A build reads all its units with one query, works from that snapshot,   *)
(* and writes per unit: the row of knowledge_units, the unit's rows of     *)
(* knowledge_unit_messages (DELETE and INSERTs in a transaction), then     *)
(* chunk by chunk.  Each write may fail, which ends the build with an      *)
(* error, as does a crash.                                                 *)
(*                                                                         *)
(* A message is its place in time order, and counts as one rune of text.   *)
(***************************************************************************)
EXTENDS Naturals, FiniteSets

CONSTANTS
  Msgs,      \* messages with text, numbered in the order they were sent
  Early,     \* those in the table from the start
  Units,     \* "chat_id:date"
  UnitOf,    \* UnitOf[m]: the chat and day of m
  NoUnit,
  Builders,  \* calls of BuildIndex
  MaxBuilds, \* bound on the builds that are started
  MaxRunes,  \* splitContent's maxRunes (3200)
  Overlap    \* splitContent's overlap (400)

ASSUME MsgsAssumption ==
  /\ Msgs \subseteq Nat /\ IsFiniteSet(Msgs) /\ Early \subseteq Msgs
  /\ UnitOf \in [Msgs -> Units] /\ NoUnit \notin Units
ASSUME SplitAssumption == MaxRunes \in Nat /\ Overlap \in Nat /\ Overlap < MaxRunes
ASSUME BuildsAssumption == MaxBuilds \in Nat

VARIABLES
  messages,  \* rows of messages
  content,   \* content[u], u with a row in knowledge_units: the messages in its text
  links,     \* rows of knowledge_unit_messages: <<u, m>>
  chunks,    \* chunks[u, i], i from 0, with a row in knowledge_chunks: the messages in it
  build,     \* build[b]: the locals of build b; .pc is the write it is about to make
  builds     \* builds started

tables == <<content, links, chunks>>
vars == <<messages, tables, build, builds>>

Idle ==
  [pc |-> "idle",
   snap |-> << >>,      \* snap[u]: the text of unit u, as the query returned it
   todo |-> {},         \* units still to come
   unit |-> NoUnit, idx |-> 0,  \* the unit and the chunk it is at
   alone |-> TRUE,      \* no other build ran since its query (a history variable)
   fresh |-> TRUE]      \* no other build replaced the links it has deleted

Init ==
  /\ messages = Early
  /\ content = << >> /\ links = {} /\ chunks = << >>
  /\ build = [b \in Builders |-> Idle]
  /\ builds = 0

\* INSERT ... ON CONFLICT DO UPDATE of the row of key k.
Upsert(table, k, v) == [j \in DOMAIN table \cup {k} |-> IF j = k THEN v ELSE table[j]]

Active(b) == build[b].pc # "idle"
At(b, label) == build[b].pc = label

\* The text that build b has for the unit it is at.
Text(b) == build[b].snap[build[b].unit]

LinksOf(u) == {link \in links : link[1] = u}

-----------------------------------------------------------------------------
(* splitContent: windows of MaxRunes, the next Overlap runes before the    *)
(* end of the last, until one reaches the end of the text.                 *)

Rank(text, m) == Cardinality({n \in text : n < m})

Piece(text, i) ==
  LET start == i * (MaxRunes - Overlap) IN
  {m \in text : start <= Rank(text, m) /\ Rank(text, m) < start + MaxRunes}

\* Mutant: the loop has no break.
NeverLast(text, i) == FALSE

IsLast(text, i) == i * (MaxRunes - Overlap) + MaxRunes >= Cardinality(text)

-----------------------------------------------------------------------------
(* The messages table, which others fill *)

Store(m) ==
  /\ m \notin messages
  /\ messages' = messages \cup {m}
  /\ UNCHANGED <<tables, build, builds>>

-----------------------------------------------------------------------------
(* BuildIndex *)

\* Mutant: the rows are not grouped, so each unit gets the text of all.
LoadUngrouped(b) ==
  /\ At(b, "idle")
  /\ builds < MaxBuilds
  /\ builds' = builds + 1
  /\ build' = [build EXCEPT ![b].pc = "unit",
                            ![b].snap = [u \in {UnitOf[m] : m \in messages} |-> messages],
                            ![b].todo = {UnitOf[m] : m \in messages}]
  /\ UNCHANGED <<messages, tables>>

\* loadUnitCandidates: the messages sent since `from`, by chat and day.  Where
\* the window of days begins depends on the request and the time of day.
Load(b) ==
  /\ At(b, "idle")
  /\ builds < MaxBuilds
  /\ builds' = builds + 1
  /\ \E from \in messages :
       LET found == {m \in messages : m >= from}
           days == {UnitOf[m] : m \in found} IN
       build' = [c \in Builders |->
         IF c = b
           THEN [Idle EXCEPT !.pc = "unit", !.todo = days,
                             !.snap = [u \in days |-> {m \in found : UnitOf[m] = u}],
                             !.alone = \A d \in Builders \ {b} : ~Active(d)]
           ELSE [build[c] EXCEPT !.alone = ~Active(c)]]
  /\ UNCHANGED <<messages, tables>>

\* upsertUnit
UpsertUnit(b) ==
  /\ At(b, "unit")
  /\ \E u \in build[b].todo :
       /\ content' = Upsert(content, u, build[b].snap[u])
       /\ build' = [build EXCEPT ![b].pc = "delete", ![b].unit = u, ![b].todo = @ \ {u}]
  /\ UNCHANGED <<messages, links, chunks, builds>>

\* replaceUnitMessages up to its DELETE, which nobody else sees yet.
DeleteLinks(b) ==
  /\ At(b, "delete")
  /\ build' = [build EXCEPT ![b].pc = "insert", ![b].fresh = TRUE]
  /\ UNCHANGED <<messages, tables, builds>>

\* Mutant: the transaction only inserts.
InsertLinksOnly(b) ==
  /\ At(b, "insert")
  /\ links' = links \cup ({build[b].unit} \X Text(b))
  /\ build' = [build EXCEPT ![b].pc = "chunk", ![b].idx = 0]
  /\ UNCHANGED <<messages, content, chunks, builds>>

\* Its INSERTs and the COMMIT.  The rows another build has committed since the
\* DELETE were not there for it, and stay.
InsertLinks(b) ==
  LET u == build[b].unit IN
  /\ At(b, "insert")
  /\ links' = (IF build[b].fresh THEN links \ LinksOf(u) ELSE links) \cup ({u} \X Text(b))
  /\ build' = [c \in Builders |->
       IF c = b THEN [build[b] EXCEPT !.pc = "chunk", !.idx = 0]
       ELSE [build[c] EXCEPT !.fresh = @ /\ build[c].unit # u]]
  /\ UNCHANGED <<messages, content, chunks, builds>>

\* Mutant: the last piece first.
UpsertChunkBackwards(b) ==
  LET u == build[b].unit
      i == CHOOSE k \in 0..Cardinality(Text(b)) :
             IsLast(Text(b), k) /\ \A n \in 0..k : IsLast(Text(b), n) => n = k IN
  /\ At(b, "chunk")
  /\ chunks' = Upsert(chunks, <<u, i - build[b].idx>>, Piece(Text(b), i - build[b].idx))
  /\ build' = [build EXCEPT ![b].idx = @ + 1,
                            ![b].pc = IF build[b].idx = i THEN "unit" ELSE "chunk"]
  /\ UNCHANGED <<messages, content, links, builds>>

\* Embed and upsertChunk of one piece of the text.
UpsertChunk(b) ==
  LET u == build[b].unit
      i == build[b].idx IN
  /\ At(b, "chunk")
  /\ chunks' = Upsert(chunks, <<u, i>>, Piece(Text(b), i))
  /\ build' = [build EXCEPT ![b].idx = i + 1,
                            ![b].pc = IF IsLast(Text(b), i) THEN "unit" ELSE "chunk"]
  /\ UNCHANGED <<messages, content, links, builds>>

\* Every unit is done: success.
Finished(b) == At(b, "unit") /\ build[b].todo = {}

Return(b) ==
  /\ Finished(b)
  /\ build' = [build EXCEPT ![b] = Idle]
  /\ UNCHANGED <<messages, tables, builds>>

\* A call fails, its deadline passes or the process dies: what was committed
\* stays, also what the failed call wrote.
Fail(b) ==
  /\ Active(b)
  /\ build' = [build EXCEPT ![b] = Idle]
  /\ UNCHANGED <<messages, tables, builds>>

Step(b) ==
  \/ Load(b) \/ UpsertUnit(b) \/ DeleteLinks(b) \/ InsertLinks(b)
  \/ UpsertChunk(b) \/ Return(b) \/ Fail(b)

Next ==
  \/ \E m \in Msgs : Store(m)
  \/ \E b \in Builders : Step(b)

Spec == Init /\ [][Next]_vars

-----------------------------------------------------------------------------
(* Properties *)

\* What knowledge_units, or a snapshot of it, may hold.
Texts == UNION {[days -> SUBSET Msgs] : days \in SUBSET Units}

Locals ==
  [pc : {"idle", "unit", "delete", "insert", "chunk"}, snap : Texts, todo : SUBSET Units,
   unit : Units \cup {NoUnit}, idx : Nat, alone : BOOLEAN, fresh : BOOLEAN]

TypeOK ==
  /\ messages \subseteq Msgs
  /\ content \in Texts
  /\ links \subseteq Units \X Msgs
  /\ DOMAIN chunks \subseteq Units \X Nat
  /\ build \in [Builders -> Locals]
  /\ \A b \in Builders : At(b, "chunk") => build[b].idx < Cardinality(Text(b))
  /\ builds \in 0..MaxBuilds

\* The messages of unit u that the table holds.
Stored(u) == {m \in messages : UnitOf[m] = u}

(* The index never mixes chats or days, however builds overlap or break    *)
(* off: the text of a unit, its links and its chunks hold stored messages  *)
(* of that unit only, and no chunk is empty.                               *)
UnitsDoNotMix ==
  /\ \A u \in DOMAIN content : content[u] \subseteq Stored(u)
  /\ \A link \in links : link[2] \in Stored(link[1])
  /\ \A k \in DOMAIN chunks : chunks[k] # {} /\ chunks[k] \subseteq Stored(k[1])

(* A chunk that a question retrieves can be traced: its unit has a row and *)
(* linked messages, and the pieces before it exist, since the source       *)
(* reference counts them.  Overlapping and broken builds keep this.        *)
ChunksTraceable ==
  \A k \in DOMAIN chunks :
    /\ k[1] \in DOMAIN content
    /\ LinksOf(k[1]) # {}
    /\ \A i \in 0..k[2] : <<k[1], i>> \in DOMAIN chunks

(* A build that succeeds while no other runs leaves the tables agreed on   *)
(* each unit it saw: the unit's text and links are the messages it read,   *)
(* and every one of them is in a chunk, whatever earlier builds that       *)
(* overlapped or broke off had left behind.                                *)
BuildCovers ==
  \A b \in Builders : Finished(b) /\ build[b].alone =>
    \A u \in DOMAIN build[b].snap :
      LET text == build[b].snap[u] IN
      /\ content[u] = text
      /\ LinksOf(u) = {u} \X text
      /\ \A m \in text : \E k \in DOMAIN chunks : k[1] = u /\ m \in chunks[k]

(* docs/knowledge-unit-strategy.md, translated: the messages of a chat on  *)
(* one day are joined, in time order, to one knowledge unit.  Of a day     *)
(* whose messages were all stored before the first build, so: a unit has   *)
(* all of them.                                                            *)
DayUnitComplete ==
  \A u \in DOMAIN content : {m \in Early : UnitOf[m] = u} \subseteq content[u]

=============================================================================
