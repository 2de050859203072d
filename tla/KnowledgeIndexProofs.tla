------------------------ MODULE KnowledgeIndexProofs ------------------------
(***************************************************************************)
(* Theorems about KnowledgeIndex for every finite set of messages, any     *)
(* units and chunk sizes, and any number of overlapping, failing builds.   *)
(***************************************************************************)
EXTENDS KnowledgeIndex, FunctionTheorems, FiniteSetTheorems, TLAPS

-----------------------------------------------------------------------------
(* Lemmas about the operators *)

\* A text has as many ranks as messages.
LEMMA RankBound ==
  ASSUME NEW text \in SUBSET Msgs, NEW m \in text
  PROVE  /\ Cardinality(text) \in Nat
         /\ Rank(text, m) \in Nat
         /\ Rank(text, m) < Cardinality(text)
  <1> DEFINE Before == {n \in text : n < m}
  <1>1. IsFiniteSet(text) /\ Cardinality(text) \in Nat
    BY MsgsAssumption, FS_Subset, FS_CardinalityType
  <1>2. m \in Nat /\ text \subseteq Nat  BY MsgsAssumption
  <1>3. Before \in SUBSET text /\ m \notin Before  BY <1>2
  <1>4. Before # text  BY <1>3
  <1>5. Cardinality(Before) \in Nat /\ Cardinality(Before) <= Cardinality(text)
        /\ Cardinality(Before) # Cardinality(text)
    BY <1>1, <1>3, <1>4, FS_Subset, FS_CardinalityType
  <1>6. QED  BY <1>1, <1>5 DEF Rank

\* Two messages never have the same rank.
LEMMA RankInjective ==
  ASSUME NEW text \in SUBSET Msgs, NEW m \in text, NEW n \in text, m # n
  PROVE  Rank(text, m) # Rank(text, n)
  <1>1. SUFFICES ASSUME NEW x \in text, NEW y \in text, x < y
                 PROVE  Rank(text, x) # Rank(text, y)
    <2>1. m \in Nat /\ n \in Nat  BY MsgsAssumption
    <2>2. m < n \/ n < m  BY <2>1
    <2>3. QED  BY <2>2, <1>1
  <1> DEFINE BeforeX == {z \in text : z < x}
  <1> DEFINE BeforeY == {z \in text : z < y}
  <1>2. text \subseteq Nat  BY MsgsAssumption
  <1>3. IsFiniteSet(BeforeY)
    <2>1. BeforeY \in SUBSET Msgs  OBVIOUS
    <2>2. QED  BY <2>1, MsgsAssumption, FS_Subset
  <1>4. BeforeX \in SUBSET BeforeY
    <2>1. \A z \in text : z < x => z < y
      <3>1. x \in Nat /\ y \in Nat /\ \A z \in text : z \in Nat  BY <1>2
      <3>2. QED  BY <1>1, <3>1
    <2>2. QED  BY <2>1
  <1>5. x \in BeforeY /\ x \notin BeforeX  BY <1>1, <1>2
  <1>6. Cardinality(BeforeX) # Cardinality(BeforeY)  BY <1>3, <1>4, <1>5, FS_Subset
  <1>7. QED  BY <1>6 DEF Rank

\* Every rank below the length of a text is the rank of one of its messages:
\* with one missing, two messages would have to share a rank.
LEMMA RankOnto ==
  ASSUME NEW text \in SUBSET Msgs, NEW r \in Nat, r < Cardinality(text)
  PROVE  \E m \in text : Rank(text, m) = r
  <1> SUFFICES ASSUME \A m \in text : Rank(text, m) # r  PROVE FALSE
    OBVIOUS
  <1> DEFINE n == Cardinality(text)
  <1> DEFINE Ranks == (0..(n - 1)) \ {r}
  <1> DEFINE f == [m \in text |-> Rank(text, m)]
  <1>1. IsFiniteSet(text) /\ n \in Nat
    BY MsgsAssumption, FS_Subset, FS_CardinalityType
  <1>2. IsFiniteSet(0..(n - 1)) /\ Cardinality(0..(n - 1)) = n
    <2>1. n - 1 \in Int /\ (0 > n - 1 => n = 0)  BY <1>1
    <2>2. IsFiniteSet(0..(n - 1))  BY <2>1, FS_Interval
    <2>3. Cardinality(0..(n - 1)) = IF 0 > n - 1 THEN 0 ELSE n - 1 - 0 + 1  BY <2>1, FS_Interval
    <2>4. QED  BY <1>1, <2>1, <2>2, <2>3
  <1>3. IsFiniteSet(Ranks) /\ Cardinality(Ranks) = n - 1
    <2>1. r \in 0..(n - 1)  BY <1>1
    <2>2. QED  BY <1>2, <2>1, FS_RemoveElement
  <1>4. f \in [text -> Ranks]  BY <1>1, RankBound
  <1>5. \E x, y \in text : x # y /\ f[x] = f[y]
    <2>1. Cardinality(Ranks) < Cardinality(text)  BY <1>1, <1>3
    <2> HIDE DEF f, Ranks
    <2>2. QED  BY <1>1, <1>3, <1>4, <2>1, FS_PigeonHole
  <1>6. QED  BY <1>5, RankInjective

\* The piece of a text that splitContent cuts at a place within it is not empty.
LEMMA PieceNotEmpty ==
  ASSUME NEW text \in SUBSET Msgs, NEW i \in Nat, i * (MaxRunes - Overlap) < Cardinality(text)
  PROVE  Piece(text, i) # {}
  <1>1. MaxRunes - Overlap \in Nat /\ MaxRunes \in Nat \ {0}  BY SplitAssumption
  <1> DEFINE start == i * (MaxRunes - Overlap)
  <1>2. start \in Nat  BY <1>1
  <1>3. PICK m \in text : Rank(text, m) = start  BY <1>2, RankOnto
  <1>4. m \in Piece(text, i)  BY <1>1, <1>2, <1>3 DEF Piece
  <1>5. QED  BY <1>4

-----------------------------------------------------------------------------
(* The inductive invariant *)

Writing == {"delete", "insert", "chunk"}

\* A build's snapshot groups stored messages by unit, and no unit in it is
\* empty; the unit it writes is one of them, and no longer to do.
Snapshot(b) ==
  /\ build[b].todo \subseteq DOMAIN build[b].snap
  /\ \A u \in DOMAIN build[b].snap :
       build[b].snap[u] # {} /\ build[b].snap[u] \subseteq Stored(u)
  /\ build[b].pc \in Writing => build[b].unit \in DOMAIN build[b].snap \ build[b].todo

Snapshots == \A b \in Builders : Snapshot(b)

\* What a build has written before the call it is at, whoever else writes.
Stage(b) ==
  /\ build[b].pc \in Writing => build[b].unit \in DOMAIN content
  /\ At(b, "chunk") =>
       /\ LinksOf(build[b].unit) # {}
       /\ build[b].idx * (MaxRunes - Overlap) < Cardinality(Text(b))
       /\ \A i \in 0..(build[b].idx - 1) : <<build[b].unit, i>> \in DOMAIN chunks

Stages == \A b \in Builders : Stage(b)

\* Message m is in a chunk of unit u: one that b has written, if it is at u.
Chunked(b, u, m) ==
  \E k \in DOMAIN chunks :
    /\ k[1] = u /\ m \in chunks[k]
    /\ build[b].unit = u /\ At(b, "chunk") => k[2] < build[b].idx

\* The messages of its text that the chunks written so far must hold.
Reached(b, u) ==
  IF build[b].unit = u /\ At(b, "chunk")
    THEN {m \in build[b].snap[u] :
            build[b].idx > 0 /\ Rank(build[b].snap[u], m) < (build[b].idx - 1) * (MaxRunes - Overlap) + MaxRunes}
    ELSE build[b].snap[u]

\* What a build that runs alone has achieved: for the units behind it, all that
\* BuildCovers promises, and for the one it writes, the part already written.
Progressing(b) == Active(b) /\ build[b].alone =>
  /\ \A c \in Builders \ {b} : ~Active(c)
  /\ At(b, "insert") => build[b].fresh
  /\ \A u \in DOMAIN build[b].snap \ build[b].todo :
       /\ content[u] = build[b].snap[u] /\ u \in DOMAIN content
       /\ ~(build[b].unit = u /\ build[b].pc \in {"delete", "insert"}) =>
            /\ LinksOf(u) = {u} \X build[b].snap[u]
            /\ \A m \in Reached(b, u) : Chunked(b, u, m)

Progress == \A b \in Builders : Progressing(b)

IInv ==
  /\ TypeOK
  /\ UnitsDoNotMix
  /\ ChunksTraceable
  /\ Snapshots
  /\ Stages
  /\ Progress

LEMMA InitIInv == Init => IInv
  <1> SUFFICES ASSUME Init PROVE IInv
    OBVIOUS
  <1> USE DEF Init, Idle
  <1>1. << >> \in Texts /\ DOMAIN << >> = {}  BY DEF Texts
  <1>2. TypeOK  BY <1>1, MsgsAssumption, BuildsAssumption DEF TypeOK, At, Locals
  <1>3. UnitsDoNotMix /\ ChunksTraceable  BY DEF UnitsDoNotMix, ChunksTraceable
  <1>4. Snapshots /\ Stages /\ Progress
    BY DEF Snapshots, Snapshot, Stages, Stage, Progress, Progressing, Writing, At, Active
  <1>5. QED  BY <1>2, <1>3, <1>4 DEF IInv

(* A row more in messages disturbs nothing.                                *)
LEMMA StoreKeeps == ASSUME IInv, NEW m \in Msgs, Store(m) PROVE IInv'
  <1> USE DEF Store, tables
  <1>1. \A u : Stored(u) \subseteq Stored(u)'  BY DEF Stored
  <1>2. TypeOK'  BY DEF IInv, TypeOK, At, Text
  <1>3. UnitsDoNotMix'  BY <1>1 DEF IInv, UnitsDoNotMix
  <1>4. ChunksTraceable'  BY DEF IInv, ChunksTraceable, LinksOf
  <1>5. Snapshots'  BY <1>1 DEF IInv, Snapshots, Snapshot
  <1>6. Stages'  BY DEF IInv, Stages, Stage, LinksOf, At, Text
  <1>7. Progress'  BY DEF IInv, Progress, Progressing, Active, At, LinksOf, Reached, Chunked
  <1>8. QED  BY <1>2, <1>3, <1>4, <1>5, <1>6, <1>7 DEF IInv

(* A build that ends, well or not, leaves the tables and the other builds  *)
(* as they are.                                                            *)
LEMMA EndKeeps ==
  ASSUME IInv, NEW b \in Builders, Return(b) \/ Fail(b)
  PROVE  IInv'
  <1>1. build' = [build EXCEPT ![b] = Idle] /\ UNCHANGED <<messages, content, links, chunks, builds>>
    BY DEF Return, Fail, tables
  <1>2. build'[b] = Idle /\ \A c \in Builders \ {b} : build'[c] = build[c]
    BY <1>1 DEF IInv, TypeOK
  <1>3. << >> \in Texts /\ DOMAIN << >> = {}  BY SMTT(60) DEF Texts
  <1>4. Idle.pc = "idle" /\ Idle.todo = {} /\ Idle.snap = << >> /\ Idle.idx = 0  BY DEF Idle
  <1>5. TypeOK'
    <2>1. build' \in [Builders -> Locals]
      BY <1>1, <1>3 DEF IInv, TypeOK, Idle, Locals
    <2>2. \A c \in Builders : At(c, "chunk")' => build'[c].idx < Cardinality(Text(c)')
      BY <1>2, <1>4 DEF IInv, TypeOK, At, Text
    <2>3. QED  BY <1>1, <2>1, <2>2 DEF IInv, TypeOK
  <1>6. UnitsDoNotMix'  BY <1>1 DEF IInv, UnitsDoNotMix, Stored
  <1>7. ChunksTraceable'  BY <1>1 DEF IInv, ChunksTraceable, LinksOf
  <1>8. Snapshots'  BY <1>1, <1>2, <1>3, <1>4 DEF IInv, Snapshots, Snapshot, Stored, Writing
  <1>9. Stages'  BY <1>1, <1>2, <1>4 DEF IInv, Stages, Stage, Writing, At, Text, LinksOf
  <1>10. Progress'
    BY <1>1, <1>2, <1>4 DEF IInv, Progress, Progressing, Active, At, LinksOf, Reached, Chunked
  <1>11. QED  BY <1>5, <1>6, <1>7, <1>8, <1>9, <1>10 DEF IInv

(* A query: a new snapshot of the table, of stored messages by unit.       *)
LEMMA LoadKeeps == ASSUME IInv, NEW b \in Builders, Load(b) PROVE IInv'
  <1>1. PICK from \in messages :
          LET found == {m \in messages : m >= from}
              days == {UnitOf[m] : m \in found} IN
          build' = [c \in Builders |->
            IF c = b
              THEN [Idle EXCEPT !.pc = "unit", !.todo = days,
                                !.snap = [u \in days |-> {m \in found : UnitOf[m] = u}],
                                !.alone = \A d \in Builders \ {b} : ~Active(d)]
              ELSE [build[c] EXCEPT !.alone = ~Active(c)]]
    BY DEF Load
  <1> DEFINE found == {m \in messages : m >= from}
  <1> DEFINE days == {UnitOf[m] : m \in found}
  <1> DEFINE snap == [u \in days |-> {m \in found : UnitOf[m] = u}]
  <1>2. UNCHANGED <<messages, content, links, chunks>> /\ builds' = builds + 1 /\ builds < MaxBuilds
    BY DEF Load, tables
  <1>3. /\ build'[b].pc = "unit" /\ build'[b].snap = snap /\ build'[b].todo = days
        /\ build'[b].unit = NoUnit /\ build'[b].idx = 0 /\ build'[b].fresh = TRUE
        /\ build'[b].alone = \A d \in Builders \ {b} : ~Active(d)
    BY <1>1 DEF Idle
  <1>4. \A c \in Builders \ {b} :
          /\ build'[c].pc = build[c].pc /\ build'[c].snap = build[c].snap
          /\ build'[c].todo = build[c].todo /\ build'[c].unit = build[c].unit
          /\ build'[c].idx = build[c].idx /\ build'[c].fresh = build[c].fresh
          /\ build'[c].alone = ~Active(c)
    BY <1>1 DEF IInv, TypeOK, Locals
  <1>5. messages \subseteq Msgs /\ found \subseteq messages  BY DEF IInv, TypeOK
  <1>6. days \subseteq Units  BY <1>5, MsgsAssumption
  <1>7. snap \in [days -> SUBSET Msgs] /\ snap \in Texts
    <2>1. snap \in [days -> SUBSET Msgs]  BY <1>5
    <2>2. QED  BY <2>1, <1>6 DEF Texts
  <1>8. \A u \in days : snap[u] # {} /\ snap[u] \subseteq Stored(u)
    BY <1>5 DEF Stored
  <1> HIDE DEF snap, days, found
  <1>9. TypeOK'
    <2>1. build' \in [Builders -> Locals]
      <3>1. build'[b] = [pc |-> "unit", snap |-> snap, todo |-> days, unit |-> NoUnit, idx |-> 0,
                         alone |-> (\A d \in Builders \ {b} : ~Active(d)), fresh |-> TRUE]
        BY <1>1 DEF Idle, snap, days, found
      <3>2. (\A d \in Builders \ {b} : ~Active(d)) \in BOOLEAN /\ \A c : (~Active(c)) \in BOOLEAN
        OBVIOUS
      <3>3. build'[b] \in Locals
        BY <3>1, <3>2, <1>6, <1>7 DEF Locals
      <3>4. \A c \in Builders \ {b} : build'[c] = [build[c] EXCEPT !.alone = ~Active(c)]
        BY <1>1
      <3>5. \A c \in Builders \ {b} :
              build'[c] \in Locals
        <4> TAKE c \in Builders \ {b}
        <4>1. build[c] \in Locals  BY DEF IInv, TypeOK
        <4>2. QED  BY <3>2, <3>4, <4>1 DEF Locals
      <3>6. DOMAIN build' = Builders /\ build' = [c \in Builders |-> build'[c]]  BY <1>1
      <3>7. QED  BY <3>3, <3>5, <3>6
    <2>2. \A c \in Builders : At(c, "chunk")' => build'[c].idx < Cardinality(Text(c)')
      BY <1>3, <1>4 DEF IInv, TypeOK, At, Text
    <2>3. builds' \in 0..MaxBuilds  BY <1>2, BuildsAssumption DEF IInv, TypeOK
    <2>4. QED  BY <1>2, <2>1, <2>2, <2>3 DEF IInv, TypeOK
  <1>10. UnitsDoNotMix'  BY <1>2 DEF IInv, UnitsDoNotMix, Stored
  <1>11. ChunksTraceable'  BY <1>2 DEF IInv, ChunksTraceable, LinksOf
  <1>12. Snapshots'
    <2>1. DOMAIN snap = days  BY <1>7
    <2>2. QED  BY <1>2, <1>3, <1>4, <1>8, <2>1 DEF IInv, Snapshots, Snapshot, Stored, Writing
  <1>13. Stages'  BY <1>2, <1>3, <1>4 DEF IInv, Stages, Stage, Writing, At, Text, LinksOf
  <1>14. Progress'
    <2>1. ASSUME NEW c \in Builders, Active(c)', build'[c].alone  PROVE c = b
      BY <2>1, <1>4 DEF Active
    <2>2. build'[b].alone => \A c \in Builders \ {b} : ~Active(c)'  BY <1>3, <1>4 DEF Active
    <2>3. DOMAIN build'[b].snap \ build'[b].todo = {}  BY <1>3, <1>7
    <2>4. ~At(b, "insert")'  BY <1>3 DEF At
    <2>5. QED  BY <2>1, <2>2, <2>3, <2>4 DEF Progress, Progressing
  <1>15. QED  BY <1>9, <1>10, <1>11, <1>12, <1>13, <1>14 DEF IInv

\* While a build runs alone, a step of build b is a step of that build.
LEMMA AloneIsActor ==
  ASSUME IInv, NEW b \in Builders, Active(b), NEW c \in Builders, Active(c), build[c].alone
  PROVE  c = b
  BY DEF IInv, Progress, Progressing

(* The row of a unit takes the text of the snapshot.                       *)
LEMMA UpsertUnitKeeps == ASSUME IInv, NEW b \in Builders, UpsertUnit(b) PROVE IInv'
  <1>1. PICK u \in build[b].todo :
          /\ content' = Upsert(content, u, build[b].snap[u])
          /\ build' = [build EXCEPT ![b].pc = "delete", ![b].unit = u, ![b].todo = @ \ {u}]
    BY DEF UpsertUnit
  <1>2. UNCHANGED <<messages, links, chunks, builds>> /\ At(b, "unit") /\ Active(b)
    BY DEF UpsertUnit, At, Active
  <1>3. build[b] \in Locals  BY DEF IInv, TypeOK
  <1>4. /\ build'[b] = [build[b] EXCEPT !.pc = "delete", !.unit = u, !.todo = @ \ {u}]
        /\ \A c \in Builders \ {b} : build'[c] = build[c]
    BY <1>1 DEF IInv, TypeOK
  <1>5. /\ build'[b].pc = "delete" /\ build'[b].unit = u /\ build'[b].todo = build[b].todo \ {u}
        /\ build'[b].snap = build[b].snap /\ build'[b].alone = build[b].alone
        /\ build'[b].idx = build[b].idx
    BY <1>3, <1>4 DEF Locals
  <1>6. u \in DOMAIN build[b].snap /\ u \in Units
        /\ build[b].snap[u] \subseteq Stored(u) /\ build[b].snap[u] # {}
    BY <1>3 DEF IInv, Snapshots, Snapshot, Locals
  <1>7. /\ DOMAIN content' = DOMAIN content \cup {u}
        /\ content'[u] = build[b].snap[u]
        /\ \A v \in DOMAIN content \ {u} : content'[v] = content[v]
    BY <1>1 DEF Upsert
  <1>8. TypeOK'
    <2>1. content' \in Texts
      <3>1. PICK days \in SUBSET Units : content \in [days -> SUBSET Msgs]
        BY DEF IInv, TypeOK, Texts
      <3>2. build[b].snap[u] \subseteq Msgs  BY <1>6 DEF Stored, IInv, TypeOK
      <3>3. content' \in [days \cup {u} -> SUBSET Msgs]  BY <1>1, <3>1, <3>2 DEF Upsert
      <3>4. QED  BY <3>3, <1>6 DEF Texts
    <2>2. build' \in [Builders -> Locals]
      <3>1. build'[b] \in Locals  BY <1>3, <1>4, <1>6 DEF Locals
      <3>2. QED  BY <1>1, <1>4, <3>1 DEF IInv, TypeOK
    <2>3. \A c \in Builders : At(c, "chunk")' => build'[c].idx < Cardinality(Text(c)')
      BY <1>4, <1>5 DEF IInv, TypeOK, At, Text
    <2>4. QED  BY <1>2, <2>1, <2>2, <2>3 DEF IInv, TypeOK
  <1>9. UnitsDoNotMix'  BY <1>2, <1>6, <1>7 DEF IInv, UnitsDoNotMix, Stored
  <1>10. ChunksTraceable'  BY <1>2, <1>7 DEF IInv, ChunksTraceable, LinksOf
  <1>11. Snapshots'
    <2>1. Snapshot(b)'
      BY <1>2, <1>5, <1>6 DEF IInv, Snapshots, Snapshot, Stored, Writing
    <2>2. \A c \in Builders \ {b} : Snapshot(c)'
      BY <1>2, <1>4 DEF IInv, Snapshots, Snapshot, Stored
    <2>3. QED  BY <2>1, <2>2 DEF Snapshots
  <1>12. Stages'
    <2>1. Stage(b)'  BY <1>5, <1>7 DEF Stage, At
    <2>2. \A c \in Builders \ {b} : Stage(c)'
      BY <1>2, <1>4, <1>7 DEF IInv, Stages, Stage, At, Text, LinksOf
    <2>3. QED  BY <2>1, <2>2 DEF Stages
  <1>13. Progress'
    <2> SUFFICES ASSUME NEW c \in Builders, Active(c)', build'[c].alone
                 PROVE  /\ \A d \in Builders \ {c} : ~Active(d)'
                        /\ At(c, "insert")' => build'[c].fresh
                        /\ \A v \in DOMAIN build'[c].snap \ build'[c].todo :
                             /\ content'[v] = build'[c].snap[v] /\ v \in DOMAIN content'
                             /\ ~(build'[c].unit = v /\ build'[c].pc \in {"delete", "insert"}) =>
                                  /\ LinksOf(v)' = {v} \X build'[c].snap[v]
                                  /\ \A m \in Reached(c, v)' : Chunked(c, v, m)'
      BY DEF Progress, Progressing
    <2>1. Active(c) /\ build[c].alone  BY <1>2, <1>4, <1>5 DEF Active
    <2>2. c = b  BY <1>2, <2>1, AloneIsActor
    <2>3. \A d \in Builders \ {c} : ~Active(d)'
      BY <1>4, <2>1, <2>2 DEF IInv, Progress, Progressing, Active
    <2>4. ASSUME NEW v \in DOMAIN build[b].snap \ build[b].todo
          PROVE  /\ v # u /\ content[v] = build[b].snap[v] /\ v \in DOMAIN content
                 /\ LinksOf(v) = {v} \X build[b].snap[v]
                 /\ \A m \in build[b].snap[v] : Chunked(b, v, m)
      BY <1>2, <2>1, <2>2, <2>4 DEF IInv, Progress, Progressing, At, Reached
    <2>5. ~At(c, "insert")' /\ ~At(c, "chunk")'  BY <1>5, <2>2 DEF At
    <2>6. ASSUME NEW v \in DOMAIN build'[c].snap \ build'[c].todo
          PROVE  /\ content'[v] = build'[c].snap[v] /\ v \in DOMAIN content'
                 /\ ~(build'[c].unit = v /\ build'[c].pc \in {"delete", "insert"}) =>
                      /\ LinksOf(v)' = {v} \X build'[c].snap[v]
                      /\ \A m \in Reached(c, v)' : Chunked(c, v, m)'
      <3>1. CASE v = u  BY <3>1, <1>5, <1>7, <2>2
      <3>2. CASE v # u
        <4>1. v \in DOMAIN build[b].snap \ build[b].todo  BY <3>2, <1>5, <2>2, <2>6
        <4>2. Reached(c, v)' = build[b].snap[v]  BY <1>5, <2>2, <2>5 DEF Reached
        <4>3. \A m : Chunked(b, v, m) => Chunked(b, v, m)'  BY <1>2, <2>2, <2>5 DEF Chunked, At
        <4>4. QED  BY <1>2, <1>5, <1>7, <2>2, <2>4, <4>1, <4>2, <4>3 DEF LinksOf
      <3>3. QED  BY <3>1, <3>2
    <2>7. QED  BY <2>3, <2>5, <2>6
  <1>14. QED  BY <1>8, <1>9, <1>10, <1>11, <1>12, <1>13 DEF IInv

(* The transaction begins: nothing is visible yet, and until it commits    *)
(* nobody else has committed.                                              *)
LEMMA DeleteLinksKeeps == ASSUME IInv, NEW b \in Builders, DeleteLinks(b) PROVE IInv'
  <1>0. build' = [build EXCEPT ![b].pc = "insert", ![b].fresh = TRUE]  BY DEF DeleteLinks
  <1>1. /\ UNCHANGED <<messages, content, links, chunks, builds>>
        /\ build[b].pc = "delete" /\ Active(b)
    BY DEF DeleteLinks, tables, At, Active
  <1>2. build[b] \in Locals  BY DEF IInv, TypeOK
  <1>3. /\ build'[b] = [build[b] EXCEPT !.pc = "insert", !.fresh = TRUE]
        /\ \A c \in Builders \ {b} : build'[c] = build[c]
    BY <1>0 DEF IInv, TypeOK
  <1>4. /\ build'[b].pc = "insert" /\ build'[b].fresh = TRUE /\ build'[b].unit = build[b].unit
        /\ build'[b].todo = build[b].todo /\ build'[b].snap = build[b].snap
        /\ build'[b].alone = build[b].alone /\ build'[b].idx = build[b].idx
    BY <1>2, <1>3 DEF Locals
  <1>5. TypeOK'
    <2>1. build' \in [Builders -> Locals]
      <3>1. build'[b] \in Locals  BY <1>2, <1>3 DEF Locals
      <3>2. QED  BY <1>0, <1>3, <3>1 DEF IInv, TypeOK
    <2>2. \A c \in Builders : At(c, "chunk")' => build'[c].idx < Cardinality(Text(c)')
      BY <1>3, <1>4 DEF IInv, TypeOK, At, Text
    <2>3. QED  BY <1>1, <2>1, <2>2 DEF IInv, TypeOK
  <1>6. UnitsDoNotMix'  BY <1>1 DEF IInv, UnitsDoNotMix, Stored
  <1>7. ChunksTraceable'  BY <1>1 DEF IInv, ChunksTraceable, LinksOf
  <1>8. Snapshots'
    <2>1. Snapshot(b)'
      BY <1>1, <1>4 DEF IInv, Snapshots, Snapshot, Stored, Writing, At
    <2>2. \A c \in Builders \ {b} : Snapshot(c)'
      BY <1>1, <1>3 DEF IInv, Snapshots, Snapshot, Stored
    <2>3. QED  BY <2>1, <2>2 DEF Snapshots
  <1>9. Stages'
    <2>1. Stage(b)'  BY <1>1, <1>4 DEF IInv, Stages, Stage, At, Writing
    <2>2. \A c \in Builders \ {b} : Stage(c)'
      BY <1>1, <1>3 DEF IInv, Stages, Stage, At, Text, LinksOf
    <2>3. QED  BY <2>1, <2>2 DEF Stages
  <1>10. Progress'
    <2>1. Progressing(b)'
      BY <1>1, <1>3, <1>4 DEF IInv, Progress, Progressing, Active, At, LinksOf, Reached, Chunked
    <2>2. \A c \in Builders \ {b} : Progressing(c)'
      <3> TAKE c \in Builders \ {b}
      <3>1. ~(Active(c)' /\ build'[c].alone)  BY <1>1, <1>3, AloneIsActor DEF Active
      <3>2. QED  BY <3>1 DEF Progressing
    <2>3. QED  BY <2>1, <2>2 DEF Progress
  <1>11. QED  BY <1>5, <1>6, <1>7, <1>8, <1>9, <1>10 DEF IInv

(* The transaction commits.  What it does to the rows of a unit that two   *)
(* builds rewrite at once is a union; of a unit nobody else touches, the   *)
(* text of the snapshot.                                                   *)
LEMMA InsertLinksKeeps == ASSUME IInv, NEW b \in Builders, InsertLinks(b) PROVE IInv'
  <1>u. PICK u : u = build[b].unit  OBVIOUS
  <1>t. PICK text : text = build[b].snap[u]  OBVIOUS
  <1>1. /\ build' = [c \in Builders |->
              IF c = b THEN [build[b] EXCEPT !.pc = "chunk", !.idx = 0]
              ELSE [build[c] EXCEPT !.fresh = @ /\ build[c].unit # u]]
        /\ links' = (IF build[b].fresh THEN links \ LinksOf(u) ELSE links) \cup ({u} \X text)
    BY <1>u, <1>t DEF InsertLinks, Text
  <1>2. /\ UNCHANGED <<messages, content, chunks, builds>>
        /\ build[b].pc = "insert" /\ Active(b)
    BY DEF InsertLinks, At, Active
  <1>3. \A c \in Builders : build[c] \in Locals  BY DEF IInv, TypeOK
  <1>4. /\ build'[b] = [build[b] EXCEPT !.pc = "chunk", !.idx = 0]
        /\ \A c \in Builders \ {b} :
             build'[c] = [build[c] EXCEPT !.fresh = build[c].fresh /\ build[c].unit # u]
    BY <1>1, <1>3 DEF Locals
  <1>5. /\ build'[b].pc = "chunk" /\ build'[b].idx = 0 /\ build'[b].unit = u
        /\ build'[b].todo = build[b].todo /\ build'[b].snap = build[b].snap
        /\ build'[b].alone = build[b].alone
    BY <1>3, <1>4, <1>u DEF Locals
  <1>6. \A c \in Builders \ {b} :
          /\ build'[c].pc = build[c].pc /\ build'[c].idx = build[c].idx
          /\ build'[c].unit = build[c].unit /\ build'[c].todo = build[c].todo
          /\ build'[c].snap = build[c].snap /\ build'[c].alone = build[c].alone
          /\ build'[c] \in Locals
    <2> TAKE c \in Builders \ {b}
    <2>1. build[c] \in Locals  BY <1>3
    <2>2. build'[c] = [build[c] EXCEPT !.fresh = build[c].fresh /\ build[c].unit # u]  BY <1>4
    <2>3. (build[c].fresh /\ build[c].unit # u) \in BOOLEAN  OBVIOUS
    <2>4. QED  BY <2>1, <2>2, <2>3 DEF Locals
  <1>7. /\ u \in DOMAIN build[b].snap \ build[b].todo /\ u \in Units /\ u \in DOMAIN content
        /\ text # {} /\ text \subseteq Stored(u)
    <2>1. u \in DOMAIN build[b].snap \ build[b].todo /\ u \in DOMAIN content
      BY <1>2, <1>u DEF IInv, Snapshots, Snapshot, Stages, Stage, Writing
    <2>2. u \in Units  BY <2>1, <1>3, MsgsAssumption DEF Locals, Texts
    <2>3. QED  BY <2>1, <2>2, <1>t DEF IInv, Snapshots, Snapshot
  <1>8. text \subseteq Msgs /\ Cardinality(text) \in Nat /\ 0 < Cardinality(text)
    <2>1. text \subseteq Msgs  BY <1>7 DEF Stored, IInv, TypeOK
    <2>2. PICK m \in text : TRUE  BY <1>7
    <2>3. QED  BY <2>1, <2>2, RankBound
  <1>9. /\ LinksOf(u)' # {}
        /\ \A v : v # u => LinksOf(v)' = LinksOf(v)
        /\ build[b].fresh => LinksOf(u)' = {u} \X text
    <2>1. LinksOf(u)' # {}
      <3>1. PICK m \in text : TRUE  BY <1>7
      <3>2. <<u, m>> \in links'  BY <1>1
      <3>3. QED  BY <3>2 DEF LinksOf
    <2>2. \A v : v # u => LinksOf(v)' = LinksOf(v)
      <3> SUFFICES ASSUME NEW v, v # u  PROVE LinksOf(v)' = LinksOf(v)
        OBVIOUS
      <3>1. \A link : link[1] = v => (link \in links' <=> link \in links)  BY <1>1 DEF LinksOf
      <3>2. QED  BY <3>1 DEF LinksOf
    <2>3. build[b].fresh => LinksOf(u)' = {u} \X text  BY <1>1 DEF LinksOf
    <2>4. QED  BY <2>1, <2>2, <2>3
  <1>10. Text(b)' = text  BY <1>5, <1>t DEF Text
  <1>11. TypeOK'
    <2>1. links' \subseteq Units \X Msgs  BY <1>1, <1>7, <1>8 DEF IInv, TypeOK
    <2>2. build' \in [Builders -> Locals]
      <3>1. build[b] \in Locals  BY <1>3
      <3>2. build'[b] \in Locals
        <4>1. build'[b] = [build[b] EXCEPT !.pc = "chunk", !.idx = 0]  BY <1>4
        <4>2. build'[b] = [pc |-> "chunk", snap |-> build[b].snap, todo |-> build[b].todo,
                           unit |-> build[b].unit, idx |-> 0, alone |-> build[b].alone,
                           fresh |-> build[b].fresh]
          BY <3>1, <4>1 DEF Locals
        <4>3. QED  BY <3>1, <4>2 DEF Locals
      <3>3. build' = [c \in Builders |-> build'[c]]  BY <1>1
      <3>4. QED  BY <1>6, <3>2, <3>3
    <2>3. At(b, "chunk")' => build'[b].idx < Cardinality(Text(b)')
      BY <1>5, <1>8, <1>10
    <2>4. \A c \in Builders \ {b} : At(c, "chunk")' => build'[c].idx < Cardinality(Text(c)')
      BY <1>6 DEF IInv, TypeOK, At, Text
    <2>5. QED  BY <1>2, <2>1, <2>2, <2>3, <2>4 DEF IInv, TypeOK
  <1>12. UnitsDoNotMix'
    <2>1. \A link \in links' : link[2] \in Stored(link[1])
      BY <1>1, <1>7 DEF IInv, UnitsDoNotMix
    <2>2. QED  BY <1>2, <2>1 DEF IInv, UnitsDoNotMix, Stored
  <1>13. ChunksTraceable'
    <2>1. \A v : LinksOf(v) # {} => LinksOf(v)' # {}  BY <1>9
    <2>2. QED  BY <1>2, <2>1 DEF IInv, ChunksTraceable
  <1>14. Snapshots'
    <2>1. Snapshot(b)'  BY <1>2, <1>5, <1>7 DEF IInv, Snapshots, Snapshot, Stored
    <2>2. \A c \in Builders \ {b} : Snapshot(c)'
      BY <1>2, <1>6 DEF IInv, Snapshots, Snapshot, Stored
    <2>3. QED  BY <2>1, <2>2 DEF Snapshots
  <1>15. Stages'
    <2>1. Stage(b)'
      <3>1. build'[b].idx * (MaxRunes - Overlap) = 0  BY <1>5, SplitAssumption
      <3>2. 0..(build'[b].idx - 1) = {}  BY <1>5
      <3>3. QED  BY <1>2, <1>5, <1>7, <1>8, <1>9, <1>10, <3>1, <3>2 DEF Stage, At
    <2>2. \A c \in Builders \ {b} : Stage(c)'
      <3> TAKE c \in Builders \ {b}
      <3>1. PICK v : v = build[c].unit  OBVIOUS
      <3>2. At(c, "chunk") => LinksOf(v) # {}  BY <3>1 DEF IInv, Stages, Stage
      <3>3. LinksOf(v) # {} => LinksOf(v)' # {}  BY <1>9
      <3>4. v' = v /\ build'[c].unit = v  BY <3>1, <1>6
      <3>5. /\ build[c].pc \in Writing => build[c].unit \in DOMAIN content
            /\ At(c, "chunk") =>
                 /\ build[c].idx * (MaxRunes - Overlap) < Cardinality(Text(c))
                 /\ \A i \in 0..(build[c].idx - 1) : <<build[c].unit, i>> \in DOMAIN chunks
        BY DEF IInv, Stages, Stage
      <3>6. Text(c)' = Text(c) /\ At(c, "chunk")' = At(c, "chunk")  BY <1>6 DEF Text, At
      <3>7. LinksOf(build[c].unit)' = LinksOf(v)'  BY <3>4, <1>6 DEF LinksOf
      <3>8. QED  BY <1>2, <1>6, <3>2, <3>3, <3>5, <3>6, <3>7 DEF Stage
    <2>3. QED  BY <2>1, <2>2 DEF Stages
  <1>16. Progress'
    <2>1. Progressing(b)'
      <3> SUFFICES ASSUME build[b].alone  PROVE Progressing(b)'
        BY <1>5 DEF Progressing
      <3>1. Progressing(b)  BY DEF IInv, Progress
      <3>2. build[b].fresh /\ \A d \in Builders \ {b} : ~Active(d)'
        BY <1>2, <1>6, <3>1 DEF Progressing, Active, At
      <3>3. ~At(b, "insert")'  BY <1>5 DEF At
      <3>4. \A v \in DOMAIN build'[b].snap \ build'[b].todo :
              content'[v] = build'[b].snap[v] /\ v \in DOMAIN content'
        BY <1>2, <1>5, <3>1 DEF Progressing
      <3>5. LinksOf(u)' = {u} \X build'[b].snap[u]  BY <1>5, <1>9, <3>2, <1>t
      <3>6. Reached(b, u)' = {}  BY <1>5 DEF Reached, At
      <3>7. ASSUME NEW v \in DOMAIN build'[b].snap \ build'[b].todo, v # u
            PROVE  /\ LinksOf(v)' = {v} \X build'[b].snap[v]
                   /\ \A m \in Reached(b, v)' : Chunked(b, v, m)'
        <4>1. LinksOf(v) = {v} \X build[b].snap[v] /\ \A m \in Reached(b, v) : Chunked(b, v, m)
          BY <1>2, <1>5, <3>1, <3>7, <1>u DEF Progressing
        <4>2. Reached(b, v)' = build[b].snap[v] /\ Reached(b, v) = build[b].snap[v]
          BY <1>5, <3>7, <1>u DEF Reached, At
        <4>3. \A m : Chunked(b, v, m) => Chunked(b, v, m)'
          BY <1>2, <1>5, <3>7, <1>u DEF Chunked, At
        <4>4. QED  BY <1>5, <1>9, <3>7, <4>1, <4>2, <4>3
      <3>8. QED  BY <3>2, <3>3, <3>4, <3>5, <3>6, <3>7 DEF Progressing
    <2>2. \A c \in Builders \ {b} : Progressing(c)'
      <3> TAKE c \in Builders \ {b}
      <3>1. ~(Active(c)' /\ build'[c].alone)  BY <1>2, <1>6, AloneIsActor DEF Active
      <3>2. QED  BY <3>1 DEF Progressing
    <2>3. QED  BY <2>1, <2>2 DEF Progress
  <1>17. QED  BY <1>11, <1>12, <1>13, <1>14, <1>15, <1>16 DEF IInv

\* Where a piece that is not the last ends, the next one begins within the text.
LEMMA NextPiece ==
  ASSUME NEW text \in SUBSET Msgs, NEW i \in Nat, ~IsLast(text, i)
  PROVE  (i + 1) * (MaxRunes - Overlap) < Cardinality(text)
  <1> DEFINE step == MaxRunes - Overlap
  <1>1. step \in Nat /\ MaxRunes \in Nat /\ step <= MaxRunes  BY SplitAssumption
  <1>2. Cardinality(text) \in Nat  BY MsgsAssumption, FS_Subset, FS_CardinalityType
  <1>3. i * step \in Nat /\ (i + 1) * step = i * step + step  BY <1>1
  <1>4. i * step + MaxRunes < Cardinality(text)  BY <1>1, <1>2, <1>3 DEF IsLast
  <1>5. QED  BY <1>1, <1>2, <1>3, <1>4

\* The place of a piece is at least its number.
LEMMA PlaceBoundsIndex ==
  ASSUME NEW i \in Nat
  PROVE  i <= i * (MaxRunes - Overlap)
  <1> DEFINE less == MaxRunes - Overlap - 1
  <1>1. less \in Nat /\ MaxRunes - Overlap = less + 1  BY SplitAssumption
  <1>2. i * (less + 1) = i * less + i /\ i * less \in Nat  BY <1>1
  <1>3. QED  BY <1>1, <1>2

\* A message that the pieces so far must hold is in one of them or in the next.
LEMMA ReachedOrInPiece ==
  ASSUME NEW text \in SUBSET Msgs, NEW m \in text, NEW i \in Nat,
         Rank(text, m) < i * (MaxRunes - Overlap) + MaxRunes
  PROVE  \/ m \in Piece(text, i)
         \/ i > 0 /\ Rank(text, m) < (i - 1) * (MaxRunes - Overlap) + MaxRunes
  <1> DEFINE step == MaxRunes - Overlap
  <1>1. step \in Nat /\ MaxRunes \in Nat /\ step <= MaxRunes  BY SplitAssumption
  <1>2. Rank(text, m) \in Nat  BY RankBound
  <1>3. CASE i * step <= Rank(text, m)  BY <1>3 DEF Piece
  <1>4. CASE ~(i * step <= Rank(text, m))
    <2>1. i * step \in Nat  BY <1>1
    <2>2. Rank(text, m) < i * step  BY <1>2, <1>4, <2>1
    <2>3. i # 0
      <3> SUFFICES ASSUME i = 0 PROVE FALSE
        OBVIOUS
      <3>1. i * step = 0  BY <1>1
      <3>2. QED  BY <1>2, <2>2, <3>1
    <2>4. i - 1 \in Nat /\ (i - 1) * step \in Nat  BY <1>1, <2>3
    <2>5. i * step = (i - 1) * step + step
      <3>1. i = (i - 1) + 1  OBVIOUS
      <3>2. ((i - 1) + 1) * step = (i - 1) * step + step  BY <1>1, <2>4
      <3>3. QED  BY <3>1, <3>2
    <2>6. QED  BY <1>1, <1>2, <2>2, <2>3, <2>4, <2>5
  <1>5. QED  BY <1>3, <1>4

(* One more piece of the text is written.                                  *)
LEMMA UpsertChunkKeeps == ASSUME IInv, NEW b \in Builders, UpsertChunk(b) PROVE IInv'
  <1>u. PICK u : u = build[b].unit  OBVIOUS
  <1>t. PICK text : text = build[b].snap[u]  OBVIOUS
  <1>i. PICK i : i = build[b].idx  OBVIOUS
  <1>1. /\ chunks' = Upsert(chunks, <<u, i>>, Piece(text, i))
        /\ build' = [build EXCEPT ![b].idx = i + 1,
                                  ![b].pc = IF IsLast(text, i) THEN "unit" ELSE "chunk"]
    BY <1>u, <1>t, <1>i DEF UpsertChunk, Text
  <1>2. /\ UNCHANGED <<messages, content, links, builds>>
        /\ build[b].pc = "chunk" /\ Active(b)
    BY DEF UpsertChunk, At, Active
  <1>3. build[b] \in Locals  BY DEF IInv, TypeOK
  <1>4. /\ build'[b] = [build[b] EXCEPT !.idx = i + 1,
                                        !.pc = IF IsLast(text, i) THEN "unit" ELSE "chunk"]
        /\ \A c \in Builders \ {b} : build'[c] = build[c]
    BY <1>1 DEF IInv, TypeOK
  <1>5. /\ build'[b].pc = (IF IsLast(text, i) THEN "unit" ELSE "chunk")
        /\ build'[b].idx = i + 1 /\ build'[b].unit = u
        /\ build'[b].todo = build[b].todo /\ build'[b].snap = build[b].snap
        /\ build'[b].alone = build[b].alone
    BY <1>3, <1>4, <1>u DEF Locals
  <1>6. /\ u \in DOMAIN build[b].snap \ build[b].todo /\ u \in DOMAIN content
        /\ text \subseteq Stored(u) /\ LinksOf(u) # {}
        /\ i * (MaxRunes - Overlap) < Cardinality(text)
        /\ \A j \in 0..(i - 1) : <<u, j>> \in DOMAIN chunks
    BY <1>2, <1>u, <1>t, <1>i DEF IInv, Snapshots, Snapshot, Stages, Stage, Writing, At, Text
  <1>7. /\ i \in Nat /\ u \in Units /\ text \in SUBSET Msgs /\ Cardinality(text) \in Nat
    <2>1. i \in Nat  BY <1>3, <1>i DEF Locals
    <2>2. u \in Units  BY <1>3, <1>6 DEF Locals, Texts
    <2>3. text \in SUBSET Msgs  BY <1>6 DEF Stored, IInv, TypeOK
    <2>4. Cardinality(text) \in Nat  BY <2>3, MsgsAssumption, FS_Subset, FS_CardinalityType
    <2>5. QED  BY <2>1, <2>2, <2>3, <2>4
  <1>8. Piece(text, i) # {} /\ Piece(text, i) \subseteq text
    BY <1>6, <1>7, PieceNotEmpty DEF Piece
  <1>9. /\ DOMAIN chunks' = DOMAIN chunks \cup {<<u, i>>}
        /\ chunks'[<<u, i>>] = Piece(text, i)
        /\ \A k \in DOMAIN chunks : k # <<u, i>> => chunks'[k] = chunks[k]
    BY <1>1 DEF Upsert
  <1>10. Text(b)' = text  BY <1>5, <1>t DEF Text
  <1>11. ~IsLast(text, i) =>
           /\ (i + 1) * (MaxRunes - Overlap) < Cardinality(text)
           /\ i + 1 < Cardinality(text)
    <2> SUFFICES ASSUME ~IsLast(text, i)
                 PROVE  /\ (i + 1) * (MaxRunes - Overlap) < Cardinality(text)
                        /\ i + 1 < Cardinality(text)
      OBVIOUS
    <2>1. (i + 1) * (MaxRunes - Overlap) < Cardinality(text)  BY <1>7, NextPiece
    <2>2. i + 1 \in Nat /\ (i + 1) * (MaxRunes - Overlap) \in Nat  BY <1>7, SplitAssumption
    <2>3. i + 1 <= (i + 1) * (MaxRunes - Overlap)  BY <2>2, PlaceBoundsIndex
    <2>4. QED  BY <1>7, <2>1, <2>2, <2>3
  <1>12. TypeOK'
    <2>1. DOMAIN chunks' \subseteq Units \X Nat  BY <1>7, <1>9 DEF IInv, TypeOK
    <2>2. build' \in [Builders -> Locals]
      <3>1. build'[b] \in Locals
        <4>1. build'[b] = [pc |-> IF IsLast(text, i) THEN "unit" ELSE "chunk",
                           snap |-> build[b].snap, todo |-> build[b].todo,
                           unit |-> build[b].unit, idx |-> i + 1, alone |-> build[b].alone,
                           fresh |-> build[b].fresh]
          BY <1>3, <1>4 DEF Locals
        <4>2. i + 1 \in Nat  BY <1>7
        <4>3. QED  BY <1>3, <4>1, <4>2 DEF Locals
      <3>2. QED  BY <1>1, <1>4, <3>1 DEF IInv, TypeOK
    <2>3. At(b, "chunk")' => build'[b].idx < Cardinality(Text(b)')
      BY <1>5, <1>10, <1>11 DEF At
    <2>4. \A c \in Builders \ {b} : At(c, "chunk")' => build'[c].idx < Cardinality(Text(c)')
      BY <1>4 DEF IInv, TypeOK, At, Text
    <2>5. QED  BY <1>2, <2>1, <2>2, <2>3, <2>4 DEF IInv, TypeOK
  <1>13. UnitsDoNotMix'
    <2>1. \A k \in DOMAIN chunks' : chunks'[k] # {} /\ chunks'[k] \subseteq Stored(k[1])
      <3> TAKE k \in DOMAIN chunks'
      <3>1. CASE k = <<u, i>>
        <4>1. k[1] = u /\ chunks'[k] = Piece(text, i)  BY <3>1, <1>9
        <4>2. QED  BY <4>1, <1>6, <1>8
      <3>2. CASE k # <<u, i>>  BY <3>2, <1>9 DEF IInv, UnitsDoNotMix
      <3>3. QED  BY <3>1, <3>2
    <2>2. QED  BY <1>2, <2>1 DEF IInv, UnitsDoNotMix, Stored
  <1>14. ChunksTraceable'
    <2> SUFFICES ASSUME NEW k \in DOMAIN chunks'
                 PROVE  /\ k[1] \in DOMAIN content'
                        /\ LinksOf(k[1])' # {}
                        /\ \A j \in 0..k[2] : <<k[1], j>> \in DOMAIN chunks'
      BY DEF ChunksTraceable
    <2>1. CASE k = <<u, i>>
      <3>1. k[1] = u /\ k[2] = i  BY <2>1
      <3>2. \A j \in 0..i : j = i \/ j \in 0..(i - 1)  BY <1>7
      <3>3. \A j \in 0..i : <<u, j>> \in DOMAIN chunks'  BY <1>6, <1>9, <3>2
      <3>4. QED  BY <1>2, <1>6, <3>1, <3>3 DEF LinksOf
    <2>2. CASE k # <<u, i>>
      <3>1. k \in DOMAIN chunks  BY <2>2, <1>9
      <3>2. QED  BY <1>2, <1>9, <3>1 DEF IInv, ChunksTraceable, LinksOf
    <2>3. QED  BY <2>1, <2>2
  <1>15. Snapshots'
    <2>1. Snapshot(b)'
      BY <1>2, <1>5, <1>6, <1>u DEF IInv, Snapshots, Snapshot, Stored
    <2>2. \A c \in Builders \ {b} : Snapshot(c)'
      BY <1>2, <1>4 DEF IInv, Snapshots, Snapshot, Stored
    <2>3. QED  BY <2>1, <2>2 DEF Snapshots
  <1>16. Stages'
    <2>1. Stage(b)'
      <3>1. \A j \in 0..i : j = i \/ j \in 0..(i - 1)  BY <1>7
      <3>2. \A j \in 0..(build'[b].idx - 1) : <<u, j>> \in DOMAIN chunks'
        BY <1>5, <1>6, <1>7, <1>9, <3>1
      <3>3. At(b, "chunk")' => ~IsLast(text, i)  BY <1>5 DEF At
      <3>4. LinksOf(build[b].unit)' # {} /\ build'[b].unit = build[b].unit
        BY <1>2, <1>5, <1>6, <1>u DEF LinksOf
      <3>5. QED  BY <1>2, <1>5, <1>6, <1>10, <1>11, <3>2, <3>3, <3>4 DEF Stage
    <2>2. \A c \in Builders \ {b} : Stage(c)'
      BY <1>2, <1>4, <1>9 DEF IInv, Stages, Stage, At, Text, LinksOf
    <2>3. QED  BY <2>1, <2>2 DEF Stages
  <1>17. Progress'
    <2>1. Progressing(b)'
      <3> SUFFICES ASSUME build[b].alone  PROVE Progressing(b)'
        BY <1>5 DEF Progressing
      <3>1. Progressing(b)  BY DEF IInv, Progress
      <3>2. \A d \in Builders \ {b} : ~Active(d)'  BY <1>2, <1>4, <3>1 DEF Progressing, Active
      <3>3. ~At(b, "insert")' /\ build'[b].pc \notin {"delete", "insert"}  BY <1>5 DEF At
      <3>4. ASSUME NEW v \in DOMAIN build'[b].snap \ build'[b].todo
            PROVE  /\ content'[v] = build'[b].snap[v] /\ v \in DOMAIN content'
                   /\ LinksOf(v)' = {v} \X build'[b].snap[v]
        BY <1>2, <1>5, <3>1, <3>4 DEF Progressing, LinksOf
      <3>5. ASSUME NEW v \in DOMAIN build'[b].snap \ build'[b].todo, v # u,
                   NEW m \in Reached(b, v)'
            PROVE  Chunked(b, v, m)'
        <4>1. m \in Reached(b, v)  BY <1>5, <1>u, <3>5 DEF Reached
        <4>2. Chunked(b, v, m)  BY <1>2, <1>5, <3>1, <3>5, <4>1 DEF Progressing
        <4>3. PICK k \in DOMAIN chunks : k[1] = v /\ m \in chunks[k]  BY <4>2 DEF Chunked
        <4>4. k # <<u, i>>  BY <4>3, <3>5
        <4>5. k \in DOMAIN chunks' /\ m \in chunks'[k]  BY <1>9, <4>3, <4>4
        <4>6. build'[b].unit # v  BY <1>5, <3>5
        <4>7. QED  BY <4>3, <4>5, <4>6 DEF Chunked
      <3>6. ASSUME NEW m \in Reached(b, u)'
            PROVE  Chunked(b, u, m)'
        <4>1. m \in text /\ Rank(text, m) < i * (MaxRunes - Overlap) + MaxRunes
          <5>1. CASE IsLast(text, i)
            <6>1. m \in text  BY <3>6, <5>1, <1>5, <1>t DEF Reached, At
            <6>2. i * (MaxRunes - Overlap) + MaxRunes \in Nat /\ Rank(text, m) \in Nat
                  /\ Rank(text, m) < Cardinality(text)
              BY <6>1, <1>7, SplitAssumption, RankBound
            <6>3. QED  BY <5>1, <6>1, <6>2, <1>7 DEF IsLast
          <5>2. CASE ~IsLast(text, i)
            <6>1. m \in text /\ Rank(text, m) < i * (MaxRunes - Overlap) + MaxRunes
              <7>1. build'[b].snap[u] = text /\ build'[b].idx = i + 1 /\ build'[b].unit = u
                    /\ build'[b].pc = "chunk"
                BY <5>2, <1>5, <1>t
              <7>2. Reached(b, u)' =
                      {n \in build'[b].snap[u] :
                         build'[b].idx > 0 /\ Rank(build'[b].snap[u], n)
                                               < (build'[b].idx - 1) * (MaxRunes - Overlap) + MaxRunes}
                BY <7>1, Zenon DEF Reached, At, Rank
              <7>3. /\ m \in build'[b].snap[u]
                    /\ Rank(build'[b].snap[u], m) < (build'[b].idx - 1) * (MaxRunes - Overlap) + MaxRunes
                BY <3>6, <7>2
              <7>4. build'[b].idx - 1 = i  BY <7>1, <1>7
              <7>5. Rank(build'[b].snap[u], m) = Rank(text, m)  BY <7>1, Zenon
              <7>6. QED  BY <7>1, <7>3, <7>4, <7>5, Zenon
            <6>2. QED  BY <6>1
          <5>3. QED  BY <5>1, <5>2
        <4>2. CASE m \in Piece(text, i)
          <5>1. <<u, i>> \in DOMAIN chunks' /\ m \in chunks'[<<u, i>>]  BY <4>2, <1>9
          <5>2. <<u, i>>[1] = u /\ <<u, i>>[2] < build'[b].idx  BY <1>5, <1>7
          <5>3. QED  BY <5>1, <5>2 DEF Chunked
        <4>3. CASE i > 0 /\ Rank(text, m) < (i - 1) * (MaxRunes - Overlap) + MaxRunes
          <5>1. m \in Reached(b, u)  BY <4>1, <4>3, <1>2, <1>u, <1>t, <1>i DEF Reached, At
          <5>2. Chunked(b, u, m)  BY <1>2, <1>6, <3>1, <5>1 DEF Progressing
          <5>3. PICK k \in DOMAIN chunks : k[1] = u /\ m \in chunks[k] /\ k[2] < i
            BY <5>2, <1>2, <1>u, <1>i DEF Chunked, At
          <5>4. k # <<u, i>> /\ k[2] < i + 1
            <6>1. k[2] \in Nat  BY DEF IInv, TypeOK
            <6>2. QED  BY <5>3, <6>1, <1>7
          <5>5. k \in DOMAIN chunks' /\ m \in chunks'[k]  BY <1>9, <5>3, <5>4
          <5>6. QED  BY <1>5, <5>3, <5>4, <5>5 DEF Chunked
        <4>4. QED  BY <1>7, <4>1, <4>2, <4>3, ReachedOrInPiece
      <3>7. QED  BY <3>2, <3>3, <3>4, <3>5, <3>6 DEF Progressing
    <2>2. \A c \in Builders \ {b} : Progressing(c)'
      <3> TAKE c \in Builders \ {b}
      <3>1. ~(Active(c)' /\ build'[c].alone)  BY <1>2, <1>4, AloneIsActor DEF Active
      <3>2. QED  BY <3>1 DEF Progressing
    <2>3. QED  BY <2>1, <2>2 DEF Progress
  <1>18. QED  BY <1>12, <1>13, <1>14, <1>15, <1>16, <1>17 DEF IInv

LEMMA NextIInv == IInv /\ [Next]_vars => IInv'
  <1> SUFFICES ASSUME IInv, [Next]_vars PROVE IInv'
    OBVIOUS
  <1>1. ASSUME NEW m \in Msgs, Store(m)  PROVE IInv'  BY <1>1, StoreKeeps
  <1>2. ASSUME NEW b \in Builders, Step(b)  PROVE IInv'
    BY <1>2, LoadKeeps, UpsertUnitKeeps, DeleteLinksKeeps, InsertLinksKeeps, UpsertChunkKeeps,
       EndKeeps DEF Step
  <1>3. CASE UNCHANGED vars
    <2>1. UNCHANGED <<messages, content, links, chunks, build, builds>>  BY <1>3 DEF vars, tables
    <2>2. TypeOK' /\ UnitsDoNotMix' /\ ChunksTraceable'
      BY <2>1 DEF IInv, TypeOK, At, Text, UnitsDoNotMix, Stored, ChunksTraceable, LinksOf
    <2>3. Snapshots' /\ Stages'
      BY <2>1 DEF IInv, Snapshots, Snapshot, Stored, Stages, Stage, At, Text, LinksOf
    <2>4. Progress'
      BY <2>1 DEF IInv, Progress, Progressing, Active, At, LinksOf, Reached, Chunked
    <2>5. QED  BY <2>2, <2>3, <2>4 DEF IInv
  <1>4. QED  BY <1>1, <1>2, <1>3 DEF Next

-----------------------------------------------------------------------------
(* The theorems *)

(* The inductive invariant holds for every BuildIndex and every window.    *)
THEOREM IndexInvariant == Spec => []IInv
  <1>1. QED  BY InitIInv, NextIInv, PTL DEF Spec

(* Types; and splitContent's loop ends: the number of the next piece stays *)
(* below the length of the text.                                           *)
THEOREM IndexTypes == Spec => []TypeOK
  <1>1. IInv => TypeOK  BY DEF IInv
  <1>2. QED  BY <1>1, IndexInvariant, PTL

(* Units, links and chunks of upsertUnit, replaceUnitMessages and          *)
(* upsertChunk never mix chats or days.                                    *)
THEOREM NoMixing == Spec => []UnitsDoNotMix
  <1>1. IInv => UnitsDoNotMix  BY DEF IInv
  <1>2. QED  BY <1>1, IndexInvariant, PTL

(* Whatever upsertChunk has written can be traced to a unit, its messages  *)
(* and the pieces before it.                                               *)
THEOREM Traceable == Spec => []ChunksTraceable
  <1>1. IInv => ChunksTraceable  BY DEF IInv
  <1>2. QED  BY <1>1, IndexInvariant, PTL

(* A BuildIndex that no other overlaps leaves units, links and chunks that *)
(* hold all it read, from whatever state earlier builds had left.          *)
THEOREM Covers == Spec => []BuildCovers
  <1>1. IInv => BuildCovers
    <2> SUFFICES ASSUME IInv, NEW b \in Builders, Finished(b), build[b].alone,
                        NEW u \in DOMAIN build[b].snap
                 PROVE  /\ content[u] = build[b].snap[u]
                        /\ LinksOf(u) = {u} \X build[b].snap[u]
                        /\ \A m \in build[b].snap[u] :
                             \E k \in DOMAIN chunks : k[1] = u /\ m \in chunks[k]
      BY DEF BuildCovers
    <2>1. build[b].pc = "unit" /\ Active(b) /\ u \notin build[b].todo
      BY DEF Finished, At, Active
    <2>2. Reached(b, u) = build[b].snap[u]  BY <2>1 DEF Reached, At
    <2>3. QED  BY <2>1, <2>2 DEF IInv, Progress, Progressing, Chunked
  <1>2. QED  BY <1>1, IndexInvariant, PTL

=============================================================================
