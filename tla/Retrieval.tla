----------------------------- MODULE Retrieval -----------------------------
(***************************************************************************)
(* Ask of internal/knowledge/service.go, over the answers of the model     *)
(* that internal/ai/openai/client.go parses: keywords of the question and  *)
(* of the model are searched in the text of the chunks, the question's     *)
(* vector among their vectors, the results are merged, the model answers   *)
(* from them, with or without a web search, and qa_logs has a row.         *)
(*                                                                         *)
(* An action is one query or one call outside, any of which may fail, and  *)
(* the index is rewritten in between.  How PostgreSQL ranks what a text    *)
(* search finds is left open.  A word is a model value: Lower is the word  *)
(* in lower case, Short the words of less than two characters, Ascii its   *)
(* parts that asciiKeywordPattern finds.                                   *)
(***************************************************************************)
EXTENDS Naturals, FiniteSets, SequencesExt

CONSTANTS
  Words, Lower, Short, Ascii,
  Questions,      \* Questions[q]: the words that keywordPattern finds in q
  Texts,          \* Texts[t]: the words that are in the text t, in lower case
  Distance,       \* Distance[q][t]: between the vectors of question and text
  Expansions,     \* lists of words the model may answer when asked for more
  KeywordLimit,   \* the 8 keywords of a question
  ModelLimit,     \* the 12 of the model
  MergeLimit,     \* the 16 of both
  Chunks,         \* ids of chunks
  ResultLimit,    \* results, 8 if the caller does not say
  MaxWrites       \* bound on the writes to the index

ASSUME RetrievalAssumption ==
  /\ IsFiniteSet(Chunks)
  /\ Lower \in [Words -> Words] /\ Short \subseteq Words
  /\ {KeywordLimit, ModelLimit, MergeLimit, ResultLimit} \subseteq Nat \ {0}
  /\ MaxWrites \in Nat

VARIABLES
  useEmbeddings,  \* the setting
  index,          \* knowledge_chunks: [id, text, embedded], the last written at the end
  writes,         \* writes to it so far
  ask,            \* the question that is being answered
  logs            \* qa_logs: [status, sources]

askVars == <<useEmbeddings, index, writes, ask, logs>>

\* s up to its n-th element
Cut(s, n) == IF Len(s) > n THEN SubSeq(s, 1, n) ELSE s

\* The elements of s at these positions, in order.
Place(positions, i) == Cardinality({j \in positions : j <= i})
Select(s, positions) ==
  [n \in 1..Cardinality(positions) |-> s[CHOOSE i \in positions : Place(positions, i) = n]]

\* The positions wanted whose key has not come up before: what a loop appends
\* that remembers the keys it has seen.
Unseen(keys, wanted) == {i \in wanted : \A j \in wanted : j < i => keys[j] # keys[i]}

-----------------------------------------------------------------------------
(* Keywords *)

LowerOf(words) == [i \in DOMAIN words |-> Lower[words[i]]]

\* appendKeyword for one word after another
AppendKeywords(words) ==
  Select(words, Unseen(LowerOf(words), {i \in DOMAIN words : words[i] \notin Short}))

\* The words that both patterns find, in the order of the loops.
FoundIn(q) == FlattenSeq([i \in DOMAIN Questions[q] |-> <<Questions[q][i]>> \o Ascii[Questions[q][i]]])

\* What is found, and what the model lists, are sequences of words.
ASSUME WordsAssumption ==
  /\ \A q \in DOMAIN Questions : FoundIn(q) \in Seq(Words)
  /\ \A list \in Expansions : list \in Seq(Words)

ExtractKeywords(q) == Cut(AppendKeywords(FoundIn(q)), KeywordLimit)

\* parseKeywordExpansion
ParseExpansion(list) == Cut(Select(list, Unseen(LowerOf(list), DOMAIN list)), ModelLimit)

\* Mutant: both lists share the places of one.
MergeTight(primary, fallback) == Cut(AppendKeywords(primary \o fallback), ModelLimit)

\* mergeKeywords, which returns as soon as the list is full
MergeKeywords(primary, fallback) == Cut(AppendKeywords(primary \o fallback), MergeLimit)

-----------------------------------------------------------------------------
(* Searches *)

Rows == ToSet(index)

\* A text has a keyword in any case.
Has(row, keywords) == \E i \in DOMAIN keywords : Lower[keywords[i]] \in Texts[row.text]

\* What the query may find: every row that has a keyword (kc.content ILIKE ANY),
\* and what the full-text query matches besides, of which only PostgreSQL knows
\* how it takes keywords and texts apart.
Matching(keywords) ==
  {found \in SUBSET Rows : {row \in Rows : Has(row, keywords)} \subseteq found}

\* What a query with an ORDER BY that is left open, and LIMIT, may return.
Rankings(rows) ==
  LET n == IF Cardinality(rows) < ResultLimit THEN Cardinality(rows) ELSE ResultLimit
  IN  {s \in [1..n -> rows] : IsInjective(s)}

\* ORDER BY embedding <=> question
Nearest(q) ==
  LET far(row) == Distance[q][row.text]
      rows == {row \in Rows : row.embedded}
  IN  {s \in Rankings(rows) :
         /\ \A i, j \in DOMAIN s : i < j => far(s[i]) <= far(s[j])
         /\ \A i \in DOMAIN s, row \in rows \ ToSet(s) : far(s[i]) <= far(row)}

\* SearchRecent
Recent == Cut(Reverse(index), ResultLimit)

\* Mutant: whatever the text search returns is all there is.
MergeTextOnly(text, vector) == Cut(text, ResultLimit)

\* mergeRetrievedChunks: the first row of each id
IdsOf(rows) == [i \in DOMAIN rows |-> rows[i].id]
MergeChunks(text, vector) ==
  LET all == text \o vector IN
  Cut(Select(all, Unseen(IdsOf(all), DOMAIN all)), ResultLimit)

-----------------------------------------------------------------------------
(* Ask *)

NoAsk ==
  [pc |-> "idle", question |-> CHOOSE q \in DOMAIN Questions : TRUE,
   keywords |-> << >>, vector |-> << >>, text |-> << >>, sources |-> << >>,
   found |-> {},   \* the rows the text search had to choose from
   steady |-> {}]  \* chunks that nobody has written since the question came

AskAt(label) == ask.pc = label

\* The request ends with an error.
AskFails == ask' = [ask EXCEPT !.pc = "failed"]

Begin(q) ==
  /\ AskAt("idle")
  /\ ask' = [NoAsk EXCEPT !.pc = "keywords", !.question = q,
                          !.steady = {row.id : row \in Rows}]
  /\ UNCHANGED <<useEmbeddings, index, writes, logs>>

\* What the model may say.
ExpandSearchKeywords == {ParseExpansion(list) : list \in Expansions}

\* expandKeywords: the question's own keywords, if the model is of no help
ExpandKeywords ==
  /\ AskAt("keywords")
  /\ LET local == ExtractKeywords(ask.question) IN
     \E keywords \in {local} \cup {MergeKeywords(more, local) : more \in ExpandSearchKeywords} :
       ask' = [ask EXCEPT !.keywords = keywords,
                          !.pc = IF useEmbeddings THEN "embed" ELSE "text"]
  /\ UNCHANGED <<useEmbeddings, index, writes, logs>>

\* Embed: the question's vector
Embed ==
  /\ AskAt("embed")
  /\ ask' = [ask EXCEPT !.pc = "vector"]
  /\ UNCHANGED <<useEmbeddings, index, writes, logs>>

SearchByEmbedding ==
  /\ AskAt("vector")
  /\ \E rows \in Nearest(ask.question) : ask' = [ask EXCEPT !.pc = "text", !.vector = rows]
  /\ UNCHANGED <<useEmbeddings, index, writes, logs>>

\* What is retrieved: SearchHybrid, or SearchByText alone.
Retrieved(text) == IF useEmbeddings THEN MergeChunks(text, ask.vector) ELSE text

\* SearchByText; without a keyword it takes those of the question again.
SearchByText ==
  /\ AskAt("text")
  /\ LET keywords == IF ask.keywords = << >> THEN ExtractKeywords(ask.question)
                     ELSE ask.keywords IN
     \E found \in Matching(keywords) :
       IF found = {} THEN ask' = [ask EXCEPT !.pc = "recent", !.keywords = keywords]
       ELSE \E rows \in Rankings(found) :
              ask' = [ask EXCEPT !.pc = "decide", !.keywords = keywords, !.found = found,
                                 !.text = rows, !.sources = Retrieved(rows)]
  /\ UNCHANGED <<useEmbeddings, index, writes, logs>>

\* It found nothing.
SearchRecent ==
  /\ AskAt("recent")
  /\ ask' = [ask EXCEPT !.pc = "decide", !.text = Recent, !.sources = Retrieved(Recent)]
  /\ UNCHANGED <<useEmbeddings, index, writes, logs>>

\* No log is written when the retrieval fails.
RetrievalFails ==
  /\ AskAt("embed") \/ AskAt("vector") \/ AskAt("text") \/ AskAt("recent")
  /\ AskFails
  /\ UNCHANGED <<useEmbeddings, index, writes, logs>>

\* shouldUseWebSearch: no, if it fails
ShouldUseWebSearch ==
  /\ AskAt("decide")
  /\ \E next \in {"web", "answer"} : ask' = [ask EXCEPT !.pc = next]
  /\ UNCHANGED <<useEmbeddings, index, writes, logs>>

\* GenerateAnswerWithWebSearch, and the answer without one if it fails
AnswerFromWeb ==
  /\ AskAt("web")
  /\ \E next \in {"log", "answer"} : ask' = [ask EXCEPT !.pc = next]
  /\ UNCHANGED <<useEmbeddings, index, writes, logs>>

GenerateAnswer ==
  /\ AskAt("answer")
  /\ \E next \in {"log", "log failure"} : ask' = [ask EXCEPT !.pc = next]
  /\ UNCHANGED <<useEmbeddings, index, writes, logs>>

Log(status) == logs' = Append(logs, [status |-> status, sources |-> ask.sources])

\* saveQALog
LogAnswer ==
  /\ AskAt("log")
  /\ Log("answered")
  /\ ask' = [ask EXCEPT !.pc = "answered"]
  /\ UNCHANGED <<useEmbeddings, index, writes>>

\* An answer that cannot be logged, as far as is known, is not given.
LogAnswerFails ==
  /\ AskAt("log")
  /\ Log("answered") \/ UNCHANGED logs
  /\ AskFails
  /\ UNCHANGED <<useEmbeddings, index, writes>>

\* An error of the log of a failure is dropped.
LogFailure ==
  /\ AskAt("log failure")
  /\ Log("failed") \/ UNCHANGED logs
  /\ AskFails
  /\ UNCHANGED <<useEmbeddings, index, writes>>

-----------------------------------------------------------------------------
\* An index build or a document sync writes a chunk.
Write(c, t, embedded) ==
  /\ writes < MaxWrites /\ writes' = writes + 1
  /\ LET others == Select(index, {i \in DOMAIN index : index[i].id # c}) IN
     index' = Append(others, [id |-> c, text |-> t, embedded |-> embedded])
  /\ ask' = [ask EXCEPT !.steady = @ \ {c}]
  /\ UNCHANGED <<useEmbeddings, logs>>

AskStep ==
  \/ \E q \in DOMAIN Questions : Begin(q)
  \/ ExpandKeywords \/ Embed \/ SearchByEmbedding \/ SearchByText \/ SearchRecent
  \/ RetrievalFails
  \/ ShouldUseWebSearch \/ AnswerFromWeb \/ GenerateAnswer
  \/ LogAnswer \/ LogAnswerFails \/ LogFailure

Indexes ==
  {[i \in 1..Cardinality(cs) |-> [id |-> SetToSeq(cs)[i], text |-> ts[SetToSeq(cs)[i]],
                                  embedded |-> TRUE]] :
     cs \in SUBSET Chunks, ts \in [Chunks -> DOMAIN Texts]}

AskInit ==
  /\ useEmbeddings \in BOOLEAN
  /\ index \in Indexes
  /\ writes = 0 /\ ask = NoAsk /\ logs = << >>

AskNext ==
  \/ AskStep
  \/ \E c \in Chunks, t \in DOMAIN Texts, embedded \in BOOLEAN : Write(c, t, embedded)

AskSpec == AskInit /\ [][AskNext]_askVars

-----------------------------------------------------------------------------
(* Properties *)

\* The rows have been searched.
Searched == ask.pc \in {"decide", "web", "answer", "log", "log failure", "answered"}

\* The keywords of the question that the model's cannot crowd out.
OwnKeywords == Cut(ExtractKeywords(ask.question), MergeLimit - ModelLimit)

(* A chunk that has one of the question's own keywords is not lost on the  *)
(* way, however many keywords the model adds, whatever the vector search   *)
(* returns and whatever is written meanwhile to other chunks: the text     *)
(* search finds it, and it is one of the sources of the answer, unless     *)
(* what the text search found has more than ResultLimit rows and others    *)
(* of them took all the places (such as may have only a keyword of the     *)
(* model: the code does not prefer the question's own).  That goes for the *)
(* first MergeLimit - ModelLimit (four) keywords; the others may give way  *)
(* to the model's.                                                         *)
OwnKeywordFound ==
  Searched =>
    \A row \in Rows : row.id \in ask.steady /\ Has(row, OwnKeywords) =>
      /\ row \in ask.found
      /\ row \in ToSet(ask.sources) \/ Len(ask.text) = ResultLimit

Ids(rows) == {rows[i].id : i \in DOMAIN rows}

(* An answer that is given is in qa_logs with its sources; and these are   *)
(* no chunk twice, what the text search found before the rest, and as many *)
(* of what both searches found as there is room for.                       *)
AnswerIsBacked ==
  AskAt("answered") =>
    /\ [status |-> "answered", sources |-> ask.sources] \in ToSet(logs)
    /\ Cardinality(Ids(ask.sources)) = Len(ask.sources)
    /\ IsPrefix(ask.text, ask.sources)
    /\ LET found == Ids(ask.text) \cup Ids(ask.vector) IN
       /\ Ids(ask.sources) \subseteq found
       /\ Len(ask.sources) = IF Cardinality(found) < ResultLimit THEN Cardinality(found) ELSE ResultLimit

=============================================================================
