--------------------------- MODULE QuestionProofs ---------------------------
(***************************************************************************)
(* Theorems about the two ways a question is taken: Conversation, where it *)
(* is made of a chat's messages, and Retrieval, where it is answered.      *)
(* They hold for every chat, every number of pictures in a message, of     *)
(* writers, rounds and upserts, and for every index, question and limit.   *)
(*                                                                         *)
(* Conversation has two invariants: IInv says what texts say, OrderInv in  *)
(* which order messages are found and scheduled.  AskInv is Retrieval's.   *)
(***************************************************************************)
EXTENDS Conversation, Retrieval, FiniteSetTheorems, TLAPS

-----------------------------------------------------------------------------
(* The inductive invariant *)

\* What the n-th message says, and the pictures it has.
Said(n) == ToSet(ExtractText(contents[n]))
Pictures(n) == ImageKeys(contents[n])

\* The pictures that a text describes.
InText(text) == {k \in UNION {Pictures(n) : n \in Msgs} : Description(k) \in ToSet(text)}

\* A text of the n-th message says what the message says, and beyond that
\* describes its pictures only.
WordsOf(n) == Said(n) \cup {Description(k) : k \in Pictures(n)}
TextOK(n, text) == text \in Seq(WordsOf(n)) /\ Said(n) \subseteq ToSet(text)

Tokens == UNION {WordsOf(n) : n \in Msgs}

Works ==
  [pc : {"idle", "enrich", "schedule"}, msg : Nat, text : Seq(Tokens),
   keys : SUBSET (UNION {Pictures(n) : n \in Msgs}),
   failed : SUBSET (UNION {Pictures(n) : n \in Msgs})]

\* Every picture of a message is still to be described, described, or failed.
WorkOK(work) ==
  work.pc # "idle" =>
    /\ work.msg \in Msgs
    /\ TextOK(work.msg, work.text)
    /\ work.keys \subseteq Pictures(work.msg)
    /\ Pictures(work.msg) \subseteq work.keys \cup work.failed \cup InText(work.text)

Bounds ==
  /\ contents \in Chats /\ now \in Nat /\ sent \in Seq(Nat) /\ Len(sent) <= Len(contents)
  /\ todo \subseteq Msgs

RowsOK ==
  \A n \in DOMAIN rows :
    /\ n \in Msgs /\ TextOK(n, rows[n].text)
    /\ rows[n] = [text |-> rows[n].text, id |-> rows[n].id]

IInv ==
  /\ Bounds
  /\ writer \in [Writers -> Works]
  /\ \A w \in Writers : WorkOK(writer[w])
  /\ RowsOK

-----------------------------------------------------------------------------
(* Texts *)

\* What is said more is in the text, and the rest stays.
LEMMA AppendSays ==
  ASSUME NEW S, NEW s \in Seq(S), NEW e \in S
  PROVE  /\ ToSet(Append(s, e)) = ToSet(s) \cup {e}
         /\ Append(s, e) \in Seq(S)
  <1> DEFINE t == Append(s, e)
  <1>1. /\ t \in Seq(S) /\ Len(t) = Len(s) + 1 /\ Len(s) \in Nat
        /\ \A i \in 1..Len(s) : t[i] = s[i]
        /\ t[Len(s) + 1] = e
    OBVIOUS
  <1>2. DOMAIN t = 1..(Len(s) + 1) /\ DOMAIN s = 1..Len(s)
    BY <1>1
  <1>3. ToSet(t) \subseteq ToSet(s) \cup {e}
    BY <1>1, <1>2 DEF ToSet
  <1>4. ToSet(s) \cup {e} \subseteq ToSet(t)
    BY <1>1, <1>2 DEF ToSet
  <1>5. QED
    BY <1>1, <1>3, <1>4

LEMMA SaysOnly ==
  ASSUME NEW S, NEW s \in Seq(S)
  PROVE  ToSet(s) \subseteq S
  BY DEF ToSet

LEMMA MoreWords ==
  ASSUME NEW S, NEW T, S \subseteq T, NEW s \in Seq(S)
  PROVE  s \in Seq(T)
  OBVIOUS

LEMMA Chat ==
  ASSUME contents \in Chats
  PROVE  /\ Msgs = 1..Len(contents) /\ Len(contents) \in Nat
         /\ \A n \in Msgs : ExtractText(contents[n]) \in Seq(Said(n))
  <1>1. contents \in Seq(ToSet(contents))
        /\ \A n \in DOMAIN contents : ExtractText(contents[n]) \in Seq(ToSet(ExtractText(contents[n])))
    BY ContentsAssumption
  <1>2. QED
    BY <1>1 DEF Msgs, Said

\* Descriptions tell pictures apart.
LEMMA DescriptionsDiffer ==
  ASSUME NEW j, NEW k, Description(j) = Description(k)
  PROVE  j = k
  BY DEF Description

LEMMA TokensOf ==
  ASSUME NEW n \in Msgs
  PROVE  WordsOf(n) \subseteq Tokens /\ Pictures(n) \subseteq UNION {Pictures(m) : m \in Msgs}
  BY DEF Tokens

LEMMA TextTokens ==
  ASSUME NEW n \in Msgs, NEW text, TextOK(n, text)
  PROVE  text \in Seq(Tokens)
  BY TokensOf, MoreWords DEF TextOK

-----------------------------------------------------------------------------
(* What a writer starts with, and how it goes on *)

LEMMA Idle == NoWork \in Works /\ NoWork.pc = "idle"
  <1>1. << >> \in Seq(Tokens)
    OBVIOUS
  <1>2. QED
    BY <1>1 DEF NoWork, Works

\* A field of a writer's work takes another value.
LEMMA SetPc ==
  ASSUME NEW r \in Works, NEW v \in {"idle", "enrich", "schedule"}
  PROVE  /\ [r EXCEPT !.pc = v] \in Works /\ [r EXCEPT !.pc = v].pc = v
         /\ [r EXCEPT !.pc = v].msg = r.msg /\ [r EXCEPT !.pc = v].text = r.text
         /\ [r EXCEPT !.pc = v].keys = r.keys /\ [r EXCEPT !.pc = v].failed = r.failed
  BY DEF Works

LEMMA SetMsg ==
  ASSUME NEW r \in Works, NEW v \in Nat
  PROVE  /\ [r EXCEPT !.msg = v] \in Works /\ [r EXCEPT !.msg = v].msg = v
         /\ [r EXCEPT !.msg = v].pc = r.pc /\ [r EXCEPT !.msg = v].text = r.text
         /\ [r EXCEPT !.msg = v].keys = r.keys /\ [r EXCEPT !.msg = v].failed = r.failed
  BY DEF Works

LEMMA SetText ==
  ASSUME NEW r \in Works, NEW v \in Seq(Tokens)
  PROVE  /\ [r EXCEPT !.text = v] \in Works /\ [r EXCEPT !.text = v].text = v
         /\ [r EXCEPT !.text = v].pc = r.pc /\ [r EXCEPT !.text = v].msg = r.msg
         /\ [r EXCEPT !.text = v].keys = r.keys /\ [r EXCEPT !.text = v].failed = r.failed
  BY DEF Works

LEMMA SetKeys ==
  ASSUME NEW r \in Works, NEW v \in SUBSET (UNION {Pictures(n) : n \in Msgs})
  PROVE  /\ [r EXCEPT !.keys = v] \in Works /\ [r EXCEPT !.keys = v].keys = v
         /\ [r EXCEPT !.keys = v].pc = r.pc /\ [r EXCEPT !.keys = v].msg = r.msg
         /\ [r EXCEPT !.keys = v].text = r.text /\ [r EXCEPT !.keys = v].failed = r.failed
  BY DEF Works

LEMMA SetFailed ==
  ASSUME NEW r \in Works, NEW v \in SUBSET (UNION {Pictures(n) : n \in Msgs})
  PROVE  /\ [r EXCEPT !.failed = v] \in Works /\ [r EXCEPT !.failed = v].failed = v
         /\ [r EXCEPT !.failed = v].pc = r.pc /\ [r EXCEPT !.failed = v].msg = r.msg
         /\ [r EXCEPT !.failed = v].text = r.text /\ [r EXCEPT !.failed = v].keys = r.keys
  BY DEF Works

LEMMA Parsed ==
  ASSUME contents \in Chats, NEW n \in Msgs
  PROVE  /\ Parse(n) \in Works /\ Parse(n).msg = n /\ Parse(n).pc = "enrich"
         /\ TextOK(n, Parse(n).text) /\ Parse(n).keys = Pictures(n)
  <1> DEFINE t == ExtractText(contents[n])
             i == ImageKeys(contents[n])
             a == [NoWork EXCEPT !.pc = "enrich"]
             b == [a EXCEPT !.msg = n]
             c == [b EXCEPT !.text = t]
             d == [c EXCEPT !.keys = i]
  <1>1. Parse(n) = d
    BY DEF Parse
  <1>2. TextOK(n, t)
    BY Chat, MoreWords DEF TextOK, WordsOf, Said
  <1>3. t \in Seq(Tokens)
    BY <1>2, TextTokens
  <1>4. n \in Nat
    BY Chat
  <1>5. i = Pictures(n) /\ i \in SUBSET (UNION {Pictures(m) : m \in Msgs})
    BY TokensOf DEF Pictures
  <1> HIDE DEF t, i
  <1>6. a \in Works /\ a.pc = "enrich"
    BY Idle, SetPc
  <1> HIDE DEF a
  <1>7. b \in Works /\ b.pc = "enrich" /\ b.msg = n
    BY <1>4, <1>6, SetMsg
  <1> HIDE DEF b
  <1>8. c \in Works /\ c.pc = "enrich" /\ c.msg = n /\ c.text = t
    BY <1>3, <1>7, SetText
  <1> HIDE DEF c
  <1>9. d \in Works /\ d.pc = "enrich" /\ d.msg = n /\ d.text = t /\ d.keys = i
    BY <1>5, <1>8, SetKeys
  <1> HIDE DEF d
  <1>10. QED
    BY <1>1, <1>2, <1>5, <1>9

LEMMA ParsedOK ==
  ASSUME contents \in Chats, NEW n \in Msgs
  PROVE  Parse(n) \in Works /\ WorkOK(Parse(n))
  BY Parsed DEF WorkOK

\* What is said of a message and its texts does not change.
LEMMA SameChat ==
  ASSUME UNCHANGED contents
  PROVE  /\ Msgs' = Msgs /\ Works' = Works
         /\ \A n, text : TextOK(n, text)' = TextOK(n, text)
         /\ \A work : WorkOK(work)' = WorkOK(work)
  BY DEF Works, WorkOK, TextOK, InText, Tokens, WordsOf, Said, Pictures, Msgs

WorksGood == writer \in [Writers -> Works] /\ \A w \in Writers : WorkOK(writer[w])

\* One writer goes on, and what it is at is as it should be.
LEMMA GoesOn ==
  ASSUME IInv, NEW w \in Writers, NEW work \in Works, WorkOK(work),
         writer' = [writer EXCEPT ![w] = work], UNCHANGED contents
  PROVE  WorksGood'
  <1>1. writer' \in [Writers -> Works] /\ \A v \in Writers : writer'[v] = IF v = w THEN work ELSE writer[v]
    BY DEF IInv
  <1>2. \A v \in Writers : WorkOK(writer'[v])
    BY <1>1 DEF IInv
  <1>3. \A v \in Writers : WorkOK(writer[v])'
    <2>1. ASSUME NEW v \in Writers PROVE WorkOK(writer[v])'
      <3> DEFINE z == writer'[v]
      <3>1. WorkOK(z)
        BY <1>2
      <3> HIDE DEF z
      <3>2. QED
        BY <3>1 DEF z, WorkOK, TextOK, InText, Tokens, WordsOf, Said, Pictures, Msgs
    <2>2. QED
      BY <2>1
  <1>4. Writers' = Writers
    BY DEF Writers
  <1>5. QED
    BY <1>1, <1>3, <1>4, SameChat DEF WorksGood

LEMMA StopsGood ==
  ASSUME IInv, NEW w \in Writers, writer' = [writer EXCEPT ![w] = NoWork], UNCHANGED contents
  PROVE  WorksGood'
  <1>1. WorkOK(NoWork)
    BY Idle DEF WorkOK
  <1>2. QED
    BY <1>1, Idle, GoesOn

\* What is at hand of a writer that is not idle.
LEMMA Busy ==
  ASSUME IInv, NEW w \in Writers, ~At(w, "idle")
  PROVE  /\ writer[w] \in Works /\ WorkOK(writer[w]) /\ writer[w].msg \in Msgs
         /\ TextOK(writer[w].msg, writer[w].text)
         /\ writer[w].keys \subseteq Pictures(writer[w].msg)
         /\ Pictures(writer[w].msg) \subseteq
              writer[w].keys \cup writer[w].failed \cup InText(writer[w].text)
  BY DEF IInv, At, WorkOK

LEMMA DescribeGood ==
  ASSUME IInv, NEW w \in Writers, Describe(w)
  PROVE  WorksGood'
  <1> DEFINE old == writer[w]
  <1>1. PICK k \in old.keys :
          writer' = [writer EXCEPT ![w].keys = @ \ {k}, ![w].text = Append(@, Description(k))]
    BY DEF Describe
  <1>2. old.pc = "enrich" /\ UNCHANGED contents
    BY DEF Describe, At, rest
  <1>3. /\ old \in Works /\ old.msg \in Msgs /\ TextOK(old.msg, old.text)
        /\ old.keys \subseteq Pictures(old.msg)
        /\ Pictures(old.msg) \subseteq old.keys \cup old.failed \cup InText(old.text)
    BY <1>2, Busy DEF At
  <1> DEFINE ks == old.keys \ {k}
             t == Append(old.text, Description(k))
             a == [old EXCEPT !.keys = ks]
             b == [a EXCEPT !.text = t]
  <1>4. writer' = [writer EXCEPT ![w] = b]
    BY <1>1 DEF IInv
  <1>5. k \in Pictures(old.msg) /\ Description(k) \in WordsOf(old.msg)
    BY <1>1, <1>3 DEF WordsOf
  <1>6. old.text \in Seq(WordsOf(old.msg)) /\ Said(old.msg) \subseteq ToSet(old.text)
    BY <1>3 DEF TextOK
  <1>7. t \in Seq(WordsOf(old.msg)) /\ ToSet(t) = ToSet(old.text) \cup {Description(k)}
    BY <1>5, <1>6, AppendSays
  <1>8. TextOK(old.msg, t)
    BY <1>6, <1>7 DEF TextOK
  <1>9. t \in Seq(Tokens)
    BY <1>3, <1>8, TextTokens
  <1>10. InText(t) = InText(old.text) \cup {k}
    BY <1>3, <1>5, <1>7, DescriptionsDiffer, TokensOf DEF InText
  <1>11. ks \in SUBSET (UNION {Pictures(n) : n \in Msgs})
    BY <1>3, TokensOf
  <1> HIDE DEF ks, t
  <1>12. a \in Works /\ a.keys = ks /\ a.pc = old.pc /\ a.msg = old.msg /\ a.failed = old.failed
    BY <1>3, <1>11, SetKeys
  <1> HIDE DEF a
  <1>13. /\ b \in Works /\ b.keys = ks /\ b.pc = old.pc /\ b.msg = old.msg
         /\ b.failed = old.failed /\ b.text = t
    BY <1>9, <1>12, SetText
  <1> HIDE DEF b
  <1>14. ks \subseteq Pictures(old.msg) /\ Pictures(old.msg) \subseteq ks \cup old.failed \cup InText(t)
    BY <1>3, <1>10 DEF ks
  <1>15. WorkOK(b)
    BY <1>3, <1>8, <1>13, <1>14 DEF WorkOK
  <1>16. QED
    BY <1>2, <1>4, <1>13, <1>15, GoesOn

\* One picture is given up, or all of them.
LEMMA GivesUp ==
  ASSUME IInv, NEW w \in Writers, At(w, "enrich"), UNCHANGED contents,
         NEW ks, NEW fs, ks \subseteq writer[w].keys,
         fs \in SUBSET (UNION {Pictures(n) : n \in Msgs}),
         writer[w].keys \cup writer[w].failed \subseteq ks \cup fs,
         writer' = [writer EXCEPT ![w].keys = ks, ![w].failed = fs]
  PROVE  WorksGood'
  <1> DEFINE old == writer[w]
             a == [old EXCEPT !.keys = ks]
             b == [a EXCEPT !.failed = fs]
  <1>1. writer' = [writer EXCEPT ![w] = b]
    BY DEF IInv
  <1>2. /\ old \in Works /\ old.msg \in Msgs /\ TextOK(old.msg, old.text)
        /\ old.keys \subseteq Pictures(old.msg)
        /\ Pictures(old.msg) \subseteq old.keys \cup old.failed \cup InText(old.text)
    BY Busy DEF At
  <1>3. ks \in SUBSET (UNION {Pictures(n) : n \in Msgs})
    BY <1>2, TokensOf
  <1>4. /\ a \in Works /\ a.keys = ks /\ a.pc = old.pc /\ a.msg = old.msg /\ a.text = old.text
    BY <1>2, <1>3, SetKeys
  <1> HIDE DEF a
  <1>5. /\ b \in Works /\ b.keys = ks /\ b.pc = old.pc /\ b.msg = old.msg
        /\ b.failed = fs /\ b.text = old.text
    BY <1>4, SetFailed
  <1> HIDE DEF b
  <1>6. WorkOK(b)
    BY <1>2, <1>5 DEF WorkOK
  <1>7. QED
    BY <1>1, <1>5, <1>6, GoesOn

LEMMA DescribeFailsGood ==
  ASSUME IInv, NEW w \in Writers, DescribeFails(w)
  PROVE  WorksGood'
  <1>1. At(w, "enrich") /\ UNCHANGED contents
    BY DEF DescribeFails, rest
  <1>2. PICK k \in writer[w].keys :
          writer' = [writer EXCEPT ![w].keys = @ \ {k}, ![w].failed = @ \cup {k}]
    BY DEF DescribeFails
  <1> DEFINE ks == writer[w].keys \ {k}
             fs == writer[w].failed \cup {k}
  <1>3. writer[w] \in Works
    BY DEF IInv
  <1>4. fs \in SUBSET (UNION {Pictures(n) : n \in Msgs})
    BY <1>2, <1>3 DEF Works
  <1>5. writer' = [writer EXCEPT ![w].keys = ks, ![w].failed = fs]
    BY <1>2, <1>3 DEF IInv, Works
  <1>6. ks \subseteq writer[w].keys /\ writer[w].keys \cup writer[w].failed \subseteq ks \cup fs
    BY <1>2
  <1> HIDE DEF ks, fs
  <1>7. QED
    BY <1>1, <1>4, <1>5, <1>6, GivesUp

LEMMA NoTokenGood ==
  ASSUME IInv, NEW w \in Writers, NoToken(w)
  PROVE  WorksGood'
  <1>1. At(w, "enrich") /\ UNCHANGED contents /\ writer[w].failed = {}
    BY DEF NoToken, rest
  <1>2. writer' = [writer EXCEPT ![w].keys = {}, ![w].failed = writer[w].keys]
    BY DEF NoToken
  <1>3. writer[w] \in Works
    BY DEF IInv
  <1>4. writer[w].keys \in SUBSET (UNION {Pictures(n) : n \in Msgs})
    BY <1>3 DEF Works
  <1> DEFINE fs == writer[w].keys
             ks == {}
  <1>5. /\ fs \in SUBSET (UNION {Pictures(n) : n \in Msgs})
        /\ writer' = [writer EXCEPT ![w].keys = ks, ![w].failed = fs]
        /\ ks \subseteq writer[w].keys /\ writer[w].keys \cup writer[w].failed \subseteq ks \cup fs
    BY <1>1, <1>2, <1>4
  <1> HIDE DEF ks, fs
  <1>6. QED
    BY <1>1, <1>5, GivesUp

\* Saved, the poller schedules the message.
LEMMA SavedGood ==
  ASSUME IInv, Ready("poller"), writer' = [writer EXCEPT !["poller"].pc = "schedule"],
         UNCHANGED contents
  PROVE  WorksGood'
  <1> DEFINE old == writer["poller"]
             a == [old EXCEPT !.pc = "schedule"]
  <1>1. "poller" \in Writers /\ ~At("poller", "idle")
    BY DEF Writers, Ready, At
  <1>2. writer' = [writer EXCEPT !["poller"] = a]
    BY <1>1 DEF IInv
  <1>3. /\ old \in Works /\ old.msg \in Msgs /\ TextOK(old.msg, old.text)
        /\ old.keys \subseteq Pictures(old.msg)
        /\ Pictures(old.msg) \subseteq old.keys \cup old.failed \cup InText(old.text)
    BY <1>1, Busy
  <1>4. /\ a \in Works /\ a.keys = old.keys /\ a.failed = old.failed /\ a.msg = old.msg
        /\ a.text = old.text
    BY <1>3, SetPc
  <1> HIDE DEF a
  <1>5. WorkOK(a)
    BY <1>3, <1>4 DEF WorkOK
  <1>6. QED
    BY <1>1, <1>2, <1>4, <1>5, GoesOn

LEMMA StartGood ==
  ASSUME IInv, NEW w \in Writers, NEW n \in Msgs, writer' = [writer EXCEPT ![w] = Parse(n)],
         UNCHANGED contents
  PROVE  WorksGood'
  <1>1. contents \in Chats
    BY DEF IInv, Bounds
  <1> DEFINE p == Parse(n)
  <1>2. p \in Works /\ WorkOK(p)
    BY <1>1, ParsedOK
  <1> HIDE DEF p
  <1>3. writer' = [writer EXCEPT ![w] = p]
    BY DEF p
  <1>4. QED
    BY <1>2, <1>3, GoesOn

-----------------------------------------------------------------------------
(* What is in the table *)

\* The rows that are there keep their text.
Kept == DOMAIN rows \subseteq DOMAIN rows' /\ \A n \in DOMAIN rows : rows'[n].text = rows[n].text

\* DescriptionKept says this of every step.
LostToFailure ==
  \A n \in DOMAIN rows : \A k \in Described(rows[n].text) \ Described(rows'[n].text) :
    \E w \in Writers : writer[w].msg = n /\ k \in writer[w].failed

LEMMA KeptLosesNone ==
  ASSUME Kept
  PROVE  LostToFailure
  BY DEF Kept, LostToFailure, Described

LEMMA RowsSame ==
  ASSUME IInv, UNCHANGED <<contents, rows>>
  PROVE  RowsOK' /\ Kept
  <1>1. RowsOK'
    BY SameChat DEF IInv, RowsOK
  <1>2. QED
    BY <1>1 DEF Kept

LEMMA InsertGood ==
  ASSUME IInv, NEW n \in Msgs, n \notin DOMAIN rows, NEW text, TextOK(n, text), Insert(n, text),
         UNCHANGED contents
  PROVE  RowsOK' /\ Kept
  <1> DEFINE i == Cardinality(DOMAIN rows) + 1
  <1>1. rows' = [k \in DOMAIN rows \cup {n} |-> IF k = n THEN [text |-> text, id |-> i] ELSE rows[k]]
    BY DEF Insert
  <1> HIDE DEF i
  <1>2. /\ DOMAIN rows' = DOMAIN rows \cup {n} /\ rows'[n] = [text |-> text, id |-> i]
        /\ \A k \in DOMAIN rows : rows'[k] = rows[k]
    BY <1>1
  <1>3. \A k \in DOMAIN rows' :
          /\ k \in Msgs /\ TextOK(k, rows'[k].text)
          /\ rows'[k] = [text |-> rows'[k].text, id |-> rows'[k].id]
    BY <1>2 DEF IInv, RowsOK
  <1>4. RowsOK'
    BY <1>3, SameChat DEF RowsOK
  <1>5. QED
    BY <1>2, <1>4 DEF Kept

\* ON CONFLICT DO UPDATE: what the new text does not describe, its writer failed on.
LEMMA UpdateGood ==
  ASSUME IInv, NEW w \in Writers, Ready(w), writer[w].msg \in DOMAIN rows,
         rows' = [rows EXCEPT ![writer[w].msg].text = writer[w].text], UNCHANGED contents
  PROVE  RowsOK' /\ LostToFailure
  <1> DEFINE n == writer[w].msg
             text == writer[w].text
  <1>1. /\ n \in Msgs /\ TextOK(n, text) /\ Pictures(n) \subseteq writer[w].failed \cup InText(text)
    BY Busy DEF Ready, At
  <1>2. rows[n] = [text |-> rows[n].text, id |-> rows[n].id] /\ TextOK(n, rows[n].text)
    BY DEF IInv, RowsOK
  <1> DEFINE row == [rows[n] EXCEPT !.text = text]
  <1>3. rows' = [rows EXCEPT ![n] = row]
    OBVIOUS
  <1>4. row = [text |-> text, id |-> rows[n].id]
    BY <1>2
  <1> HIDE DEF row, text, n
  <1>5. /\ DOMAIN rows' = DOMAIN rows /\ rows'[n] = row
        /\ \A m \in DOMAIN rows : m # n => rows'[m] = rows[m]
    BY <1>3 DEF n
  <1>6. row.text = text /\ row = [text |-> row.text, id |-> row.id]
    BY <1>4
  <1>7. \A m \in DOMAIN rows' :
          /\ m \in Msgs /\ TextOK(m, rows'[m].text)
          /\ rows'[m] = [text |-> rows'[m].text, id |-> rows'[m].id]
    BY <1>1, <1>5, <1>6 DEF IInv, RowsOK
  <1>8. RowsOK'
    BY <1>7, SameChat DEF RowsOK
  <1>9. LostToFailure
    <2> SUFFICES ASSUME NEW m \in DOMAIN rows,
                        NEW k \in Described(rows[m].text) \ Described(rows'[m].text)
                 PROVE  \E v \in Writers : writer[v].msg = m /\ k \in writer[v].failed
      BY DEF LostToFailure
    <2>1. m = n
      BY <1>5
    <2> DEFINE before == rows[n].text
    <2>2. k \in UNION {Pictures(j) : j \in Msgs} /\ Description(k) \in ToSet(before)
      BY <2>1 DEF Described, Pictures
    <2>3. Description(k) \notin ToSet(text)
      BY <1>5, <1>6, <2>1, <2>2 DEF Described, Pictures
    <2> HIDE DEF before
    <2>4. ToSet(before) \subseteq WordsOf(n) /\ Said(n) \subseteq ToSet(text)
      BY <1>1, <1>2, SaysOnly DEF TextOK, before
    <2>5. k \in Pictures(n)
      BY <2>2, <2>3, <2>4, DescriptionsDiffer DEF WordsOf
    <2>6. k \notin InText(text)
      BY <2>3 DEF InText
    <2>7. k \in writer[w].failed
      BY <1>1, <2>5, <2>6
    <2>8. QED
      BY <2>1, <2>7 DEF n
  <1>10. QED
    BY <1>8, <1>9

-----------------------------------------------------------------------------
(* Every step *)

Keeps == IInv' /\ LostToFailure

LEMMA Together ==
  ASSUME IInv, WorksGood', RowsOK', LostToFailure, UNCHANGED <<contents, now, sent>>,
         todo' \subseteq Msgs
  PROVE  Keeps
  <1>1. Bounds'
    BY SameChat DEF IInv, Bounds
  <1>2. QED
    BY <1>1 DEF IInv, Keeps, WorksGood

\* A step that works on a message and leaves the table.
LEMMA WorksOn ==
  ASSUME IInv, WorksGood', UNCHANGED <<rows, contents, now, sent>>, todo' \subseteq Msgs
  PROVE  Keeps
  BY RowsSame, KeptLosesNone, Together

\* A step of neither.
LEMMA Elsewhere ==
  ASSUME IInv, UNCHANGED <<writer, rows, contents, now, sent>>, todo' \subseteq Msgs
  PROVE  Keeps
  <1>1. WorksGood'
    <2>1. Writers' = Writers
      BY DEF Writers
    <2>2. \A v \in Writers : WorkOK(writer[v])'
      <3>1. ASSUME NEW v \in Writers PROVE WorkOK(writer[v])'
        BY ZenonT(40) DEF IInv, WorkOK, TextOK, InText, Tokens, WordsOf, Said, Pictures, Msgs
      <3>2. QED
        BY <3>1
    <2>3. QED
      BY <2>1, <2>2, SameChat DEF IInv, WorksGood
  <1>2. QED
    BY <1>1, WorksOn

LEMMA SendKeeps ==
  ASSUME IInv, Send
  PROVE  Keeps
  <1>1. UNCHANGED <<contents, now, rows, todo, writer>>
    BY DEF Send
  <1>2. Len(sent) < Len(contents) /\ sent' = Append(sent, now)
    BY DEF Send
  <1>3. /\ contents \in Chats /\ now \in Nat /\ sent \in Seq(Nat) /\ todo \subseteq Msgs
        /\ Len(contents) \in Nat
    BY Chat DEF IInv, Bounds
  <1>4. sent' \in Seq(Nat) /\ Len(sent') = Len(sent) + 1 /\ Len(sent) \in Nat
    BY <1>2, <1>3
  <1>5. Len(sent') <= Len(contents)
    BY <1>2, <1>3, <1>4
  <1>6. Bounds'
    BY <1>1, <1>3, <1>4, <1>5, SameChat DEF Bounds
  <1>7. WorksGood'
    <2>1. Writers' = Writers
      BY DEF Writers
    <2>2. ASSUME NEW v \in Writers PROVE WorkOK(writer[v])'
      BY <1>1 DEF IInv, WorkOK, TextOK, InText, Tokens, WordsOf, Said, Pictures, Msgs
    <2>3. QED
      BY <1>1, <2>1, <2>2, SameChat DEF IInv, WorksGood
  <1>8. RowsOK' /\ LostToFailure
    BY <1>1, RowsSame, KeptLosesNone
  <1>9. QED
    BY <1>6, <1>7, <1>8 DEF IInv, Keeps, WorksGood

\* What the actions leave alone, and that the poller is a writer.
LEMMA Facts ==
  ASSUME IInv
  PROVE  todo \subseteq Msgs /\ Sent \subseteq Msgs /\ Upserters \subseteq Writers /\ "poller" \in Writers
  <1>1. /\ contents \in Chats /\ sent \in Seq(Nat) /\ Len(sent) <= Len(contents)
        /\ todo \subseteq Msgs
    BY DEF IInv, Bounds
  <1>2. Sent \subseteq Msgs
    BY <1>1, Chat DEF Sent
  <1>3. QED
    BY <1>1, <1>2 DEF Writers

\* Describing goes on, fails, or does not begin.
LEMMA EnrichKeeps ==
  ASSUME IInv, NEW w \in Writers, Describe(w) \/ DescribeFails(w) \/ NoToken(w)
  PROVE  Keeps
  <1>1. WorksGood'
    BY DescribeGood, DescribeFailsGood, NoTokenGood
  <1>2. UNCHANGED <<contents, now, sent, rows, todo>>
    BY DEF Describe, DescribeFails, NoToken, rest
  <1>3. QED
    BY <1>1, <1>2, Facts, WorksOn

LEMMA UpsertStartKeeps ==
  ASSUME IInv, NEW w \in Upserters, NEW n \in Sent, UpsertStart(w, n)
  PROVE  Keeps
  <1>1. /\ UNCHANGED <<contents, now, sent, rows, todo>>
        /\ writer' = [writer EXCEPT ![w] = Parse(n)]
    BY DEF UpsertStart
  <1>2. WorksGood'
    BY <1>1, Facts, StartGood
  <1>3. QED
    BY <1>1, <1>2, Facts, WorksOn

LEMMA PollNextKeeps ==
  ASSUME IInv, PollNext
  PROVE  Keeps
  <1>1. PICK n \in todo : writer' = [writer EXCEPT !["poller"] = Parse(n)] /\ todo' = todo \ {n}
    BY DEF PollNext
  <1>2. UNCHANGED <<contents, now, sent, rows>>
    BY DEF PollNext, rest
  <1>3. WorksGood'
    BY <1>1, <1>2, Facts, StartGood
  <1>4. QED
    BY <1>1, <1>2, <1>3, Facts, WorksOn

LEMMA PollKeeps ==
  ASSUME IInv, Poll
  PROVE  Keeps
  <1>1. UNCHANGED <<contents, now, sent, rows, writer>> /\ todo' \subseteq Sent
    BY DEF Poll
  <1>2. QED
    BY <1>1, Facts, Elsewhere

\* A message whose text is complete.
LEMMA ReadyFacts ==
  ASSUME IInv, NEW w \in Writers, Ready(w)
  PROVE  writer[w].msg \in Msgs /\ TextOK(writer[w].msg, writer[w].text)
  BY Busy DEF Ready, At

LEMMA SaveMessageKeeps ==
  ASSUME IInv, NEW w \in Writers, SaveMessage(w)
  PROVE  Keeps
  <1>1. /\ Ready(w) /\ UNCHANGED <<contents, now, sent, todo>>
        /\ writer' = [writer EXCEPT ![w] = NoWork]
        /\ IF writer[w].msg \in DOMAIN rows
             THEN rows' = [rows EXCEPT ![writer[w].msg].text = writer[w].text]
             ELSE Insert(writer[w].msg, writer[w].text)
    BY DEF SaveMessage, rest
  <1>2. WorksGood'
    BY <1>1, StopsGood
  <1>3. RowsOK' /\ LostToFailure
    BY <1>1, ReadyFacts, UpdateGood, InsertGood, KeptLosesNone
  <1>4. QED
    BY <1>1, <1>2, <1>3, Facts, Together

LEMMA SaveMessageFailsKeeps ==
  ASSUME IInv, NEW w \in Writers, SaveMessageFails(w)
  PROVE  Keeps
  <1>1. UNCHANGED <<contents, now, sent, rows, todo>> /\ writer' = [writer EXCEPT ![w] = NoWork]
    BY DEF SaveMessageFails, rest
  <1>2. WorksGood'
    BY <1>1, StopsGood
  <1>3. QED
    BY <1>1, <1>2, Facts, WorksOn

LEMMA PollSaveKeeps ==
  ASSUME IInv, PollSave
  PROVE  Keeps
  <1>1. /\ Ready("poller") /\ UNCHANGED <<contents, now, sent, todo>>
        /\ \/ writer' = [writer EXCEPT !["poller"] = NoWork] /\ UNCHANGED rows
           \/ /\ writer["poller"].msg \notin DOMAIN rows
              /\ Insert(writer["poller"].msg, writer["poller"].text)
              /\ writer' = [writer EXCEPT !["poller"].pc = "schedule"]
    BY DEF PollSave, rest
  <1>2. WorksGood'
    BY <1>1, Facts, StopsGood, SavedGood
  <1>3. RowsOK' /\ LostToFailure
    BY <1>1, Facts, ReadyFacts, RowsSame, InsertGood, KeptLosesNone
  <1>4. QED
    BY <1>1, <1>2, <1>3, Facts, Together

LEMMA PollSaveFailsKeeps ==
  ASSUME IInv, PollSaveFails
  PROVE  Keeps
  <1>1. /\ Ready("poller") /\ UNCHANGED <<contents, now, sent, todo>>
        /\ writer' = [writer EXCEPT !["poller"] = NoWork]
        /\ \/ UNCHANGED rows
           \/ /\ writer["poller"].msg \notin DOMAIN rows
              /\ Insert(writer["poller"].msg, writer["poller"].text)
    BY DEF PollSaveFails, rest
  <1>2. WorksGood'
    BY <1>1, Facts, StopsGood
  <1>3. RowsOK' /\ LostToFailure
    BY <1>1, Facts, ReadyFacts, RowsSame, InsertGood, KeptLosesNone
  <1>4. QED
    BY <1>1, <1>2, <1>3, Facts, Together

LEMMA ScheduleKeeps ==
  ASSUME IInv, Schedule \/ NotScheduled
  PROVE  Keeps
  <1>1. /\ UNCHANGED <<contents, now, sent, rows, todo>>
        /\ writer' = [writer EXCEPT !["poller"] = NoWork]
    BY DEF Schedule, NotScheduled, rest
  <1>2. WorksGood'
    BY <1>1, Facts, StopsGood
  <1>3. QED
    BY <1>1, <1>2, Facts, WorksOn

LEMMA TickKeeps ==
  ASSUME IInv, Tick
  PROVE  Keeps
  <1>1. now \in Nat /\ now' = now + 1 /\ UNCHANGED <<contents, sent, rows, todo, writer>>
    BY DEF Tick, IInv, Bounds
  <1>2. Bounds'
    BY <1>1, SameChat DEF IInv, Bounds
  <1>3. WorksGood'
    <2>1. Writers' = Writers
      BY DEF Writers
    <2>2. ASSUME NEW v \in Writers PROVE WorkOK(writer[v])'
      BY <1>1 DEF IInv, WorkOK, TextOK, InText, Tokens, WordsOf, Said, Pictures, Msgs
    <2>3. QED
      BY <1>1, <2>1, <2>2, SameChat DEF IInv, WorksGood
  <1>4. RowsOK' /\ LostToFailure
    BY <1>1, RowsSame, KeptLosesNone
  <1>5. QED
    BY <1>2, <1>3, <1>4 DEF IInv, Keeps, WorksGood

LEMMA ReplyKeeps ==
  ASSUME IInv, Flush \/ \E n \in Msgs : BuildQuestion(n) \/ QueryFails(n)
  PROVE  Keeps
  <1>1. UNCHANGED <<contents, now, sent, rows, todo, writer>>
    BY DEF Flush, BuildQuestion, QueryFails, rest
  <1>2. QED
    BY <1>1, Facts, Elsewhere

-----------------------------------------------------------------------------

LEMMA InitInv == Init => IInv
  <1> SUFFICES ASSUME Init PROVE IInv
    OBVIOUS
  <1>1. /\ contents \in Chats /\ now = 0 /\ sent = << >> /\ rows = << >> /\ todo = {}
        /\ writer = [w \in Writers |-> NoWork]
    BY DEF Init
  <1>2. Bounds
    BY <1>1, Chat DEF Bounds
  <1>3. WorkOK(NoWork)
    BY Idle DEF WorkOK
  <1>4. writer \in [Writers -> Works] /\ \A w \in Writers : WorkOK(writer[w])
    BY <1>1, <1>3, Idle
  <1>5. RowsOK
    BY <1>1 DEF RowsOK
  <1>6. QED
    BY <1>2, <1>4, <1>5 DEF IInv

LEMMA NextKeeps == IInv /\ Next => Keeps
  <1> SUFFICES ASSUME IInv, Next PROVE Keeps
    OBVIOUS
  <1>1. CASE Send
    BY <1>1, SendKeeps
  <1>2. CASE Tick
    BY <1>2, TickKeeps
  <1>3. CASE PollerStep
    BY <1>3, Facts, PollKeeps, PollNextKeeps, EnrichKeeps, PollSaveKeeps, PollSaveFailsKeeps,
       ScheduleKeeps DEF PollerStep, WriterStep
  <1>4. CASE \E w \in Upserters : UpserterStep(w)
    <2>1. PICK w \in Upserters : UpserterStep(w)
      BY <1>4
    <2>2. w \in Writers
      BY Facts
    <2>3. QED
      BY <2>1, <2>2, UpsertStartKeeps, EnrichKeeps, SaveMessageKeeps, SaveMessageFailsKeeps
      DEF UpserterStep, WriterStep
  <1>5. CASE Flush \/ \E n \in Msgs : BuildQuestion(n) \/ QueryFails(n)
    BY <1>5, ReplyKeeps
  <1>6. QED
    BY <1>1, <1>2, <1>3, <1>4, <1>5 DEF Next

LEMMA StutterKeeps == IInv /\ UNCHANGED vars => Keeps
  <1> SUFFICES ASSUME IInv, UNCHANGED vars PROVE Keeps
    OBVIOUS
  <1>1. UNCHANGED <<writer, rows, contents, now, sent, todo>>
    BY DEF vars
  <1>2. QED
    BY <1>1, Facts, Elsewhere

(* Whoever writes it, the row of a message says what the message says, and *)
(* a writer has described, failed on or still to describe each picture of  *)
(* the message he is at.                                                   *)
THEOREM ConversationInvariant == Spec => []IInv
  <1>1. IInv /\ [Next]_vars => IInv'
    BY NextKeeps, StutterKeeps DEF Keeps
  <1>2. QED
    BY <1>1, InitInv, PTL DEF Spec

(* A description in the table is lost only to a writer that failed on that *)
(* very picture, in a chat of any length, for any number of writers.       *)
THEOREM DescriptionsAreKept == Spec => DescriptionKept
  <1>1. IInv /\ [Next]_vars => [LostToFailure]_vars
    BY NextKeeps DEF Keeps
  <1>2. DescriptionKept <=> [][LostToFailure]_vars
    BY PTL DEF DescriptionKept, LostToFailure
  <1>3. QED
    BY <1>1, <1>2, ConversationInvariant, PTL DEF Spec

-----------------------------------------------------------------------------
(* The order in which messages are scheduled *)

\* The message that the poller is at, if it is there with it.
Hand(label) == IF At("poller", label) THEN {writer["poller"].msg} ELSE {}

\* What the poller's round has still to save.
Ahead == todo \cup Hand("enrich")

\* The messages that a round may still find new, none of whose saves failed.
Missing == Sent \ (DOMAIN rows \cup faulty)
Open == {n \in Missing : now <= sent[n] + Lookback \/ n \in Ahead}

\* What is scheduled and not handed over.
Scheduled == pending.group \cup Hand("schedule")

Times ==
  /\ \A j, k \in Sent : j < k => sent[j] <= sent[k]
  /\ \A k \in Sent : sent[k] <= now

\* Only messages that were sent are worked on, saved and scheduled.
Known ==
  /\ DOMAIN rows \cup todo \subseteq Sent
  /\ \A w \in Writers : writer[w].pc # "idle" => writer[w].msg \in Sent
  /\ Hand("schedule") \subseteq DOMAIN rows
  /\ \A n \in DOMAIN rows : rows[n].id \in Nat

\* A round works on the oldest of the open messages, one after another.
RoundOK ==
  /\ \A t \in Ahead : \A n \in Open \ Ahead : t < n
  /\ \A p \in Hand("enrich") : \A t \in todo : p < t

\* What is scheduled is older than what may still be.
InOrder == \A k \in Scheduled : \A n \in Open : k < n

\* Message n may take the place of these: they are in the table, and older.
Precede(group, n) == group \subseteq DOMAIN rows /\ \A k \in group : k <= n \/ n \in faulty

Slots == [msg : Nat, text : Seq(Tokens), due : Nat, group : SUBSET Msgs]
Replies ==
  [pc : {"none", "question", "silent", "asked"}, text : Seq(Tokens), group : SUBSET Msgs,
   question : SUBSET Seq(Tokens)]

Groups ==
  /\ pending \in Slots /\ reply \in [Msgs -> Replies]
  /\ pending.msg = 0 => pending.group = {}
  /\ pending.msg # 0 => pending.msg \in Sent /\ Precede(pending.group, pending.msg)
  /\ \A p \in Hand("schedule") : Precede(pending.group, p)
  /\ \A n \in Msgs : reply[n].pc # "none" => n \in Sent /\ Precede(reply[n].group, n)

\* SaidIsAsked says this of each message.
SaidOK(n) ==
  reply[n].pc = "asked" /\ n \notin faulty /\ Cardinality(Around(n)) <= Limit =>
    \A k \in reply[n].group : sent[n] - sent[k] <= Window =>
      Said(k) \subseteq UNION {ToSet(text) : text \in reply[n].question}

OrderInv ==
  Times /\ Known /\ RoundOK /\ InOrder /\ Groups /\ \A n \in Msgs : SaidOK(n)

LEMMA SaidOfEach == OrderInv => SaidIsAsked
  BY DEF OrderInv, SaidIsAsked, SaidOK, Said

-----------------------------------------------------------------------------
(* What is asked *)

LEMMA Naturally ==
  ASSUME IInv
  PROVE  /\ Sent \subseteq Msgs /\ Sent = 1..Len(sent) /\ Len(sent) \in Nat /\ Msgs \subseteq Nat
         /\ \A k \in Sent : k \in Nat /\ sent[k] \in Nat
         /\ now \in Nat /\ {Window, Limit, Debounce, Lookback} \subseteq Nat \ {0}
         /\ contents \in Chats /\ "poller" \in Writers
  <1>1. contents \in Chats /\ sent \in Seq(Nat) /\ now \in Nat
    BY DEF IInv, Bounds
  <1>2. Sent = 1..Len(sent) /\ Len(sent) \in Nat /\ \A k \in Sent : k \in Nat /\ sent[k] \in Nat
    BY <1>1 DEF Sent
  <1>3. QED
    BY <1>1, <1>2, Facts, Chat, ConversationAssumption

LEMMA AroundFinite ==
  ASSUME IInv, NEW n
  PROVE  IsFiniteSet(Around(n)) /\ Cardinality(Around(n)) \in Nat
  <1>1. IsFiniteSet(Sent)
    BY Naturally, FS_Interval
  <1>2. Around(n) \subseteq Sent
    BY DEF Around
  <1>3. QED
    BY <1>1, <1>2, FS_Subset, FS_CardinalityType

\* A message that says something is among the recent ones, if these are few.
LEMMA IsRecent ==
  ASSUME IInv, Times, Known, NEW n \in Sent, NEW k \in DOMAIN rows, k <= n, Said(k) # {},
         sent[n] - sent[k] <= Window, Cardinality(Around(n)) <= Limit
  PROVE  k \in RecentMessages(n)
  <1> DEFINE recent == {j \in DOMAIN rows :
               rows[j].text # << >> /\ sent[n] <= sent[j] + Window /\ sent[j] <= sent[n]}
             before(i, j) == sent[i] < sent[j] \/ (sent[i] = sent[j] /\ rows[i].id < rows[j].id)
             older == {j \in recent : before(j, k)}
  <1>1. k \in Sent /\ sent[k] \in Nat /\ sent[n] \in Nat /\ rows[k].id \in Nat /\ Window \in Nat
    BY Naturally DEF Known
  <1>2. sent[k] <= sent[n]
    <2>1. CASE k = n
      BY <1>1, <2>1
    <2>2. CASE k # n
      BY <1>1, <2>2, Naturally DEF Times
    <2>3. QED
      BY <2>1, <2>2
  <1>3. rows[k].text # << >>
    <2>1. Said(k) \subseteq ToSet(rows[k].text)
      BY DEF IInv, RowsOK, TextOK
    <2>2. ToSet(<< >>) = {}
      BY DEF ToSet
    <2>3. QED
      BY <2>1, <2>2
  <1>4. k \in recent
    BY <1>1, <1>2, <1>3
  <1>5. recent \subseteq Around(n)
    BY DEF Around, Known
  <1>6. ~before(k, k)
    BY <1>1
  <1>7. older \subseteq recent \ {k}
    BY <1>6
  <1>8. RecentMessages(n) = {j \in recent : Cardinality({i \in recent : before(i, j)}) < Limit}
    BY DEF RecentMessages
  <1> HIDE DEF recent, before
  <1>9. IsFiniteSet(recent) /\ Cardinality(recent) <= Cardinality(Around(n))
    BY <1>5, AroundFinite, FS_Subset
  <1>10. /\ IsFiniteSet(recent \ {k}) /\ Cardinality(recent \ {k}) = Cardinality(recent) - 1
         /\ Cardinality(recent) \in Nat
    BY <1>4, <1>9, FS_RemoveElement, FS_CardinalityType
  <1>11. Cardinality(older) <= Cardinality(recent \ {k}) /\ Cardinality(older) \in Nat
    BY <1>7, <1>10, FS_Subset, FS_CardinalityType
  <1>12. Limit \in Nat /\ Cardinality(Around(n)) \in Nat
    BY Naturally, AroundFinite
  <1>13. Cardinality(older) < Limit
    BY <1>9, <1>10, <1>11, <1>12
  <1>14. QED
    BY <1>4, <1>8, <1>13

\* What a message's group said is still asked, whatever is sent meanwhile.
LEMMA SaidStays ==
  ASSUME IInv, OrderInv, UNCHANGED contents, faulty \subseteq faulty',
         sent' = sent \/ sent' = Append(sent, now), IInv', NEW n \in Msgs, reply'[n] = reply[n]
  PROVE  SaidOK(n)'
  <1> SUFFICES ASSUME reply[n].pc = "asked", n \notin faulty', Cardinality(Around(n)') <= Limit,
                      NEW k \in reply[n].group, sent'[n] - sent'[k] <= Window
               PROVE  Said(k) \subseteq UNION {ToSet(text) : text \in reply[n].question}
    <2> DEFINE asks(j) == Said(j) \subseteq UNION {ToSet(text) : text \in reply[n].question}
    <2>2. ASSUME reply'[n].pc = "asked" /\ n \notin faulty' /\ Cardinality(Around(n)') <= Limit,
                 NEW j \in reply'[n].group, sent'[n] - sent'[j] <= Window
          PROVE  asks(j)
      BY <2>2
    <2>3. \A j : asks(j) => (Said(j) \subseteq UNION {ToSet(text) : text \in reply[n].question})'
      BY DEF Said
    <2> HIDE DEF asks
    <2>4. QED
      BY <2>2, <2>3 DEF SaidOK
  <1>1. n \in Sent /\ k \in Sent
    BY DEF OrderInv, Groups, Precede, Known
  <1>2. Sent \subseteq Sent' /\ \A j \in Sent : sent'[j] = sent[j]
    <2>1. sent \in Seq(Nat) /\ now \in Nat
      BY DEF IInv, Bounds
    <2>2. CASE sent' = Append(sent, now)
      <3>1. Len(sent') = Len(sent) + 1 /\ Len(sent) \in Nat /\ \A j \in 1..Len(sent) : sent'[j] = sent[j]
        BY <2>1, <2>2
      <3>2. QED
        BY <3>1 DEF Sent
    <2>3. QED
      BY <2>2 DEF Sent
  <1>3. Around(n) \subseteq Around(n)'
    BY <1>1, <1>2 DEF Around
  <1>4. IsFiniteSet(Around(n)') /\ Cardinality(Around(n)') \in Nat
    <2>1. IsFiniteSet(Sent')
      <3>1. Sent' = 1..Len(sent') /\ Len(sent') \in Nat
        BY DEF IInv, Bounds, Sent
      <3>2. QED
        BY <3>1, FS_Interval
    <2>2. Around(n)' \subseteq Sent'
      BY DEF Around
    <2>3. QED
      BY <2>1, <2>2, FS_Subset, FS_CardinalityType
  <1>5. Cardinality(Around(n)) <= Cardinality(Around(n)') /\ Cardinality(Around(n)) \in Nat
    BY <1>3, <1>4, AroundFinite, FS_Subset
  <1>6. Cardinality(Around(n)) <= Limit
    BY <1>4, <1>5, Naturally
  <1>7. sent[n] - sent[k] <= Window
    BY <1>1, <1>2
  <1>8. QED
    BY <1>6, <1>7 DEF OrderInv, SaidOK

\* The query that did not fail has what the group said.
LEMMA QueryFinds ==
  ASSUME IInv, OrderInv, NEW n \in Sent, n \notin faulty, Cardinality(Around(n)) <= Limit,
         NEW group, Precede(group, n), NEW k \in group, sent[n] - sent[k] <= Window,
         NEW question,
         question = {rows[j].text : j \in RecentMessages(n)} \/ RecentMessages(n) = {}
  PROVE  Said(k) \subseteq UNION {ToSet(text) : text \in question}
  <1> SUFFICES ASSUME Said(k) # {}
               PROVE  Said(k) \subseteq UNION {ToSet(text) : text \in question}
    OBVIOUS
  <1>1. k \in DOMAIN rows /\ k <= n
    BY DEF Precede
  <1>2. k \in RecentMessages(n)
    BY <1>1, IsRecent DEF OrderInv
  <1>3. rows[k].text \in question
    BY <1>2
  <1>4. Said(k) \subseteq ToSet(rows[k].text)
    BY <1>1 DEF IInv, RowsOK, TextOK
  <1>5. QED
    BY <1>3, <1>4

-----------------------------------------------------------------------------
(* What may still be *)

\* A message that is sent is not open any more, once it is saved.
LEMMA OpenCloses ==
  ASSUME IInv, UNCHANGED sent, now' = now \/ now' = now + 1,
         DOMAIN rows \subseteq DOMAIN rows', faulty \subseteq faulty', Ahead' \subseteq Ahead
  PROVE  Open' \subseteq Open
  <1> SUFFICES ASSUME NEW n \in Open' PROVE n \in Open
    OBVIOUS
  <1>1. n \in Sent /\ n \notin DOMAIN rows /\ n \notin faulty
    BY DEF Open, Missing, Sent
  <1>2. now' <= sent[n] + Lookback \/ n \in Ahead
    BY DEF Open
  <1>3. now \in Nat /\ sent[n] \in Nat /\ Lookback \in Nat
    BY <1>1, Naturally
  <1>4. QED
    BY <1>1, <1>2, <1>3 DEF Open, Missing

LEMMA OpenIsNatural ==
  ASSUME IInv, OrderInv
  PROVE  /\ Open \subseteq Sent /\ Ahead \subseteq Sent /\ Scheduled \subseteq Sent
         /\ Open \cup Ahead \cup Scheduled \subseteq Nat
  <1>1. Open \subseteq Sent
    BY DEF Open, Missing
  <1>2. \A label \in {"enrich", "schedule"} : Hand(label) \subseteq Sent
    BY Naturally DEF OrderInv, Known, Hand, At
  <1>3. Ahead \subseteq Sent
    BY <1>2 DEF Ahead, OrderInv, Known
  <1>4. pending.group \subseteq Sent
    BY DEF OrderInv, Groups, Known, Precede
  <1>5. QED
    BY <1>1, <1>2, <1>3, <1>4, Naturally DEF Scheduled

\* Records with another value in one field.
LEMMA SetReply ==
  ASSUME NEW r \in Replies, NEW x, x \in {"none", "question", "silent", "asked"}
  PROVE  LET b == [r EXCEPT !.pc = x] IN
         /\ b \in Replies /\ b.pc = x
         /\ b.text = r.text /\ b.group = r.group /\ b.question = r.question
  BY DEF Replies

LEMMA SetQuestions ==
  ASSUME NEW r \in Replies, NEW x \in SUBSET Seq(Tokens)
  PROVE  LET b == [r EXCEPT !.question = x] IN
         /\ b \in Replies /\ b.question = x
         /\ b.text = r.text /\ b.group = r.group /\ b.pc = r.pc
  BY DEF Replies

LEMMA SetReplyText ==
  ASSUME NEW r \in Replies, NEW x \in Seq(Tokens)
  PROVE  LET b == [r EXCEPT !.text = x] IN
         /\ b \in Replies /\ b.text = x
         /\ b.pc = r.pc /\ b.group = r.group /\ b.question = r.question
  BY DEF Replies

LEMMA SetGroup ==
  ASSUME NEW r \in Replies, NEW x \in SUBSET Msgs
  PROVE  LET b == [r EXCEPT !.group = x] IN
         /\ b \in Replies /\ b.group = x
         /\ b.text = r.text /\ b.pc = r.pc /\ b.question = r.question
  BY DEF Replies

LEMMA SameTypes ==
  ASSUME UNCHANGED contents
  PROVE  Slots' = Slots /\ Replies' = Replies /\ Msgs' = Msgs
  BY SameChat DEF Slots, Replies, Tokens, WordsOf, Said, Pictures

-----------------------------------------------------------------------------
(* Steps that leave the order alone *)

LEMMA PrecedeStays ==
  ASSUME NEW group, NEW n, Precede(group, n), DOMAIN rows \subseteq DOMAIN rows',
         faulty \subseteq faulty'
  PROVE  Precede(group, n)'
  BY DEF Precede

LEMMA TimesStay ==
  ASSUME IInv, Times, UNCHANGED sent, now' = now \/ now' = now + 1
  PROVE  Times'
  <1>1. \A k \in Sent : sent[k] <= now'
    BY Naturally DEF Times
  <1>2. QED
    BY <1>1 DEF Times, Sent

\* The poller stays where it is, and so does what waits for a reply.
LEMMA QuietKeeps ==
  ASSUME IInv, IInv', OrderInv, UNCHANGED <<contents, sent, todo, pending, reply>>,
         now' = now \/ now' = now + 1, DOMAIN rows \subseteq DOMAIN rows', faulty \subseteq faulty',
         writer'["poller"].pc = writer["poller"].pc, writer'["poller"].msg = writer["poller"].msg,
         Known'
  PROVE  OrderInv'
  <1>1. Hand("enrich")' = Hand("enrich") /\ Hand("schedule")' = Hand("schedule")
    BY DEF Hand, At
  <1>2. Ahead' = Ahead /\ Scheduled' = Scheduled
    BY <1>1 DEF Ahead, Scheduled
  <1>3. Open' \subseteq Open
    BY <1>2, OpenCloses
  <1>4. Times'
    BY TimesStay DEF OrderInv
  <1>5. RoundOK' /\ InOrder'
    BY <1>1, <1>2, <1>3 DEF OrderInv, RoundOK, InOrder
  <1>6. Groups'
    <2>1. Sent' = Sent
      BY DEF Sent
    <2>2. QED
      BY <1>1, <2>1, SameTypes, PrecedeStays DEF OrderInv, Groups
  <1>7. \A n \in Msgs : SaidOK(n)'
    BY SaidStays
  <1>8. QED
    BY <1>4, <1>5, <1>6, <1>7, SameTypes DEF OrderInv

LEMMA InsertKnown ==
  ASSUME IInv, Known, NEW n \in Sent, n \notin DOMAIN rows, NEW text, Insert(n, text)
  PROVE  /\ DOMAIN rows' = DOMAIN rows \cup {n} /\ DOMAIN rows' \subseteq Sent
         /\ \A k \in DOMAIN rows' : rows'[k].id \in Nat
  <1> DEFINE i == Cardinality(DOMAIN rows) + 1
  <1>1. rows' = [k \in DOMAIN rows \cup {n} |-> IF k = n THEN [text |-> text, id |-> i] ELSE rows[k]]
    BY DEF Insert
  <1>2. i \in Nat
    <2>1. IsFiniteSet(DOMAIN rows)
      <3>1. IsFiniteSet(Sent) /\ DOMAIN rows \subseteq Sent
        BY Naturally, FS_Interval DEF Known
      <3>2. QED
        BY <3>1, FS_Subset
    <2>2. QED
      BY <2>1, FS_CardinalityType
  <1> HIDE DEF i
  <1>3. QED
    BY <1>1, <1>2 DEF Known

\* The message in a writer's hand.
LEMMA InHand ==
  ASSUME IInv, OrderInv, NEW w \in Writers, ~At(w, "idle")
  PROVE  writer[w].msg \in Sent /\ writer[w].msg \in Nat /\ writer[w].msg \in Msgs
  BY Naturally DEF OrderInv, Known, At

\* A writer's record is replaced; the rest of the table of writers stays.
LEMMA KnownStays ==
  ASSUME IInv, OrderInv, UNCHANGED sent, todo' \subseteq Sent, DOMAIN rows' \subseteq Sent,
         \A n \in DOMAIN rows' : rows'[n].id \in Nat,
         Hand("schedule")' \subseteq DOMAIN rows',
         NEW w \in Writers, NEW work, writer' = [writer EXCEPT ![w] = work],
         work.pc # "idle" => work.msg \in Sent
  PROVE  Known'
  <1>1. \A v \in Writers : writer'[v] = IF v = w THEN work ELSE writer[v]
    BY DEF IInv
  <1>2. \A v \in Writers : writer'[v].pc # "idle" => writer'[v].msg \in Sent
    BY <1>1 DEF OrderInv, Known
  <1>3. Sent' = Sent /\ Writers' = Writers
    BY DEF Sent, Writers
  <1>4. QED
    BY <1>2, <1>3 DEF Known

\* Any writer goes on with the pictures of its message.
LEMMA EnrichOrders ==
  ASSUME IInv, IInv', OrderInv, NEW w \in Writers, Describe(w) \/ DescribeFails(w) \/ NoToken(w)
  PROVE  OrderInv'
  <1>1. UNCHANGED <<contents, now, sent, todo, rows, pending, reply, faulty>>
    BY DEF Describe, DescribeFails, NoToken, rest
  <1>2. PICK work : /\ writer' = [writer EXCEPT ![w] = work]
                    /\ work.pc = writer[w].pc /\ work.msg = writer[w].msg
    <2>1. writer \in [Writers -> Works] /\ writer[w] \in Works
      BY DEF IInv
    <2>2. CASE Describe(w)
      <3>1. PICK k \in writer[w].keys :
              writer' = [writer EXCEPT ![w].keys = @ \ {k}, ![w].text = Append(@, Description(k))]
        BY <2>2 DEF Describe
      <3> DEFINE a == [writer[w] EXCEPT !.keys = @ \ {k}, !.text = Append(@, Description(k))]
      <3>2. writer' = [writer EXCEPT ![w] = a]
        BY <2>1, <3>1
      <3>3. a.pc = writer[w].pc /\ a.msg = writer[w].msg
        BY <2>1 DEF Works
      <3>4. QED
        BY <3>2, <3>3
    <2>3. CASE DescribeFails(w)
      <3>1. PICK k \in writer[w].keys :
              writer' = [writer EXCEPT ![w].keys = @ \ {k}, ![w].failed = @ \cup {k}]
        BY <2>3 DEF DescribeFails
      <3> DEFINE a == [writer[w] EXCEPT !.keys = @ \ {k}, !.failed = @ \cup {k}]
      <3>2. writer' = [writer EXCEPT ![w] = a]
        BY <2>1, <3>1
      <3>3. a.pc = writer[w].pc /\ a.msg = writer[w].msg
        BY <2>1 DEF Works
      <3>4. QED
        BY <3>2, <3>3
    <2>4. CASE NoToken(w)
      <3>1. writer' = [writer EXCEPT ![w].keys = {}, ![w].failed = writer[w].keys]
        BY <2>4 DEF NoToken
      <3> DEFINE a == [writer[w] EXCEPT !.keys = {}, !.failed = writer[w].keys]
      <3>2. writer' = [writer EXCEPT ![w] = a]
        BY <2>1, <3>1
      <3>3. a.pc = writer[w].pc /\ a.msg = writer[w].msg
        BY <2>1 DEF Works
      <3>4. QED
        BY <3>2, <3>3
    <2>5. QED
      BY <2>2, <2>3, <2>4
  <1>3. \A v \in Writers : /\ writer'[v].pc = writer[v].pc /\ writer'[v].msg = writer[v].msg
    BY <1>2 DEF IInv
  <1>4. Hand("schedule")' = Hand("schedule")
    BY <1>3, Naturally DEF Hand, At
  <1>5. Known'
    <2>1. Sent' = Sent /\ Writers' = Writers
      BY <1>1 DEF Sent, Writers
    <2>2. QED
      BY <1>1, <1>3, <1>4, <2>1 DEF OrderInv, Known
  <1>6. QED
    BY <1>1, <1>3, <1>5, Naturally, QuietKeeps

\* The history sync or the event handler begins, saves or fails.
LEMMA UpsertOrders ==
  ASSUME IInv, IInv', OrderInv, NEW w \in Upserters,
         (\E n \in Sent : UpsertStart(w, n)) \/ SaveMessage(w) \/ SaveMessageFails(w)
  PROVE  OrderInv'
  <1>1. UNCHANGED <<contents, now, sent, todo, pending, reply, faulty>>
    BY DEF UpsertStart, SaveMessage, SaveMessageFails, rest
  <1>2. w \in Writers /\ w # "poller" /\ "poller" \in Writers
    BY ConversationAssumption DEF Writers
  <1>3. PICK work : /\ writer' = [writer EXCEPT ![w] = work]
                    /\ work.pc # "idle" => work.msg \in Sent
    <2>1. CASE \E n \in Sent : UpsertStart(w, n)
      <3>1. PICK n \in Sent : writer' = [writer EXCEPT ![w] = Parse(n)]
        BY <2>1 DEF UpsertStart
      <3>2. Parse(n).msg = n
        BY Naturally, Parsed
      <3> DEFINE p == Parse(n)
      <3>3. writer' = [writer EXCEPT ![w] = p] /\ p.msg \in Sent
        BY <3>1, <3>2
      <3> HIDE DEF p
      <3>4. QED
        BY <3>3
    <2>2. CASE SaveMessage(w) \/ SaveMessageFails(w)
      BY <2>2, Idle DEF SaveMessage, SaveMessageFails
    <2>3. QED
      BY <2>1, <2>2
  <1>4. writer'["poller"] = writer["poller"]
    BY <1>2, <1>3 DEF IInv
  <1>5. /\ DOMAIN rows \subseteq DOMAIN rows' /\ DOMAIN rows' \subseteq Sent
        /\ \A n \in DOMAIN rows' : rows'[n].id \in Nat
    <2>1. CASE UNCHANGED rows
      BY <2>1 DEF OrderInv, Known
    <2>2. CASE SaveMessage(w)
      <3> DEFINE n == writer[w].msg
      <3>1. n \in Sent
        BY <1>2, <2>2, InHand DEF SaveMessage, Ready, At
      <3>2. CASE n \notin DOMAIN rows
        BY <2>2, <3>1, <3>2, InsertKnown DEF SaveMessage, OrderInv
      <3>3. CASE n \in DOMAIN rows
        <4>1. rows' = [rows EXCEPT ![n].text = writer[w].text]
          BY <2>2, <3>3 DEF SaveMessage
        <4>2. rows[n] = [text |-> rows[n].text, id |-> rows[n].id]
          BY <3>3 DEF IInv, RowsOK
        <4>3. DOMAIN rows' = DOMAIN rows /\ \A k \in DOMAIN rows : rows'[k].id = rows[k].id
          BY <4>1, <4>2
        <4>4. QED
          BY <4>3 DEF OrderInv, Known
      <3>4. QED
        BY <3>2, <3>3
    <2>3. QED
      BY <2>1, <2>2 DEF UpsertStart, SaveMessageFails
  <1>6. Hand("schedule")' \subseteq DOMAIN rows'
    BY <1>4, <1>5 DEF Hand, At, OrderInv, Known
  <1>7. Known'
    BY <1>1, <1>2, <1>3, <1>5, <1>6, KnownStays DEF OrderInv, Known
  <1>8. QED
    BY <1>1, <1>4, <1>5, <1>7, QuietKeeps

LEMMA TickOrders ==
  ASSUME IInv, IInv', OrderInv, Tick \/ UNCHANGED vars
  PROVE  OrderInv'
  <1>1. /\ UNCHANGED <<contents, sent, todo, rows, writer, pending, reply, faulty>>
        /\ now' = now \/ now' = now + 1
    BY DEF Tick, vars
  <1>2. Known'
    BY <1>1 DEF OrderInv, Known, Sent, Writers, Hand, At
  <1>3. QED
    BY <1>1, <1>2, QuietKeeps

-----------------------------------------------------------------------------
(* A message is sent, and found *)

\* It is younger than all that is known.
LEMMA SendOrders ==
  ASSUME IInv, IInv', OrderInv, Send
  PROVE  OrderInv'
  <1> DEFINE new == Len(sent) + 1
  <1>1. /\ UNCHANGED <<contents, now, rows, todo, writer, pending, reply, faulty>>
        /\ sent' = Append(sent, now) /\ sent \in Seq(Nat)
    BY DEF Send, IInv, Bounds
  <1>2. /\ Len(sent') = new /\ new \in Nat /\ sent'[new] = now
        /\ \A k \in Sent : sent'[k] = sent[k]
    BY <1>1 DEF Sent
  <1>3. Sent' = Sent \cup {new} /\ \A k \in Sent : k < new
    BY <1>1, <1>2 DEF Sent
  <1>4. Ahead' = Ahead /\ Scheduled' = Scheduled /\ Hand("enrich")' = Hand("enrich")
        /\ Hand("schedule")' = Hand("schedule")
    BY <1>1 DEF Ahead, Scheduled, Hand, At
  <1> HIDE DEF new
  <1>5. Open' \subseteq Open \cup {new}
    BY <1>1, <1>2, <1>3, <1>4 DEF Open, Missing
  <1>6. Times'
    <2>1. ASSUME NEW j \in Sent', NEW k \in Sent', j < k PROVE sent'[j] <= sent'[k]
      <3>1. CASE k \in Sent
        <4>1. j \in Sent
          BY <1>2, <1>3, <2>1, <3>1, Naturally
        <4>2. QED
          BY <1>2, <2>1, <3>1, <4>1 DEF OrderInv, Times
      <3>2. CASE k = new
        <4>1. j \in Sent
          BY <1>2, <1>3, <2>1, <3>2, Naturally
        <4>2. QED
          BY <1>2, <3>2, <4>1 DEF OrderInv, Times
      <3>3. QED
        BY <1>3, <3>1, <3>2
    <2>2. ASSUME NEW k \in Sent' PROVE sent'[k] <= now'
      BY <1>1, <1>2, <1>3, Naturally DEF OrderInv, Times
    <2>3. QED
      BY <2>1, <2>2 DEF Times
  <1>7. Known'
    <2>1. Writers' = Writers
      BY DEF Writers
    <2>2. QED
      BY <1>1, <1>3, <1>4, <2>1 DEF OrderInv, Known
  <1>8. RoundOK' /\ InOrder'
    BY <1>1, <1>3, <1>4, <1>5, OpenIsNatural DEF OrderInv, RoundOK, InOrder
  <1>9. Groups'
    BY <1>1, <1>3, <1>4, SameTypes, PrecedeStays DEF OrderInv, Groups
  <1>10. \A n \in Msgs : SaidOK(n)'
    BY <1>1, SaidStays
  <1>11. QED
    BY <1>1, <1>6, <1>7, <1>8, <1>9, <1>10, SameTypes DEF OrderInv

\* A round takes all that is open and not too old.
LEMMA PollOrders ==
  ASSUME IInv, IInv', OrderInv, Poll
  PROVE  OrderInv'
  <1>1. /\ UNCHANGED <<contents, now, sent, rows, writer, pending, reply, faulty>>
        /\ At("poller", "idle") /\ todo = {}
        /\ todo' = {n \in Sent : now <= sent[n] + Lookback}
    BY DEF Poll
  <1>2. Hand("enrich") = {} /\ Hand("enrich")' = {} /\ Hand("schedule")' = Hand("schedule")
    BY <1>1 DEF Hand, At
  <1>3. Ahead' = todo' /\ Scheduled' = Scheduled
    BY <1>1, <1>2 DEF Ahead, Scheduled
  <1>4. Open' \subseteq Open /\ Open' \subseteq Ahead'
    BY <1>1, <1>3 DEF Open, Missing, Sent
  <1>5. Times'
    BY <1>1, TimesStay DEF OrderInv
  <1>6. Known'
    <2>1. Writers' = Writers /\ Sent' = Sent
      BY <1>1 DEF Writers, Sent
    <2>2. QED
      BY <1>1, <1>2, <2>1 DEF OrderInv, Known
  <1>7. RoundOK' /\ InOrder'
    BY <1>2, <1>3, <1>4 DEF OrderInv, RoundOK, InOrder
  <1>8. Groups'
    <2>1. Sent' = Sent
      BY <1>1 DEF Sent
    <2>2. QED
      BY <1>1, <1>2, <2>1, SameTypes, PrecedeStays DEF OrderInv, Groups
  <1>9. \A n \in Msgs : SaidOK(n)'
    BY <1>1, SaidStays
  <1>10. QED
    BY <1>1, <1>5, <1>6, <1>7, <1>8, <1>9, SameTypes DEF OrderInv

\* The poller's record after a step.
LEMMA PollerNow ==
  ASSUME IInv, NEW work, writer' = [writer EXCEPT !["poller"] = work]
  PROVE  /\ writer'["poller"] = work
         /\ \A label : Hand(label)' = IF work.pc = label THEN {work.msg} ELSE {}
  <1>1. writer'["poller"] = work
    BY Naturally DEF IInv
  <1>2. QED
    BY <1>1 DEF Hand, At

LEMMA PollNextOrders ==
  ASSUME IInv, IInv', OrderInv, PollNext
  PROVE  OrderInv'
  <1>1. UNCHANGED <<contents, now, sent, rows, pending, reply, faulty>> /\ At("poller", "idle")
    BY DEF PollNext, rest
  <1>2. PICK n \in todo : /\ \A k \in todo : n <= k
                          /\ writer' = [writer EXCEPT !["poller"] = Parse(n)]
                          /\ todo' = todo \ {n}
    BY DEF PollNext
  <1>3. n \in Sent /\ n \in Msgs /\ todo \subseteq Sent
    BY <1>2, Naturally DEF OrderInv, Known
  <1> DEFINE p == Parse(n)
  <1>4. p.pc = "enrich" /\ p.msg = n
    BY <1>3, Naturally, Parsed
  <1>5. writer' = [writer EXCEPT !["poller"] = p]
    BY <1>2
  <1> HIDE DEF p
  <1>6. /\ Hand("enrich")' = {n} /\ Hand("schedule")' = {}
        /\ Hand("enrich") = {} /\ Hand("schedule") = {}
    BY <1>1, <1>4, <1>5, PollerNow DEF Hand, At
  <1>7. Ahead' = Ahead /\ Scheduled' = Scheduled
    BY <1>1, <1>2, <1>6 DEF Ahead, Scheduled
  <1>8. Open' \subseteq Open
    BY <1>1, <1>7, OpenCloses
  <1>9. Times'
    BY <1>1, TimesStay DEF OrderInv
  <1>10. Known'
    BY <1>1, <1>2, <1>3, <1>4, <1>5, <1>6, Naturally, KnownStays DEF OrderInv, Known
  <1>11. RoundOK' /\ InOrder'
    <2>1. \A t \in todo' : n < t
      BY <1>2, <1>3, Naturally
    <2>2. QED
      BY <1>6, <1>7, <1>8, <2>1 DEF OrderInv, RoundOK, InOrder
  <1>12. Groups'
    <2>1. Sent' = Sent
      BY <1>1 DEF Sent
    <2>2. QED
      BY <1>1, <1>6, <2>1, SameTypes, PrecedeStays DEF OrderInv, Groups
  <1>13. \A m \in Msgs : SaidOK(m)'
    BY <1>1, SaidStays
  <1>14. QED
    BY <1>1, <1>9, <1>10, <1>11, <1>12, <1>13, SameTypes DEF OrderInv

-----------------------------------------------------------------------------
(* The poller saves and schedules *)

\* It is done with a message, which is not open any more.
LEMMA SavedOrders ==
  ASSUME IInv, IInv', OrderInv, Ready("poller"), UNCHANGED <<contents, now, sent, todo, pending, reply>>,
         DOMAIN rows \subseteq DOMAIN rows', faulty \subseteq faulty',
         DOMAIN rows' \subseteq Sent, \A n \in DOMAIN rows' : rows'[n].id \in Nat,
         writer["poller"].msg \in DOMAIN rows' \cup faulty',
         NEW work, writer' = [writer EXCEPT !["poller"] = work],
         \/ work.pc = "idle"
         \/ /\ work.pc = "schedule" /\ work.msg = writer["poller"].msg
            /\ work.msg \in DOMAIN rows' \ DOMAIN rows
  PROVE  OrderInv'
  <1>0. PICK p : p = writer["poller"].msg
    OBVIOUS
  <1>1. p \in Sent /\ p \in Nat
    BY <1>0, Naturally, InHand DEF Ready, At
  <1>2. /\ Hand("enrich") = {p} /\ Hand("schedule") = {} /\ Hand("enrich")' = {}
        /\ Hand("schedule")' = IF work.pc = "schedule" THEN {p} ELSE {}
    BY <1>0, PollerNow DEF Ready, Hand, At
  <1>3. Ahead = todo \cup {p} /\ Ahead' = todo
    BY <1>2 DEF Ahead
  <1>4. Scheduled = pending.group /\ Scheduled' = pending.group \cup Hand("schedule")'
    BY <1>2 DEF Scheduled
  <1>5. Open' \subseteq Open \ {p}
    <2>1. Open' \subseteq Open
      BY <1>3, OpenCloses
    <2>2. p \notin Open'
      BY <1>0 DEF Open, Missing
    <2>3. QED
      BY <2>1, <2>2
  <1>6. \A n \in Open' : p < n
    BY <1>1, <1>2, <1>3, <1>5 DEF OrderInv, RoundOK
  <1>7. p \notin DOMAIN rows /\ p \notin faulty => p \in Open
    BY <1>1, <1>3 DEF Open, Missing
  <1>8. Times'
    BY TimesStay DEF OrderInv
  <1>9. Known'
    <2>1. Hand("schedule")' \subseteq DOMAIN rows'
      BY <1>0, <1>2
    <2>2. work.pc # "idle" => work.msg \in Sent
      BY <1>0, <1>1
    <2>3. QED
      BY <2>1, <2>2, Naturally, KnownStays DEF OrderInv, Known
  <1>10. RoundOK'
    BY <1>2, <1>3, <1>5 DEF OrderInv, RoundOK
  <1>11. InOrder'
    BY <1>2, <1>4, <1>5, <1>6 DEF OrderInv, InOrder
  <1>12. Groups'
    <2>1. Sent' = Sent
      BY DEF Sent
    <2>2. \A q \in Hand("schedule")' : Precede(pending.group, q)'
      <3>1. CASE work.pc = "idle"
        BY <1>2, <3>1
      <3>2. CASE work.pc = "schedule" /\ p \notin DOMAIN rows
        <4>1. pending.group \subseteq DOMAIN rows /\ pending.group \subseteq Nat
          BY OpenIsNatural DEF OrderInv, Groups, Precede, Scheduled
        <4>2. \A k \in pending.group : k <= p \/ p \in faulty
          BY <1>1, <1>4, <1>7, <3>2, <4>1 DEF OrderInv, InOrder
        <4>3. Precede(pending.group, p)'
          BY <4>1, <4>2 DEF Precede
        <4>4. QED
          BY <1>2, <4>3
      <3>3. QED
        BY <1>0, <3>1, <3>2
    <2>3. QED
      BY <2>1, <2>2, SameTypes, PrecedeStays DEF OrderInv, Groups
  <1>13. \A n \in Msgs : SaidOK(n)'
    BY SaidStays
  <1>14. QED
    BY <1>8, <1>9, <1>10, <1>11, <1>12, <1>13, SameTypes DEF OrderInv

LEMMA PollSaveOrders ==
  ASSUME IInv, IInv', OrderInv, PollSave \/ PollSaveFails
  PROVE  OrderInv'
  <1> DEFINE p == writer["poller"].msg
             old == writer["poller"]
  <1>1. /\ Ready("poller") /\ UNCHANGED <<contents, now, sent, todo, pending, reply>>
        /\ faulty \subseteq faulty'
    BY DEF PollSave, PollSaveFails, rest
  <1>2. p \in Sent
    BY <1>1, Naturally, InHand DEF Ready, At
  <1>3. /\ UNCHANGED rows \/ (p \notin DOMAIN rows /\ Insert(p, old.text))
        /\ p \in DOMAIN rows \/ p \in faulty' \/ (p \notin DOMAIN rows /\ Insert(p, old.text))
    BY DEF PollSave, PollSaveFails
  <1>4. /\ DOMAIN rows \subseteq DOMAIN rows' /\ DOMAIN rows' \subseteq Sent
        /\ \A n \in DOMAIN rows' : rows'[n].id \in Nat
        /\ p \in DOMAIN rows' \cup faulty'
    <2>1. CASE UNCHANGED rows /\ ~(p \notin DOMAIN rows /\ Insert(p, old.text))
      BY <1>3, <2>1 DEF OrderInv, Known
    <2>2. CASE p \notin DOMAIN rows /\ Insert(p, old.text)
      BY <1>2, <2>2, InsertKnown DEF OrderInv
    <2>3. QED
      BY <1>3, <2>1, <2>2
  <1>5. CASE writer' = [writer EXCEPT !["poller"] = NoWork]
    BY <1>1, <1>4, <1>5, Idle, SavedOrders
  <1>6. CASE /\ p \notin DOMAIN rows /\ Insert(p, old.text)
             /\ writer' = [writer EXCEPT !["poller"].pc = "schedule"]
    <2> DEFINE a == [old EXCEPT !.pc = "schedule"]
    <2>1. old \in Works
      BY Naturally DEF IInv
    <2>2. writer' = [writer EXCEPT !["poller"] = a]
      BY <1>6, Naturally DEF IInv
    <2>3. a.pc = "schedule" /\ a.msg = old.msg
      BY <2>1, SetPc
    <2> HIDE DEF a
    <2>4. p \in DOMAIN rows' \ DOMAIN rows
      BY <1>2, <1>6, InsertKnown DEF OrderInv
    <2>5. QED
      BY <1>1, <1>4, <2>2, <2>3, <2>4, SavedOrders
  <1>7. QED
    BY <1>5, <1>6 DEF PollSave, PollSaveFails

LEMMA ScheduleOrders ==
  ASSUME IInv, IInv', OrderInv, Schedule \/ NotScheduled
  PROVE  OrderInv'
  <1>1. PICK p : p = writer["poller"].msg
    OBVIOUS
  <1>2. PICK text : text = writer["poller"].text
    OBVIOUS
  <1>3. /\ UNCHANGED <<contents, now, sent, rows, todo, reply>> /\ At("poller", "schedule")
        /\ writer' = [writer EXCEPT !["poller"] = NoWork] /\ faulty \subseteq faulty'
        /\ UNCHANGED pending \/ (pending' = TakesPlace(p, text) /\ UNCHANGED faulty)
    BY <1>1, <1>2 DEF Schedule, NotScheduled, rest
  <1>4. p \in Sent /\ p \in Nat /\ p \in Msgs /\ p # 0 /\ text \in Seq(Tokens)
    <2>1. text \in Seq(Tokens)
      BY <1>2, Naturally DEF IInv, Works
    <2>2. QED
      BY <1>1, <1>3, <2>1, Naturally, InHand DEF At
  <1>5. /\ Hand("enrich") = {} /\ Hand("enrich")' = {}
        /\ Hand("schedule") = {p} /\ Hand("schedule")' = {}
    BY <1>1, <1>3, Idle, PollerNow DEF Hand, At
  <1>6. Ahead' = Ahead /\ Open' \subseteq Open
    BY <1>3, <1>5, OpenCloses DEF Ahead
  <1>7. Precede(pending.group, p) /\ p \in DOMAIN rows /\ pending \in Slots
    BY <1>5 DEF OrderInv, Groups, Known
  <1>8. /\ Scheduled' \subseteq Scheduled /\ pending' \in Slots
        /\ pending'.msg = 0 => pending'.group = {}
        /\ pending'.msg # 0 => pending'.msg \in Sent /\ Precede(pending'.group, pending'.msg)
    <2>1. CASE UNCHANGED pending
      BY <1>5, <2>1 DEF OrderInv, Groups, Scheduled
    <2>2. CASE pending' = TakesPlace(p, text) /\ UNCHANGED faulty
      <3>1. /\ pending'.msg = p /\ pending'.text = text /\ pending'.group = pending.group \cup {p}
            /\ pending' \in Slots
        BY <1>4, <1>7, <2>2, Naturally DEF TakesPlace, Slots
      <3>2. Precede(pending'.group, p)
        BY <1>4, <1>7, <3>1 DEF Precede
      <3>3. Scheduled' = Scheduled
        BY <1>5, <3>1 DEF Scheduled
      <3>4. QED
        BY <1>4, <3>1, <3>2, <3>3
    <2>3. QED
      BY <1>3, <2>1, <2>2
  <1>9. Times'
    BY <1>3, TimesStay DEF OrderInv
  <1>10. Known'
    BY <1>3, <1>5, Idle, Naturally, KnownStays DEF OrderInv, Known
  <1>11. RoundOK' /\ InOrder'
    BY <1>5, <1>6, <1>8 DEF OrderInv, RoundOK, InOrder, Ahead
  <1>12. Groups'
    <2>1. Sent' = Sent
      BY <1>3 DEF Sent
    <2>2. \A group, n : Precede(group, n) => (Precede(group, n))'
      BY <1>3 DEF Precede
    <2>3. pending'.msg # 0 => Precede(pending.group, pending.msg)'
      BY <1>3, <1>8 DEF Precede
    <2>4. QED
      BY <1>3, <1>5, <1>8, <2>1, <2>2, <2>3, SameTypes DEF OrderInv, Groups
  <1>13. \A n \in Msgs : SaidOK(n)'
    BY <1>3, SaidStays
  <1>14. QED
    BY <1>3, <1>9, <1>10, <1>11, <1>12, <1>13, SameTypes DEF OrderInv

-----------------------------------------------------------------------------
(* The reply *)

\* One reply goes on, or is begun with what has waited.
LEMMA ReplyOrders ==
  ASSUME IInv, IInv', OrderInv, UNCHANGED <<contents, now, sent, rows, todo, writer>>,
         faulty \subseteq faulty', NEW n \in Msgs, NEW r \in Replies, reply' = [reply EXCEPT ![n] = r],
         n \in Sent, Precede(r.group, n), SaidOK(n)', UNCHANGED pending \/ pending' = NoSlot
  PROVE  OrderInv'
  <1>1. \A label : Hand(label)' = Hand(label)
    BY DEF Hand, At
  <1>2. Ahead' = Ahead /\ Open' \subseteq Open
    <2>1. Ahead' = Ahead
      BY <1>1 DEF Ahead
    <2>2. QED
      BY <2>1, OpenCloses
  <1>3. Scheduled' \subseteq Scheduled
    BY <1>1 DEF Scheduled, NoSlot
  <1>4. \A m \in Msgs : reply'[m] = IF m = n THEN r ELSE reply[m]
    BY DEF OrderInv, Groups
  <1>5. Times'
    BY TimesStay DEF OrderInv
  <1>6. Known'
    <2>1. Sent' = Sent /\ Writers' = Writers
      BY DEF Sent, Writers
    <2>2. QED
      BY <1>1, <2>1 DEF OrderInv, Known
  <1>7. RoundOK' /\ InOrder'
    BY <1>1, <1>2, <1>3 DEF OrderInv, RoundOK, InOrder
  <1>8. Groups'
    <2>1. Sent' = Sent
      BY DEF Sent
    <2>2. \A group, m : Precede(group, m) => (Precede(group, m))'
      BY DEF Precede
    <2>3. /\ pending' \in Slots
          /\ pending'.msg = 0 => pending'.group = {}
          /\ pending'.msg # 0 => UNCHANGED pending
          /\ \A p \in Hand("schedule") : Precede(pending'.group, p)
      <3>1. CASE UNCHANGED pending
        BY <3>1 DEF OrderInv, Groups
      <3>2. CASE pending' = NoSlot
        <4>1. << >> \in Seq(Tokens)
          OBVIOUS
        <4>2. QED
          BY <3>2, <4>1 DEF NoSlot, Slots, Precede
      <3>3. QED
        BY <3>1, <3>2
    <2>4. reply' \in [Msgs -> Replies]
      BY DEF OrderInv, Groups
    <2>5. \A m \in Msgs : reply'[m].pc # "none" => m \in Sent /\ (Precede(reply[m].group, m))'
      <3> SUFFICES ASSUME NEW m \in Msgs, reply'[m].pc # "none"
                   PROVE  m \in Sent /\ (Precede(reply[m].group, m))'
        OBVIOUS
      <3>1. m \in Sent /\ Precede(reply'[m].group, m)
        BY <1>4 DEF OrderInv, Groups
      <3>2. QED
        BY <3>1 DEF Precede
    <2>6. pending'.msg # 0 => pending'.msg \in Sent /\ (Precede(pending.group, pending.msg))'
      BY <2>3 DEF OrderInv, Groups, Precede
    <2>7. \A p \in Hand("schedule") : (Precede(pending.group, p))'
      BY <2>3 DEF Precede
    <2>8. QED
      BY <1>1, <2>1, <2>3, <2>4, <2>5, <2>6, <2>7, SameTypes DEF Groups
  <1>9. \A m \in Msgs : SaidOK(m)'
    BY <1>4, SaidStays
  <1>10. QED
    BY <1>5, <1>6, <1>7, <1>8, <1>9, SameTypes DEF OrderInv

LEMMA NoReplyOK == NoReply \in Replies /\ NoReply.pc = "none" /\ NoReply.group = {}
  <1>1. << >> \in Seq(Tokens)
    OBVIOUS
  <1>2. QED
    BY <1>1 DEF NoReply, Replies

LEMMA FlushOrders ==
  ASSUME IInv, IInv', OrderInv, Flush
  PROVE  OrderInv'
  <1>1. PICK pc \in {"question", "silent"} :
          reply' = [reply EXCEPT ![pending.msg] =
            [NoReply EXCEPT !.pc = pc, !.text = pending.text, !.group = pending.group]]
    BY DEF Flush
  <1>2. /\ UNCHANGED <<contents, now, sent, rows, todo, writer, faulty>> /\ pending.msg # 0
        /\ pending' = NoSlot
    BY DEF Flush, rest
  <1>3. PICK n : n = pending.msg
    OBVIOUS
  <1>4. PICK text : text = pending.text
    OBVIOUS
  <1>5. PICK group : group = pending.group
    OBVIOUS
  <1>6. /\ n \in Sent /\ n \in Msgs /\ Precede(group, n) /\ text \in Seq(Tokens)
        /\ group \in SUBSET Msgs
    BY <1>2, <1>3, <1>4, <1>5, Naturally DEF OrderInv, Groups, Slots
  <1> DEFINE a == [NoReply EXCEPT !.pc = pc]
             b == [a EXCEPT !.text = text]
             c == [b EXCEPT !.group = group]
  <1>7. reply' = [reply EXCEPT ![n] = c]
    BY <1>1, <1>3, <1>4, <1>5
  <1>8. a \in Replies /\ a.pc = pc
    BY NoReplyOK, SetReply
  <1> HIDE DEF a
  <1>9. b \in Replies /\ b.pc = pc
    BY <1>6, <1>8, SetReplyText
  <1> HIDE DEF b
  <1>10. c \in Replies /\ c.pc = pc /\ c.group = group
    BY <1>6, <1>9, SetGroup
  <1> HIDE DEF c
  <1>11. reply'[n] = c
    BY <1>6, <1>7 DEF OrderInv, Groups
  <1>12. SaidOK(n)'
    BY <1>10, <1>11 DEF SaidOK
  <1>13. QED
    BY <1>2, <1>6, <1>7, <1>10, <1>12, ReplyOrders

LEMMA BuildQuestionOrders ==
  ASSUME IInv, IInv', OrderInv, NEW n \in Msgs, BuildQuestion(n)
  PROVE  OrderInv'
  <1>1. UNCHANGED <<contents, now, sent, rows, todo, writer, pending, faulty>>
        /\ reply[n].pc = "question"
    BY DEF BuildQuestion, rest
  <1>2. PICK old : old = reply[n]
    OBVIOUS
  <1>3. PICK items : items = RecentMessages(n)
    OBVIOUS
  <1>4. PICK question :
          question = IF items = {} THEN {old.text} ELSE {rows[k].text : k \in items}
    OBVIOUS
  <1>5. reply' = [reply EXCEPT ![n].pc = "asked", ![n].question = question]
    BY <1>2, <1>3, <1>4 DEF BuildQuestion
  <1>6. old \in Replies /\ n \in Sent /\ Precede(old.group, n) /\ old.text \in Seq(Tokens)
    BY <1>1, <1>2 DEF OrderInv, Groups, Replies
  <1>7. question \in SUBSET Seq(Tokens)
    <2>1. \A k \in DOMAIN rows : rows[k].text \in Seq(Tokens)
      BY TextTokens DEF IInv, RowsOK
    <2>2. items \subseteq DOMAIN rows
      BY <1>3 DEF RecentMessages
    <2>3. QED
      BY <1>4, <1>6, <2>1, <2>2
  <1> DEFINE a == [old EXCEPT !.pc = "asked"]
             b == [a EXCEPT !.question = question]
  <1>8. reply' = [reply EXCEPT ![n] = b]
    BY <1>2, <1>5 DEF OrderInv, Groups
  <1>9. a \in Replies /\ a.group = old.group
    BY <1>6, SetReply
  <1> HIDE DEF a
  <1>10. b \in Replies /\ b.group = old.group /\ b.question = question
    BY <1>7, <1>9, SetQuestions
  <1> HIDE DEF b
  <1>11. reply'[n] = b
    BY <1>8 DEF OrderInv, Groups
  <1>12. SaidOK(n)'
    <2> SUFFICES ASSUME n \notin faulty, Cardinality(Around(n)) <= Limit, NEW k \in old.group,
                        sent[n] - sent[k] <= Window
                 PROVE  Said(k) \subseteq UNION {ToSet(text) : text \in question}
      <3>1. Around(n)' = Around(n) /\ \A k : Said(k)' = Said(k)
        BY <1>1 DEF Around, Sent, Said
      <3> DEFINE asks(k) == Said(k) \subseteq UNION {ToSet(text) : text \in question}
      <3>2. ASSUME n \notin faulty, Cardinality(Around(n)) <= Limit
            PROVE  \A k \in old.group : sent[n] - sent[k] <= Window => asks(k)
        BY <3>2
      <3>3. \A k : asks(k) => (Said(k) \subseteq UNION {ToSet(text) : text \in reply[n].question})'
        BY <1>10, <1>11, <3>1
      <3> HIDE DEF asks
      <3>4. reply'[n].group = old.group
        BY <1>10, <1>11
      <3>5. QED
        BY <1>1, <3>1, <3>2, <3>3, <3>4 DEF SaidOK
    <2>1. question = {rows[j].text : j \in items} \/ items = {}
      BY <1>4
    <2>2. QED
      BY <1>3, <1>6, <2>1, QueryFinds
  <1>13. QED
    BY <1>1, <1>6, <1>8, <1>10, <1>12, ReplyOrders

LEMMA QueryFailsOrders ==
  ASSUME IInv, IInv', OrderInv, NEW n \in Msgs, QueryFails(n)
  PROVE  OrderInv'
  <1>1. UNCHANGED <<contents, now, sent, rows, todo, writer, pending>>
        /\ reply[n].pc = "question" /\ faulty' = faulty \cup {n}
    BY DEF QueryFails, rest
  <1>2. PICK old : old = reply[n]
    OBVIOUS
  <1>3. old \in Replies /\ n \in Sent /\ Precede(old.group, n) /\ old.text \in Seq(Tokens)
    BY <1>1, <1>2 DEF OrderInv, Groups, Replies
  <1> DEFINE question == {old.text}
             a == [old EXCEPT !.pc = "asked"]
             b == [a EXCEPT !.question = question]
  <1>4. reply' = [reply EXCEPT ![n] = b]
    BY <1>2 DEF QueryFails, OrderInv, Groups
  <1>5. question \in SUBSET Seq(Tokens)
    BY <1>3
  <1> HIDE DEF question
  <1>6. a \in Replies /\ a.group = old.group
    BY <1>3, SetReply
  <1> HIDE DEF a
  <1>7. b \in Replies /\ b.group = old.group
    BY <1>5, <1>6, SetQuestions
  <1> HIDE DEF b
  <1>8. SaidOK(n)'
    BY <1>1 DEF SaidOK
  <1>9. QED
    BY <1>1, <1>3, <1>4, <1>7, <1>8, ReplyOrders

-----------------------------------------------------------------------------

LEMMA InitOrders == Init => OrderInv
  <1> SUFFICES ASSUME Init PROVE OrderInv
    OBVIOUS
  <1>1. IInv
    BY InitInv
  <1>2. /\ sent = << >> /\ rows = << >> /\ todo = {} /\ pending = NoSlot
        /\ writer = [w \in Writers |-> NoWork] /\ reply = [n \in Msgs |-> NoReply]
    BY DEF Init
  <1>3. Sent = {} /\ DOMAIN rows = {}
    BY <1>2 DEF Sent
  <1>4. \A label \in {"enrich", "schedule"} : Hand(label) = {}
    BY <1>1, <1>2, Idle, Naturally DEF Hand, At
  <1>5. Times
    BY <1>3 DEF Times
  <1>6. Known
    BY <1>2, <1>3, <1>4, Idle DEF Known
  <1>7. Open = {} /\ pending.group = {} /\ pending.msg = 0
    BY <1>2, <1>3 DEF Open, Missing, NoSlot
  <1>8. RoundOK /\ InOrder
    BY <1>4, <1>7 DEF RoundOK, InOrder
  <1>9. NoSlot \in Slots
    <2>1. << >> \in Seq(Tokens)
      OBVIOUS
    <2>2. QED
      BY <2>1 DEF NoSlot, Slots
  <1>10. Groups
    BY <1>2, <1>4, <1>7, <1>9, NoReplyOK DEF Groups
  <1>11. \A n \in Msgs : SaidOK(n)
    BY <1>2, NoReplyOK DEF SaidOK
  <1>12. QED
    BY <1>5, <1>6, <1>8, <1>10, <1>11 DEF OrderInv

LEMMA NextOrders == IInv /\ IInv' /\ OrderInv /\ [Next]_vars => OrderInv'
  <1> SUFFICES ASSUME IInv, IInv', OrderInv, [Next]_vars PROVE OrderInv'
    OBVIOUS
  <1>1. CASE Send
    BY <1>1, SendOrders
  <1>2. CASE Tick \/ UNCHANGED vars
    BY <1>2, TickOrders
  <1>3. CASE PollerStep
    BY <1>3, Facts, PollOrders, PollNextOrders, EnrichOrders, PollSaveOrders, ScheduleOrders
    DEF PollerStep, WriterStep
  <1>4. CASE \E w \in Upserters : UpserterStep(w)
    <2>1. PICK w \in Upserters : UpserterStep(w)
      BY <1>4
    <2>2. w \in Writers
      BY Facts
    <2>3. QED
      BY <2>1, <2>2, UpsertOrders, EnrichOrders DEF UpserterStep, WriterStep
  <1>5. CASE Flush
    BY <1>5, FlushOrders
  <1>6. CASE \E n \in Msgs : BuildQuestion(n) \/ QueryFails(n)
    BY <1>6, BuildQuestionOrders, QueryFailsOrders
  <1>7. QED
    BY <1>1, <1>2, <1>3, <1>4, <1>5, <1>6 DEF Next

(* The poller schedules messages in the order they were sent, whichever    *)
(* rounds find them: a message that may still be found new is younger than *)
(* all that is scheduled, unless a call for it failed before.              *)
THEOREM ScheduledInOrder == Spec => []OrderInv
  <1>1. IInv /\ IInv' /\ OrderInv /\ [Next]_vars => OrderInv'
    BY NextOrders
  <1>2. QED
    BY <1>1, InitOrders, ConversationInvariant, PTL DEF Spec

(* SaidIsAsked: what the messages said that gave way to a later one is in  *)
(* the question, if they are in the window and not more than the limit.    *)
THEOREM WhatWasSaidIsAsked == Spec => []SaidIsAsked
  BY ScheduledInOrder, SaidOfEach, PTL

-----------------------------------------------------------------------------
(* Places *)

LEMMA PlaceBound ==
  ASSUME NEW P \in SUBSET Nat, IsFiniteSet(P), NEW i \in P
  PROVE  Place(P, i) \in 1..Cardinality(P) /\ Place(P, i) \in Nat /\ Cardinality(P) \in Nat
  <1> DEFINE upTo == {j \in P : j <= i}
  <1>1. upTo \subseteq P /\ i \in upTo
    OBVIOUS
  <1> HIDE DEF upTo
  <1>2. IsFiniteSet(upTo) /\ Cardinality(upTo) <= Cardinality(P)
    BY <1>1, FS_Subset
  <1>3. Cardinality(upTo) \in Nat /\ Cardinality(P) \in Nat /\ Cardinality(upTo) # 0
    BY <1>1, <1>2, FS_CardinalityType, FS_EmptySet
  <1>4. Place(P, i) = Cardinality(upTo)
    BY DEF Place, upTo
  <1>5. QED
    BY <1>2, <1>3, <1>4

LEMMA PlaceOrder ==
  ASSUME NEW P \in SUBSET Nat, IsFiniteSet(P), NEW i \in P, NEW k \in P, i < k
  PROVE  Place(P, i) < Place(P, k)
  <1> DEFINE a == {j \in P : j <= i}
             b == {j \in P : j <= k}
  <1>0. i \in Nat /\ k \in Nat /\ \A j \in P : j \in Nat
    OBVIOUS
  <1>a. (\A j \in P : j <= i => j <= k) /\ k <= k /\ ~(k <= i)
    BY <1>0
  <1>1. a \subseteq b /\ b \subseteq P /\ k \in b /\ k \notin a
    BY <1>a, Zenon
  <1>2. Place(P, i) = Cardinality(a) /\ Place(P, k) = Cardinality(b)
    BY DEF Place
  <1> HIDE DEF a, b
  <1>3. IsFiniteSet(b)
    BY <1>1, FS_Subset
  <1>4. Cardinality(a) <= Cardinality(b) /\ Cardinality(a) # Cardinality(b)
    BY <1>1, <1>3, FS_Subset
  <1>5. IsFiniteSet(a) /\ Cardinality(a) \in Nat /\ Cardinality(b) \in Nat
    BY <1>1, <1>3, FS_Subset, FS_CardinalityType
  <1>6. QED
    BY <1>2, <1>4, <1>5

LEMMA PlaceInjective ==
  ASSUME NEW P \in SUBSET Nat, IsFiniteSet(P), NEW i \in P, NEW k \in P, Place(P, i) = Place(P, k)
  PROVE  i = k
  <1>1. i < k \/ k < i \/ i = k
    OBVIOUS
  <1>2. Place(P, i) \in Nat /\ Place(P, k) \in Nat
    BY PlaceBound
  <1>3. QED
    BY <1>1, <1>2, PlaceOrder

\* Every number up to the size of a set is the place of one of its elements:
\* with one missing, two elements would have to share a place.
LEMMA PlaceOnto ==
  ASSUME NEW P \in SUBSET Nat, IsFiniteSet(P), NEW n \in 1..Cardinality(P)
  PROVE  \E i \in P : Place(P, i) = n
  <1> SUFFICES ASSUME \A i \in P : Place(P, i) # n PROVE FALSE
    OBVIOUS
  <1> DEFINE c == Cardinality(P)
             Others == (1..c) \ {n}
             f == [i \in P |-> Place(P, i)]
  <1>1. c \in Nat
    BY FS_CardinalityType
  <1>2. IsFiniteSet(1..c) /\ Cardinality(1..c) = c
    BY <1>1, FS_Interval
  <1>3. IsFiniteSet(Others) /\ Cardinality(Others) = c - 1
    BY <1>2, FS_RemoveElement
  <1>4. f \in [P -> Others]
    BY PlaceBound
  <1>5. \E x, y \in P : x # y /\ f[x] = f[y]
    <2>1. Cardinality(Others) < Cardinality(P)
      BY <1>1, <1>3
    <2> HIDE DEF f, Others
    <2>2. QED
      BY <1>3, <1>4, <2>1, FS_PigeonHole
  <1>6. QED
    BY <1>5, PlaceInjective

\* So the one in the first place is the least.
LEMMA Least ==
  ASSUME NEW P \in SUBSET Nat, IsFiniteSet(P), NEW p \in P
  PROVE  \E i \in P : \A j \in P : i <= j
  <1>1. 1 \in 1..Cardinality(P)
    BY PlaceBound
  <1>2. PICK i \in P : Place(P, i) = 1
    BY <1>1, PlaceOnto
  <1>3. ASSUME NEW j \in P, j < i PROVE FALSE
    <2>1. Place(P, j) < 1
      BY <1>2, <1>3, PlaceOrder
    <2>2. Place(P, j) \in 1..Cardinality(P)
      BY PlaceBound
    <2>3. QED
      BY <2>1, <2>2
  <1>4. QED
    BY <1>3

-----------------------------------------------------------------------------
(* Selections and cuts *)

LEMMA PositionsFinite ==
  ASSUME NEW S, NEW s \in Seq(S), NEW P \in SUBSET DOMAIN s
  PROVE  P \in SUBSET Nat /\ IsFiniteSet(P) /\ Cardinality(P) \in Nat /\ Cardinality(P) <= Len(s)
  <1>1. DOMAIN s = 1..Len(s) /\ Len(s) \in Nat
    OBVIOUS
  <1> DEFINE l == Len(s)
  <1> HIDE DEF l
  <1>2. IsFiniteSet(1..l) /\ Cardinality(1..l) = l
    <2>1. l \in Nat
      BY <1>1 DEF l
    <2>2. QED
      BY <2>1, FS_Interval
  <1>3. QED
    BY <1>1, <1>2, FS_Subset, FS_CardinalityType DEF l

LEMMA Selected ==
  ASSUME NEW S, NEW s \in Seq(S), NEW P \in SUBSET DOMAIN s
  PROVE  /\ Select(s, P) \in Seq(S) /\ Len(Select(s, P)) = Cardinality(P)
         /\ \A i \in P : Place(P, i) \in DOMAIN Select(s, P) /\ Select(s, P)[Place(P, i)] = s[i]
         /\ \A n \in DOMAIN Select(s, P) : \E i \in P : Place(P, i) = n /\ Select(s, P)[n] = s[i]
  <1> DEFINE c == Cardinality(P)
             at(n) == CHOOSE i \in P : Place(P, i) = n
  <1>1. P \in SUBSET Nat /\ IsFiniteSet(P) /\ c \in Nat
    BY PositionsFinite
  <1>2. \A n \in 1..c : at(n) \in P /\ Place(P, at(n)) = n
    BY <1>1, PlaceOnto
  <1>3. Select(s, P) = [n \in 1..c |-> s[at(n)]]
    BY DEF Select
  <1>4. \A i \in P : Place(P, i) \in 1..c
    BY <1>1, PlaceBound
  <1>5. \A i \in P : at(Place(P, i)) = i
    BY <1>1, <1>2, <1>4, PlaceInjective
  <1>6. \A i \in P : s[i] \in S
    OBVIOUS
  <1> HIDE DEF c, at
  <1> DEFINE r == Select(s, P)
  <1>7. r \in [1..c -> S]
    BY <1>2, <1>3, <1>6
  <1>8. r \in Seq(S) /\ Len(r) = c /\ DOMAIN r = 1..c
    BY <1>1, <1>7
  <1>9. \A n \in 1..c : r[n] = s[at(n)]
    BY <1>3
  <1> HIDE DEF r
  <1>10. \A i \in P : Place(P, i) \in DOMAIN r /\ r[Place(P, i)] = s[i]
    BY <1>4, <1>5, <1>8, <1>9
  <1>11. \A n \in DOMAIN r : \E i \in P : Place(P, i) = n /\ r[n] = s[i]
    BY <1>2, <1>8, <1>9
  <1>12. QED
    BY <1>8, <1>10, <1>11 DEF r, c

\* Positions from 1 on are at the place of their own.
LEMMA FirstPlaces ==
  ASSUME NEW P \in SUBSET Nat, NEW m \in Nat, 1..m \subseteq P, 0 \notin P, NEW i \in 1..m
  PROVE  Place(P, i) = i
  <1>0. \A j \in P : j \in Nat /\ j # 0
    OBVIOUS
  <1>a. i \in Nat /\ \A j \in 1..i : j \in P /\ j <= i
    BY <1>0
  <1>b. \A j \in P : j <= i => j \in 1..i
    BY <1>0, <1>a
  <1>1. {j \in P : j <= i} = 1..i
    BY <1>a, <1>b, Zenon
  <1>2. Cardinality(1..i) = i
    BY FS_Interval
  <1>3. QED
    BY <1>1, <1>2 DEF Place

\* No position is behind itself.
LEMMA PlaceAtMost ==
  ASSUME NEW P \in SUBSET Nat, 0 \notin P, NEW i \in P
  PROVE  Place(P, i) <= i /\ Place(P, i) \in Nat
  <1>0. \A j \in P : j \in Nat /\ j # 0
    OBVIOUS
  <1>a. \A j \in P : j <= i => j \in 1..i
    BY <1>0
  <1>1. {j \in P : j <= i} \subseteq 1..i
    BY <1>a, Zenon
  <1>2. IsFiniteSet(1..i) /\ Cardinality(1..i) = i /\ i \in Nat
    BY FS_Interval
  <1>3. QED
    BY <1>1, <1>2, FS_Subset, FS_CardinalityType DEF Place

LEMMA UnseenFacts ==
  ASSUME NEW keys, NEW W \in SUBSET Nat, IsFiniteSet(W)
  PROVE  /\ Unseen(keys, W) \subseteq W
         /\ \A i, j \in Unseen(keys, W) : keys[i] = keys[j] => i = j
         /\ \A i \in W : \E j \in Unseen(keys, W) : keys[j] = keys[i] /\ j <= i
  <1>1. \A i, j \in Unseen(keys, W) : keys[i] = keys[j] => i = j
    BY DEF Unseen
  <1>2. ASSUME NEW i \in W PROVE \E j \in Unseen(keys, W) : keys[j] = keys[i] /\ j <= i
    <2> DEFINE K == {j \in W : keys[j] = keys[i]}
    <2>1. K \in SUBSET Nat /\ IsFiniteSet(K) /\ i \in K
      BY FS_Subset
    <2>2. PICK j \in K : \A k \in K : j <= k
      BY <2>1, Least
    <2>3. j \in Unseen(keys, W)
      BY <2>2 DEF Unseen
    <2>4. QED
      BY <2>1, <2>2, <2>3
  <1>3. QED
    BY <1>1, <1>2 DEF Unseen

LEMMA CutFacts ==
  ASSUME NEW S, NEW s \in Seq(S), NEW n \in Nat
  PROVE  /\ Cut(s, n) \in Seq(S)
         /\ Len(Cut(s, n)) = IF Len(s) < n THEN Len(s) ELSE n
         /\ DOMAIN Cut(s, n) \subseteq DOMAIN s
         /\ \A i \in DOMAIN Cut(s, n) : Cut(s, n)[i] = s[i]
         /\ \A i \in DOMAIN s : i <= n => i \in DOMAIN Cut(s, n)
  <1>1. CASE Len(s) > n
    BY <1>1 DEF Cut
  <1>2. CASE ~(Len(s) > n)
    BY <1>2 DEF Cut
  <1>3. QED
    BY <1>1, <1>2


-----------------------------------------------------------------------------
(* Lists of rows *)

RowSet == [id : Chunks, text : DOMAIN Texts, embedded : BOOLEAN]

DistinctIds(s) == \A i, j \in DOMAIN s : s[i].id = s[j].id => i = j

\* What a search may return.
ListOK(s) == s \in Seq(RowSet) /\ Len(s) <= ResultLimit /\ DistinctIds(s)

LEMMA Constants ==
  /\ ResultLimit \in Nat \ {0} /\ KeywordLimit \in Nat \ {0} /\ ModelLimit \in Nat \ {0}
  /\ MergeLimit \in Nat \ {0} /\ MaxWrites \in Nat /\ IsFiniteSet(Chunks)
  BY RetrievalAssumption

LEMMA CountIds ==
  ASSUME NEW s \in Seq(RowSet), DistinctIds(s)
  PROVE  Cardinality(Ids(s)) = Len(s)
  <1> DEFINE D == DOMAIN s
             f == [i \in D |-> s[i].id]
  <1>1. D = 1..Len(s) /\ Len(s) \in Nat
    OBVIOUS
  <1>2. IsFiniteSet(D) /\ Cardinality(D) = Len(s)
    <2> DEFINE l == Len(s)
    <2>1. l \in Nat
      BY <1>1
    <2> HIDE DEF l
    <2>2. IsFiniteSet(1..l) /\ Cardinality(1..l) = l
      BY <2>1, FS_Interval
    <2>3. QED
      BY <1>1, <2>2 DEF l
  <1>3. f \in [D -> Ids(s)] /\ \A x \in Ids(s) : \E i \in D : f[i] = x
    BY DEF Ids
  <1>4. f \in Surjection(D, Ids(s))
    BY <1>3 DEF Surjection
  <1>5. f \in Injection(D, Ids(s))
    BY <1>3 DEF Injection, IsInjective, DistinctIds
  <1> HIDE DEF f, D
  <1>6. QED
    BY <1>2, <1>4, <1>5, FS_Surjection

LEMMA PrefixFacts ==
  ASSUME NEW s \in Seq(RowSet), NEW t \in Seq(RowSet), Len(s) <= Len(t),
         \A i \in DOMAIN s : t[i] = s[i]
  PROVE  IsPrefix(s, t)
  <1>1. SubSeq(s, 1, Len(s)) = SubSeq(t, 1, Len(s))
    OBVIOUS
  <1>2. QED
    BY <1>1 DEF IsPrefix

\* mergeRetrievedChunks: no chunk twice, the first list before what the second
\* adds, and as many as there are of both or room for.
LEMMA MergeFacts ==
  ASSUME NEW t, NEW v, ListOK(t), ListOK(v)
  PROVE  LET m == MergeChunks(t, v)
             found == Ids(t) \cup Ids(v)
         IN  /\ ListOK(m) /\ IsPrefix(t, m) /\ Ids(m) \subseteq found
             /\ Len(m) = IF Cardinality(found) < ResultLimit THEN Cardinality(found) ELSE ResultLimit
             /\ \A i \in DOMAIN t : i \in DOMAIN m /\ m[i] = t[i]
  <1> DEFINE all == t \o v
             keys == IdsOf(all)
             D == DOMAIN all
             U == Unseen(keys, D)
             p == Select(all, U)
             m == Cut(p, ResultLimit)
             found == Ids(t) \cup Ids(v)
  <1>1. MergeChunks(t, v) = m
    BY DEF MergeChunks
  <1>2. /\ t \in Seq(RowSet) /\ v \in Seq(RowSet) /\ DistinctIds(t) /\ Len(t) <= ResultLimit
        /\ DOMAIN t = 1..Len(t) /\ Len(t) \in Nat /\ DOMAIN v = 1..Len(v) /\ Len(v) \in Nat
    BY DEF ListOK
  <1>3. /\ all \in Seq(RowSet) /\ D = 1..(Len(t) + Len(v))
        /\ \A i \in DOMAIN t : i \in D /\ all[i] = t[i]
        /\ \A i \in DOMAIN v : Len(t) + i \in D /\ all[Len(t) + i] = v[i]
        /\ \A i \in D : (i \in DOMAIN t /\ all[i] = t[i]) \/ (i - Len(t) \in DOMAIN v /\ all[i] = v[i - Len(t)])
    BY <1>2
  <1>4. keys = [i \in D |-> all[i].id]
    BY DEF IdsOf
  <1> HIDE DEF all, keys
  <1>5. found = {all[i].id : i \in D}
    BY <1>3 DEF Ids
  <1>6. D \in SUBSET Nat /\ IsFiniteSet(D) /\ 0 \notin D
    BY <1>3, PositionsFinite
  <1>7. /\ U \subseteq D /\ \A i, j \in U : keys[i] = keys[j] => i = j
        /\ \A i \in D : \E j \in U : keys[j] = keys[i] /\ j <= i
    BY <1>6, UnseenFacts
  <1>8. DOMAIN t \subseteq U
    <2>1. ASSUME NEW i \in DOMAIN t, NEW j \in D, j < i PROVE keys[j] # keys[i]
      <3>1. j \in DOMAIN t /\ j # i /\ i \in D
        BY <1>2, <1>3, <2>1
      <3>2. keys[j] = t[j].id /\ keys[i] = t[i].id
        BY <1>3, <1>4, <3>1
      <3>3. QED
        BY <1>2, <3>1, <3>2 DEF DistinctIds
    <2> HIDE DEF D
    <2>2. QED
      BY <1>3, <2>1 DEF Unseen
  <1> HIDE DEF U, D
  <1>9. U \in SUBSET Nat /\ IsFiniteSet(U) /\ 0 \notin U
    BY <1>6, <1>7, FS_Subset
  <1>10. /\ p \in Seq(RowSet) /\ Len(p) = Cardinality(U) /\ DOMAIN p = 1..Len(p) /\ Len(p) \in Nat
         /\ \A i \in U : Place(U, i) \in DOMAIN p /\ p[Place(U, i)] = all[i]
         /\ \A n \in DOMAIN p : \E i \in U : Place(U, i) = n /\ p[n] = all[i]
    <2>1. U \in SUBSET DOMAIN all
      BY <1>7 DEF D
    <2>2. p \in Seq(RowSet)
      BY <1>3, <2>1, Selected
    <2>3. QED
      BY <1>3, <2>1, <2>2, Selected
  <1> HIDE DEF p
  <1>11. \A i \in DOMAIN t : i \in DOMAIN p /\ p[i] = t[i]
    <2>1. \A i \in 1..Len(t) : Place(U, i) = i
      BY <1>2, <1>8, <1>9, FirstPlaces
    <2>2. QED
      BY <1>2, <1>3, <1>8, <1>10, <2>1
  <1>a. \A i \in D : keys[i] = all[i].id
    BY <1>4 DEF D
  <1>12. DistinctIds(p)
    <2>1. ASSUME NEW n \in DOMAIN p, NEW k \in DOMAIN p, p[n].id = p[k].id PROVE n = k
      <3>1. PICK i \in U : Place(U, i) = n /\ p[n] = all[i]
        BY <1>10
      <3>2. PICK j \in U : Place(U, j) = k /\ p[k] = all[j]
        BY <1>10
      <3>3. keys[i] = keys[j]
        BY <1>7, <1>a, <2>1, <3>1, <3>2
      <3>4. QED
        BY <1>7, <3>1, <3>2, <3>3
    <2>2. QED
      BY <2>1 DEF DistinctIds
  <1>13. Ids(p) = found
    <2>1. ASSUME NEW n \in DOMAIN p PROVE p[n].id \in found
      BY <1>5, <1>7, <1>10
    <2>2. ASSUME NEW i \in D PROVE \E n \in DOMAIN p : p[n].id = all[i].id
      <3>1. PICK j \in U : keys[j] = keys[i]
        BY <1>7
      <3>2. all[j].id = all[i].id
        BY <1>7, <1>a, <3>1
      <3>3. QED
        BY <1>10, <3>2
    <2> HIDE DEF found
    <2>3. QED
      BY <1>5, <2>1, <2>2 DEF Ids
  <1>14. Len(p) = Cardinality(found)
    BY <1>10, <1>12, <1>13, CountIds
  <1>15. /\ m \in Seq(RowSet) /\ Len(m) = IF Len(p) < ResultLimit THEN Len(p) ELSE ResultLimit
         /\ DOMAIN m \subseteq DOMAIN p /\ \A i \in DOMAIN m : m[i] = p[i]
         /\ \A i \in DOMAIN p : i <= ResultLimit => i \in DOMAIN m
    BY <1>10, Constants, CutFacts
  <1> HIDE DEF m
  <1>16. \A i \in DOMAIN t : i \in DOMAIN m /\ m[i] = t[i]
    BY <1>2, <1>11, <1>15, Constants
  <1>17. ListOK(m)
    BY <1>10, <1>12, <1>15, Constants DEF ListOK, DistinctIds
  <1>18. Len(t) <= Len(m)
    <2>1. CASE Len(t) = 0
      BY <1>15, <2>1
    <2>2. CASE Len(t) # 0
      <3>1. Len(t) \in DOMAIN m /\ DOMAIN m = 1..Len(m)
        BY <1>2, <1>15, <1>16, <2>2
      <3>2. QED
        BY <3>1
    <2>3. QED
      BY <2>1, <2>2
  <1>19. IsPrefix(t, m)
    BY <1>2, <1>15, <1>16, <1>18, PrefixFacts
  <1>20. Ids(m) \subseteq found
    BY <1>13, <1>15 DEF Ids
  <1>21. QED
    BY <1>1, <1>14, <1>15, <1>16, <1>17, <1>19, <1>20

-----------------------------------------------------------------------------
(* Keywords *)

\* Each of these words is among the keywords, in some case.
Covers(keywords, words) ==
  \A i \in DOMAIN words : \E j \in DOMAIN keywords : Lower[keywords[j]] = Lower[words[i]]

LEMMA CoversHas ==
  ASSUME NEW keywords, NEW words, Covers(keywords, words), NEW row, Has(row, words)
  PROVE  Has(row, keywords)
  BY DEF Covers, Has

\* A word is kept no later than at its own position, unless it is short.
LEMMA Appended ==
  ASSUME NEW words \in Seq(Words)
  PROVE  LET r == AppendKeywords(words) IN
         /\ r \in Seq(Words) /\ \A n \in DOMAIN r : r[n] \notin Short
         /\ \A i \in DOMAIN words : words[i] \notin Short =>
              \E n \in DOMAIN r : n <= i /\ Lower[r[n]] = Lower[words[i]]
  <1> DEFINE keys == LowerOf(words)
             W == {i \in DOMAIN words : words[i] \notin Short}
             U == Unseen(keys, W)
             r == Select(words, U)
  <1>1. AppendKeywords(words) = r
    BY DEF AppendKeywords
  <1>2. keys = [i \in DOMAIN words |-> Lower[words[i]]]
    BY DEF LowerOf
  <1>3. W \in SUBSET DOMAIN words
    OBVIOUS
  <1>4. W \in SUBSET Nat /\ IsFiniteSet(W) /\ 0 \notin W
    <2>1. 0 \notin DOMAIN words
      OBVIOUS
    <2>2. QED
      BY <1>3, <2>1, PositionsFinite
  <1> HIDE DEF keys
  <1>5. U \subseteq W /\ \A i \in W : \E j \in U : keys[j] = keys[i] /\ j <= i
    BY <1>4, UnseenFacts
  <1> HIDE DEF U
  <1>6. U \in SUBSET DOMAIN words /\ U \in SUBSET Nat /\ IsFiniteSet(U) /\ 0 \notin U
    BY <1>3, <1>4, <1>5, FS_Subset
  <1>7. /\ r \in Seq(Words)
        /\ \A i \in U : Place(U, i) \in DOMAIN r /\ r[Place(U, i)] = words[i]
        /\ \A n \in DOMAIN r : \E i \in U : Place(U, i) = n /\ r[n] = words[i]
    BY <1>6, Selected
  <1> HIDE DEF r
  <1>8. \A n \in DOMAIN r : r[n] \notin Short
    BY <1>5, <1>7
  <1>9. ASSUME NEW i \in W PROVE \E n \in DOMAIN r : n <= i /\ Lower[r[n]] = Lower[words[i]]
    <2>1. PICK j \in U : keys[j] = keys[i] /\ j <= i
      BY <1>5
    <2>2. Place(U, j) <= j /\ Place(U, j) \in Nat
      BY <1>6, PlaceAtMost
    <2>3. Place(U, j) <= i
      BY <1>4, <1>6, <2>1, <2>2
    <2>4. Lower[words[j]] = Lower[words[i]]
      BY <1>2, <1>3, <1>6, <2>1
    <2>5. QED
      BY <1>7, <2>3, <2>4
  <1>10. QED
    BY <1>1, <1>7, <1>8, <1>9

\* extractKeywords
LEMMA ExtractFacts ==
  ASSUME NEW q \in DOMAIN Questions
  PROVE  ExtractKeywords(q) \in Seq(Words) /\ \A n \in DOMAIN ExtractKeywords(q) : ExtractKeywords(q)[n] \notin Short
  <1> DEFINE r == AppendKeywords(FoundIn(q))
  <1>1. r \in Seq(Words) /\ \A n \in DOMAIN r : r[n] \notin Short
    BY WordsAssumption, Appended
  <1> HIDE DEF r
  <1> DEFINE e == Cut(r, KeywordLimit)
  <1>2. e \in Seq(Words) /\ DOMAIN e \subseteq DOMAIN r /\ \A n \in DOMAIN e : e[n] = r[n]
    BY <1>1, Constants, CutFacts
  <1> HIDE DEF e
  <1>3. ExtractKeywords(q) = e
    BY DEF ExtractKeywords, e, r
  <1>4. QED
    BY <1>1, <1>2, <1>3

LEMMA ExpansionFacts ==
  ASSUME NEW more \in ExpandSearchKeywords
  PROVE  more \in Seq(Words) /\ Len(more) <= ModelLimit
  <1>1. PICK list \in Expansions : more = ParseExpansion(list)
    BY DEF ExpandSearchKeywords
  <1> DEFINE U == Unseen(LowerOf(list), DOMAIN list)
             r == Select(list, U)
  <1>2. list \in Seq(Words)
    BY WordsAssumption
  <1>3. U \in SUBSET DOMAIN list
    BY DEF Unseen
  <1> HIDE DEF U
  <1>4. r \in Seq(Words)
    BY <1>2, <1>3, Selected
  <1>5. more = Cut(r, ModelLimit)
    BY <1>1 DEF ParseExpansion, U
  <1> HIDE DEF r
  <1>6. Cut(r, ModelLimit) \in Seq(Words) /\ Len(Cut(r, ModelLimit)) = IF Len(r) < ModelLimit THEN Len(r) ELSE ModelLimit
    BY <1>4, Constants, CutFacts
  <1>7. Len(r) \in Nat
    BY <1>4
  <1>8. QED
    BY <1>5, <1>6, <1>7, Constants

\* The keywords of q that the model's cannot crowd out.
Own(q) == Cut(ExtractKeywords(q), MergeLimit - ModelLimit)

LEMMA OwnFacts ==
  ASSUME NEW q \in DOMAIN Questions, NEW i \in DOMAIN Own(q)
  PROVE  /\ i \in DOMAIN ExtractKeywords(q) /\ Own(q)[i] = ExtractKeywords(q)[i]
         /\ i <= MergeLimit - ModelLimit
  <1> DEFINE e == ExtractKeywords(q)
             n == MergeLimit - ModelLimit
  <1>1. e \in Seq(Words) /\ n \in Int /\ Own(q) = Cut(e, n)
    BY ExtractFacts, Constants DEF Own
  <1> HIDE DEF e, n
  <1>2. CASE Len(e) > n
    BY <1>1, <1>2 DEF Cut, e, n
  <1>3. CASE ~(Len(e) > n)
    BY <1>1, <1>3 DEF Cut, e, n
  <1>4. QED
    BY <1>2, <1>3


\* The question's own keywords stay on the list, up to their case.
LEMMA OwnCovered ==
  ASSUME NEW q \in DOMAIN Questions, NEW more \in ExpandSearchKeywords
  PROVE  /\ Covers(ExtractKeywords(q), Own(q))
         /\ Covers(MergeKeywords(more, ExtractKeywords(q)), Own(q))
  <1> DEFINE e == ExtractKeywords(q)
             all == more \o e
             r == AppendKeywords(all)
             k == Cut(r, MergeLimit)
  <1>1. e \in Seq(Words) /\ \A n \in DOMAIN e : e[n] \notin Short
    BY ExtractFacts
  <1>2. more \in Seq(Words) /\ Len(more) <= ModelLimit /\ Len(more) \in Nat
    BY ExpansionFacts
  <1>3. \A i \in DOMAIN Own(q) : i \in DOMAIN e /\ Own(q)[i] = e[i] /\ i <= MergeLimit - ModelLimit
    BY OwnFacts
  <1>4. Covers(e, Own(q))
    BY <1>3 DEF Covers
  <1>5. MergeKeywords(more, e) = k
    BY DEF MergeKeywords
  <1> HIDE DEF e
  <1>6. all \in Seq(Words) /\ \A i \in DOMAIN e : Len(more) + i \in DOMAIN all /\ all[Len(more) + i] = e[i]
    BY <1>1, <1>2
  <1> HIDE DEF all
  <1>7. /\ r \in Seq(Words)
        /\ \A i \in DOMAIN all : all[i] \notin Short =>
             \E n \in DOMAIN r : n <= i /\ Lower[r[n]] = Lower[all[i]]
    BY <1>6, Appended
  <1> HIDE DEF r
  <1>8. \A i \in DOMAIN r : i <= MergeLimit => i \in DOMAIN k /\ k[i] = r[i]
    BY <1>7, Constants, CutFacts
  <1> HIDE DEF k
  <1>9. ASSUME NEW i \in DOMAIN Own(q) PROVE \E j \in DOMAIN k : Lower[k[j]] = Lower[Own(q)[i]]
    <2>1. i \in DOMAIN e /\ i \in Nat /\ Own(q)[i] = e[i] /\ i <= MergeLimit - ModelLimit
      BY <1>1, <1>3
    <2>2. all[Len(more) + i] = e[i] /\ Len(more) + i \in DOMAIN all /\ e[i] \notin Short
      BY <1>1, <1>6, <2>1
    <2>3. PICK n \in DOMAIN r : n <= Len(more) + i /\ Lower[r[n]] = Lower[all[Len(more) + i]]
      BY <1>7, <2>2
    <2>4. n \in Nat /\ Len(more) + i <= MergeLimit
      BY <1>2, <1>7, <2>1, Constants
    <2>5. n <= MergeLimit
      BY <1>2, <2>1, <2>3, <2>4, Constants
    <2>6. QED
      BY <1>8, <2>1, <2>2, <2>3, <2>5
  <1>10. QED
    BY <1>4, <1>5, <1>9 DEF Covers, e

LEMMA OwnOfLocal ==
  ASSUME NEW q \in DOMAIN Questions
  PROVE  Covers(ExtractKeywords(q), Own(q))
  BY OwnFacts DEF Covers

LEMMA MergeKeywordsType ==
  ASSUME NEW q \in DOMAIN Questions, NEW more \in ExpandSearchKeywords
  PROVE  MergeKeywords(more, ExtractKeywords(q)) \in Seq(Words)
  <1> DEFINE all == more \o ExtractKeywords(q)
             r == AppendKeywords(all)
  <1>1. all \in Seq(Words)
    BY ExpansionFacts, ExtractFacts
  <1> HIDE DEF all
  <1>2. r \in Seq(Words)
    BY <1>1, Appended
  <1> HIDE DEF r
  <1>3. Cut(r, MergeLimit) \in Seq(Words)
    BY <1>2, Constants, CutFacts
  <1>4. QED
    BY <1>3 DEF MergeKeywords, r, all

-----------------------------------------------------------------------------
(* The inductive invariant *)

IndexOK == index \in Seq(RowSet) /\ DistinctIds(index)

Steps == {"idle", "keywords", "embed", "vector", "text", "recent", "decide", "web", "answer",
          "log", "log failure", "answered", "failed"}

Results == {"decide", "web", "answer", "log", "log failure", "answered"}

Asks ==
  [pc : Steps, question : DOMAIN Questions \cup {NoAsk.question}, keywords : Seq(Words),
   vector : Seq(RowSet), text : Seq(RowSet), sources : Seq(RowSet), found : SUBSET RowSet,
   steady : SUBSET Chunks]

\* A row that nobody has written since the question came, and that has one of
\* its own keywords.
OwnRow(a, row) == row.id \in a.steady /\ Has(row, Own(a.question))

\* It was found, and has a place unless others have them all.
OwnFound(a) ==
  \A row \in Rows : OwnRow(a, row) =>
    row \in a.found /\ (row \in ToSet(a.sources) \/ Len(a.text) = ResultLimit)

\* What the searches returned, and how it was put together.
ResultsOK(a) ==
  /\ ListOK(a.text)
  /\ a.sources = IF useEmbeddings THEN MergeChunks(a.text, a.vector) ELSE a.text

\* The question a is at a step, with what the steps before it have found.
AskOK(a) ==
  /\ a.pc \notin {"idle", "failed"} =>
       /\ a.question \in DOMAIN Questions
       /\ ListOK(a.vector) /\ (~useEmbeddings => a.vector = << >>)
  /\ a.pc \in {"embed", "vector"} => useEmbeddings
  /\ a.pc \notin {"idle", "keywords", "failed"} => Covers(a.keywords, Own(a.question))
  /\ a.pc = "recent" => \A row \in Rows : ~OwnRow(a, row)
  /\ a.pc \in Results => ResultsOK(a) /\ OwnFound(a)

Entries == [status : {"answered", "failed"}, sources : Seq(RowSet)]

Logged ==
  /\ logs \in Seq(Entries)
  /\ AskAt("answered") => [status |-> "answered", sources |-> ask.sources] \in ToSet(logs)

AskInv == IndexOK /\ ask \in Asks /\ AskOK(ask) /\ Logged

-----------------------------------------------------------------------------
(* What the searches return *)

LEMMA EmptyList == ListOK(<< >>) /\ << >> \in Seq(RowSet) /\ << >> \in Seq(Words)
  BY Constants DEF ListOK, DistinctIds

LEMMA RowsFacts ==
  ASSUME IndexOK
  PROVE  /\ Rows \subseteq RowSet /\ IsFiniteSet(Rows)
         /\ \A x, y \in Rows : x.id = y.id => x = y
  <1> DEFINE D == DOMAIN index
             l == Len(index)
             f == [i \in D |-> index[i]]
  <1>1. Rows = {index[i] : i \in D}
    BY DEF Rows, ToSet
  <1>2. l \in Nat /\ D = 1..l
    BY DEF IndexOK
  <1> HIDE DEF l
  <1>3. IsFiniteSet(D)
    <2>1. IsFiniteSet(1..l)
      BY <1>2, FS_Interval
    <2>2. QED
      BY <1>2, <2>1
  <1>4. f \in Surjection(D, Rows)
    BY <1>1 DEF Surjection
  <1>5. IsFiniteSet(Rows)
    <2> HIDE DEF D, f
    <2>1. QED
      BY <1>3, <1>4, FS_Surjection
  <1>6. QED
    BY <1>1, <1>5 DEF IndexOK, DistinctIds

LEMMA RankingsFacts ==
  ASSUME IndexOK, NEW hits \in SUBSET Rows, NEW s \in Rankings(hits)
  PROVE  ListOK(s) /\ \A row \in hits : row \in ToSet(s) \/ Len(s) = ResultLimit
  <1> DEFINE c == Cardinality(hits)
             n == IF c < ResultLimit THEN c ELSE ResultLimit
  <1>1. IsFiniteSet(hits) /\ c \in Nat /\ c = Cardinality(hits)
    BY RowsFacts, FS_Subset, FS_CardinalityType
  <1>2. s \in [1..n -> hits] /\ IsInjective(s)
    BY DEF Rankings
  <1> HIDE DEF c
  <1>3. n \in Nat /\ n <= ResultLimit /\ (n = ResultLimit \/ n = c)
    BY <1>1, Constants
  <1> HIDE DEF n
  <1>4. hits \subseteq RowSet /\ \A x, y \in hits : x.id = y.id => x = y
    BY RowsFacts
  <1>5. s \in Seq(RowSet) /\ Len(s) = n /\ DOMAIN s = 1..n
    BY <1>2, <1>3, <1>4
  <1>6. DistinctIds(s)
    BY <1>2, <1>4, <1>5 DEF DistinctIds, IsInjective
  <1>7. CASE n = ResultLimit
    BY <1>3, <1>5, <1>6, <1>7 DEF ListOK
  <1>8. CASE n = c
    <2>1. IsFiniteSet(1..n) /\ Cardinality(1..n) = n
      BY <1>3, FS_Interval
    <2>2. s \in Injection(1..n, hits)
      BY <1>2 DEF Injection
    <2>3. s \in Surjection(1..n, hits)
      BY <1>1, <1>8, <2>1, <2>2, FS_Injection
    <2>4. \A row \in hits : row \in ToSet(s)
      BY <1>5, <2>3 DEF Surjection, ToSet
    <2>5. QED
      BY <1>3, <1>5, <1>6, <2>4 DEF ListOK
  <1>9. QED
    BY <1>3, <1>7, <1>8

LEMMA NearestFacts ==
  ASSUME IndexOK, NEW q, NEW s \in Nearest(q)
  PROVE  ListOK(s)
  <1> DEFINE hits == {row \in Rows : row.embedded}
  <1>1. s \in Rankings(hits) /\ hits \in SUBSET Rows
    BY DEF Nearest
  <1> HIDE DEF hits
  <1>2. QED
    BY <1>1, RankingsFacts

LEMMA RecentFacts ==
  ASSUME IndexOK
  PROVE  ListOK(Recent)
  <1> DEFINE r == Reverse(index)
             m == Cut(r, ResultLimit)
             l == Len(index)
  <1>1. l \in Nat /\ DOMAIN index = 1..l /\ index \in Seq(RowSet) /\ DistinctIds(index)
    BY DEF IndexOK
  <1>2. r = [i \in 1..l |-> index[(l - i) + 1]]
    BY DEF Reverse
  <1> HIDE DEF l
  <1>3. r \in Seq(RowSet) /\ Len(r) = l /\ DOMAIN r = 1..l
    <2>1. \A i \in 1..l : index[(l - i) + 1] \in RowSet
      BY <1>1
    <2>2. r \in [1..l -> RowSet]
      BY <1>2, <2>1
    <2> HIDE DEF r
    <2>3. QED
      BY <1>1, <2>2
  <1>4. DistinctIds(r)
    BY <1>1, <1>2, <1>3 DEF DistinctIds
  <1> HIDE DEF r
  <1>5. /\ m \in Seq(RowSet) /\ Len(m) = IF Len(r) < ResultLimit THEN Len(r) ELSE ResultLimit
        /\ DOMAIN m \subseteq DOMAIN r /\ \A i \in DOMAIN m : m[i] = r[i]
    BY <1>3, Constants, CutFacts
  <1> HIDE DEF m
  <1>6. ListOK(m)
    BY <1>1, <1>3, <1>4, <1>5, Constants DEF ListOK, DistinctIds
  <1>7. QED
    BY <1>6 DEF Recent, m, r

\* What is put together is a list again, and starts with what the text search found.
LEMMA RetrievedFacts ==
  ASSUME NEW a, ListOK(a.vector), ResultsOK(a)
  PROVE  ListOK(a.sources) /\ \A i \in DOMAIN a.text : i \in DOMAIN a.sources /\ a.sources[i] = a.text[i]
  <1> DEFINE t == a.text
             v == a.vector
             m == MergeChunks(t, v)
  <1>1. CASE useEmbeddings
    <2>1. ListOK(t) /\ ListOK(v) /\ a.sources = m
      BY <1>1 DEF ResultsOK
    <2> HIDE DEF t, v
    <2>2. ListOK(m) /\ \A i \in DOMAIN t : i \in DOMAIN m /\ m[i] = t[i]
      BY <2>1, MergeFacts
    <2> HIDE DEF m
    <2>3. QED
      BY <2>1, <2>2 DEF t
  <1>2. CASE ~useEmbeddings
    BY <1>2 DEF ResultsOK
  <1>3. QED
    BY <1>1, <1>2

-----------------------------------------------------------------------------
(* The properties, of a state *)

LEMMA InvFound == AskInv => OwnKeywordFound
  <1>1. \A row : OwnRow(ask, row) <=> row.id \in ask.steady /\ Has(row, OwnKeywords)
    BY Zenon DEF OwnKeywords, OwnRow, Own
  <1> SUFFICES ASSUME AskInv, Searched
               PROVE  OwnFound(ask)
    BY <1>1, Zenon DEF OwnKeywordFound, OwnFound
  <1>2. ask.pc \in Results
    BY DEF Searched, Results
  <1>3. QED
    BY <1>2 DEF AskInv, AskOK

LEMMA InvBacked == AskInv => AnswerIsBacked
  <1> SUFFICES ASSUME AskInv, AskAt("answered") PROVE AnswerIsBacked
    BY DEF AnswerIsBacked
  <1> DEFINE t == ask.text
             v == ask.vector
             s == ask.sources
             found == Ids(t) \cup Ids(v)
  <1>1. /\ ListOK(t) /\ ListOK(v) /\ (~useEmbeddings => v = << >>)
        /\ s = IF useEmbeddings THEN MergeChunks(t, v) ELSE t
    BY DEF AskInv, AskOK, ResultsOK, AskAt, Results
  <1>2. [status |-> "answered", sources |-> ask.sources] \in ToSet(logs)
    BY DEF AskInv, Logged
  <1> HIDE DEF t, v, s, found
  <1>3. /\ ListOK(s) /\ IsPrefix(t, s) /\ Ids(s) \subseteq found
        /\ Len(s) = IF Cardinality(found) < ResultLimit THEN Cardinality(found) ELSE ResultLimit
    <2>1. CASE useEmbeddings
      BY <1>1, <2>1, MergeFacts DEF found
    <2>2. CASE ~useEmbeddings
      <3>1. s = t /\ found = Ids(t)
        BY <1>1, <2>2 DEF found, Ids
      <3>2. Cardinality(Ids(t)) = Len(t) /\ Len(t) \in Nat /\ Len(t) <= ResultLimit /\ t \in Seq(RowSet)
        BY <1>1, CountIds DEF ListOK
      <3>3. IsPrefix(t, t)
        BY <3>2 DEF IsPrefix
      <3>4. QED
        BY <1>1, <3>1, <3>2, <3>3, Constants
    <2>3. QED
      BY <2>1, <2>2
  <1>4. Cardinality(Ids(s)) = Len(s)
    BY <1>3, CountIds DEF ListOK
  <1>5. QED
    BY <1>2, <1>3, <1>4 DEF AnswerIsBacked, t, v, s, found


-----------------------------------------------------------------------------
(* Every step *)

\* The question goes on to a, over the same index.
LEMMA GoesTo ==
  ASSUME AskInv, NEW a \in Asks, AskOK(a), ask' = a, UNCHANGED <<useEmbeddings, index>>, Logged'
  PROVE  AskInv'
  <1>1. IndexOK'
    BY DEF AskInv, IndexOK
  <1>2. Rows' = Rows
    BY DEF Rows
  <1>3. ResultsOK(a)' = ResultsOK(a)
    BY DEF ResultsOK
  <1>4. AskOK(a)' = AskOK(a)
    BY <1>2, <1>3 DEF AskOK, OwnFound, OwnRow
  <1>5. AskOK(ask)'
    BY <1>4, Zenon DEF AskOK, OwnFound, OwnRow, ResultsOK, Rows
  <1>6. QED
    BY <1>1, <1>5 DEF AskInv

\* A field of the question takes another value.
LEMMA MovePc ==
  ASSUME NEW a \in Asks, NEW p \in Steps
  PROVE  LET b == [a EXCEPT !.pc = p] IN
         /\ b \in Asks /\ b.pc = p /\ b.question = a.question /\ b.keywords = a.keywords
         /\ b.vector = a.vector /\ b.text = a.text /\ b.sources = a.sources /\ b.found = a.found
         /\ b.steady = a.steady
  BY DEF Asks

LEMMA SetQuestion ==
  ASSUME NEW a \in Asks, NEW q \in DOMAIN Questions
  PROVE  LET b == [a EXCEPT !.question = q] IN
         /\ b \in Asks /\ b.pc = a.pc /\ b.question = q /\ b.keywords = a.keywords
         /\ b.vector = a.vector /\ b.text = a.text /\ b.sources = a.sources /\ b.found = a.found
         /\ b.steady = a.steady
  BY DEF Asks

LEMMA SetKeywords ==
  ASSUME NEW a \in Asks, NEW k \in Seq(Words)
  PROVE  LET b == [a EXCEPT !.keywords = k] IN
         /\ b \in Asks /\ b.pc = a.pc /\ b.question = a.question /\ b.keywords = k
         /\ b.vector = a.vector /\ b.text = a.text /\ b.sources = a.sources /\ b.found = a.found
         /\ b.steady = a.steady
  BY DEF Asks

LEMMA SetVector ==
  ASSUME NEW a \in Asks, NEW v \in Seq(RowSet)
  PROVE  LET b == [a EXCEPT !.vector = v] IN
         /\ b \in Asks /\ b.pc = a.pc /\ b.question = a.question /\ b.keywords = a.keywords
         /\ b.vector = v /\ b.text = a.text /\ b.sources = a.sources /\ b.found = a.found
         /\ b.steady = a.steady
  BY DEF Asks

LEMMA SetTextFound ==
  ASSUME NEW a \in Asks, NEW t \in Seq(RowSet)
  PROVE  LET b == [a EXCEPT !.text = t] IN
         /\ b \in Asks /\ b.pc = a.pc /\ b.question = a.question /\ b.keywords = a.keywords
         /\ b.vector = a.vector /\ b.text = t /\ b.sources = a.sources /\ b.found = a.found
         /\ b.steady = a.steady
  BY DEF Asks

LEMMA SetSources ==
  ASSUME NEW a \in Asks, NEW s \in Seq(RowSet)
  PROVE  LET b == [a EXCEPT !.sources = s] IN
         /\ b \in Asks /\ b.pc = a.pc /\ b.question = a.question /\ b.keywords = a.keywords
         /\ b.vector = a.vector /\ b.text = a.text /\ b.sources = s /\ b.found = a.found
         /\ b.steady = a.steady
  BY DEF Asks

LEMMA SetFound ==
  ASSUME NEW a \in Asks, NEW f \in SUBSET RowSet
  PROVE  LET b == [a EXCEPT !.found = f] IN
         /\ b \in Asks /\ b.pc = a.pc /\ b.question = a.question /\ b.keywords = a.keywords
         /\ b.vector = a.vector /\ b.text = a.text /\ b.sources = a.sources /\ b.found = f
         /\ b.steady = a.steady
  BY DEF Asks

LEMMA SetSteady ==
  ASSUME NEW a \in Asks, NEW c \in SUBSET Chunks
  PROVE  LET b == [a EXCEPT !.steady = c] IN
         /\ b \in Asks /\ b.pc = a.pc /\ b.question = a.question /\ b.keywords = a.keywords
         /\ b.vector = a.vector /\ b.text = a.text /\ b.sources = a.sources /\ b.found = a.found
         /\ b.steady = c
  BY DEF Asks

LEMMA NoAskOK == NoAsk \in Asks /\ NoAsk.pc = "idle" /\ NoAsk.vector = << >> /\ AskOK(NoAsk)
  <1>1. << >> \in Seq(RowSet) /\ << >> \in Seq(Words)
    BY EmptyList
  <1> DEFINE q == CHOOSE x \in DOMAIN Questions : TRUE
  <1>2. NoAsk = [pc |-> "idle", question |-> q, keywords |-> << >>, vector |-> << >>,
                 text |-> << >>, sources |-> << >>, found |-> {}, steady |-> {}]
    BY DEF NoAsk
  <1> HIDE DEF q
  <1>3. NoAsk.pc = "idle" /\ NoAsk.vector = << >> /\ NoAsk.question = q
    BY <1>2
  <1>4. NoAsk \in Asks
    BY <1>1, <1>2, <1>3 DEF Asks, Steps
  <1>5. AskOK(NoAsk)
    BY <1>3 DEF AskOK, Results
  <1>6. QED
    BY <1>3, <1>4, <1>5

LEMMA BeginKeeps ==
  ASSUME AskInv, NEW q \in DOMAIN Questions, Begin(q)
  PROVE  AskInv'
  <1> DEFINE ids == {row.id : row \in Rows}
             a == [NoAsk EXCEPT !.pc = "keywords"]
             b == [a EXCEPT !.question = q]
             c == [b EXCEPT !.steady = ids]
  <1>1. ask' = c /\ UNCHANGED <<useEmbeddings, index, logs>>
    BY DEF Begin
  <1>2. ids \in SUBSET Chunks
    BY RowsFacts DEF AskInv, RowSet
  <1> HIDE DEF ids
  <1>3. a \in Asks /\ a.pc = "keywords" /\ a.vector = << >>
    BY NoAskOK, MovePc DEF Steps
  <1> HIDE DEF a
  <1>4. b \in Asks /\ b.pc = "keywords" /\ b.vector = << >> /\ b.question = q
    BY <1>3, SetQuestion
  <1> HIDE DEF b
  <1>5. c \in Asks /\ c.pc = "keywords" /\ c.vector = << >> /\ c.question = q
    BY <1>2, <1>4, SetSteady
  <1> HIDE DEF c
  <1>6. AskOK(c)
    BY <1>5, EmptyList DEF AskOK, Results
  <1>7. Logged'
    BY <1>1, <1>5 DEF AskInv, Logged, AskAt
  <1>8. QED
    BY <1>1, <1>5, <1>6, <1>7, GoesTo

LEMMA ExpandKeywordsKeeps ==
  ASSUME AskInv, ExpandKeywords
  PROVE  AskInv'
  <1> DEFINE q == ask.question
             next == IF useEmbeddings THEN "embed" ELSE "text"
  <1>1. PICK k \in {ExtractKeywords(q)} \cup {MergeKeywords(more, ExtractKeywords(q)) : more \in ExpandSearchKeywords} :
          ask' = [ask EXCEPT !.keywords = k, !.pc = next]
    BY DEF ExpandKeywords
  <1>2. ask.pc = "keywords" /\ UNCHANGED <<useEmbeddings, index, logs>>
    BY DEF ExpandKeywords, AskAt
  <1>3. q \in DOMAIN Questions /\ ListOK(ask.vector) /\ (~useEmbeddings => ask.vector = << >>) /\ ask \in Asks
    BY <1>2 DEF AskInv, AskOK
  <1>4. k \in Seq(Words) /\ Covers(k, Own(q))
    <2>1. CASE k = ExtractKeywords(q)
      BY <1>3, <2>1, ExtractFacts, OwnOfLocal
    <2>2. CASE \E more \in ExpandSearchKeywords : k = MergeKeywords(more, ExtractKeywords(q))
      BY <1>3, <2>2, OwnCovered, MergeKeywordsType
    <2>3. QED
      BY <1>1, <2>1, <2>2
  <1> DEFINE a == [ask EXCEPT !.keywords = k]
             b == [a EXCEPT !.pc = next]
  <1>5. ask' = b
    BY <1>1
  <1>6. next \in Steps
    BY DEF Steps
  <1>7. a \in Asks /\ a.keywords = k /\ a.question = q /\ a.vector = ask.vector
    BY <1>3, <1>4, SetKeywords
  <1> HIDE DEF a, next
  <1>8. b \in Asks /\ b.pc = next /\ b.keywords = k /\ b.question = q /\ b.vector = ask.vector
    BY <1>6, <1>7, MovePc
  <1> HIDE DEF b
  <1>9. AskOK(b)
    BY <1>3, <1>4, <1>8 DEF AskOK, Results, next
  <1>10. Logged'
    BY <1>2, <1>5, <1>8 DEF AskInv, Logged, AskAt, next
  <1>11. QED
    BY <1>2, <1>5, <1>8, <1>9, <1>10, GoesTo

\* The question moves on with what it has.
LEMMA MovesOn ==
  ASSUME AskInv, NEW p \in Steps, ask' = [ask EXCEPT !.pc = p], UNCHANGED <<useEmbeddings, index>>,
         \/ p = "failed"
         \/ ask.pc \in Results /\ p \in Results
         \/ ask.pc = "embed" /\ p = "vector",
         Logged'
  PROVE  AskInv'
  <1> DEFINE b == [ask EXCEPT !.pc = p]
  <1>1. ask \in Asks /\ AskOK(ask)
    BY DEF AskInv
  <1>2. /\ b \in Asks /\ b.pc = p /\ b.question = ask.question /\ b.keywords = ask.keywords
        /\ b.vector = ask.vector /\ b.text = ask.text /\ b.sources = ask.sources
        /\ b.found = ask.found /\ b.steady = ask.steady
    BY <1>1, MovePc
  <1> HIDE DEF b
  <1>3. OwnFound(b) = OwnFound(ask) /\ ResultsOK(b) = ResultsOK(ask)
    BY <1>2 DEF OwnFound, OwnRow, ResultsOK
  <1>4. AskOK(b)
    BY <1>1, <1>2, <1>3 DEF AskOK, Results
  <1>5. QED
    BY <1>2, <1>4, GoesTo DEF b


LEMMA LogsStay ==
  ASSUME AskInv, UNCHANGED logs, ask'.pc # "answered"
  PROVE  Logged'
  BY DEF AskInv, Logged, AskAt

LEMMA SearchByEmbeddingKeeps ==
  ASSUME AskInv, SearchByEmbedding
  PROVE  AskInv'
  <1>1. PICK hits \in Nearest(ask.question) : ask' = [ask EXCEPT !.pc = "text", !.vector = hits]
    BY DEF SearchByEmbedding
  <1>2. ask.pc = "vector" /\ UNCHANGED <<useEmbeddings, index, logs>>
    BY DEF SearchByEmbedding, AskAt
  <1>3. /\ ask \in Asks /\ useEmbeddings /\ ask.question \in DOMAIN Questions
        /\ Covers(ask.keywords, Own(ask.question))
    BY <1>2 DEF AskInv, AskOK
  <1>4. ListOK(hits) /\ hits \in Seq(RowSet)
    BY NearestFacts DEF AskInv, ListOK
  <1> DEFINE a == [ask EXCEPT !.pc = "text"]
             b == [a EXCEPT !.vector = hits]
  <1>5. ask' = b
    BY <1>1
  <1>6. a \in Asks /\ a.pc = "text" /\ a.question = ask.question /\ a.keywords = ask.keywords
    BY <1>3, MovePc DEF Steps
  <1> HIDE DEF a
  <1>7. /\ b \in Asks /\ b.pc = "text" /\ b.question = ask.question /\ b.keywords = ask.keywords
        /\ b.vector = hits
    BY <1>4, <1>6, SetVector
  <1> HIDE DEF b
  <1>8. AskOK(b)
    BY <1>3, <1>4, <1>7 DEF AskOK, Results
  <1>9. Logged'
    BY <1>2, <1>5, <1>7, LogsStay
  <1>10. QED
    BY <1>2, <1>5, <1>7, <1>8, <1>9, GoesTo

\* What is retrieved is ask.text and, with embeddings, ask.vector.
LEMMA RetrievedIs ==
  ASSUME NEW t, ListOK(t), ListOK(ask.vector)
  PROVE  /\ Retrieved(t) = (IF useEmbeddings THEN MergeChunks(t, ask.vector) ELSE t)
         /\ Retrieved(t) \in Seq(RowSet)
         /\ \A i \in DOMAIN t : i \in DOMAIN Retrieved(t) /\ Retrieved(t)[i] = t[i]
  <1> DEFINE v == ask.vector
             m == MergeChunks(t, v)
  <1>1. Retrieved(t) = IF useEmbeddings THEN m ELSE t
    BY DEF Retrieved
  <1>2. ListOK(v)
    OBVIOUS
  <1> HIDE DEF v
  <1>3. ListOK(m) /\ \A i \in DOMAIN t : i \in DOMAIN m /\ m[i] = t[i]
    BY <1>2, MergeFacts
  <1>4. m \in Seq(RowSet) /\ t \in Seq(RowSet)
    BY <1>3 DEF ListOK
  <1> HIDE DEF m
  <1>5. QED
    BY <1>1, <1>3, <1>4 DEF m, v

\* The searches are over: they found t, and nothing is missing of the question's own.
LEMMA Decides ==
  ASSUME AskInv, ask.pc \in {"text", "recent"}, UNCHANGED <<useEmbeddings, index, logs>>,
         NEW k \in Seq(Words), Covers(k, Own(ask.question)),
         NEW f \in SUBSET RowSet, NEW t, ListOK(t),
         \A row \in Rows : OwnRow(ask, row) =>
           row \in f /\ (row \in ToSet(t) \/ Len(t) = ResultLimit),
         ask' = [ask EXCEPT !.pc = "decide", !.keywords = k, !.found = f,
                            !.text = t, !.sources = Retrieved(t)]
  PROVE  AskInv'
  <1>1. /\ ask \in Asks /\ ask.question \in DOMAIN Questions /\ ListOK(ask.vector)
        /\ (~useEmbeddings => ask.vector = << >>)
    BY DEF AskInv, AskOK
  <1> DEFINE s == Retrieved(t)
             a == [ask EXCEPT !.pc = "decide"]
             b == [a EXCEPT !.keywords = k]
             g == [b EXCEPT !.found = f]
             c == [g EXCEPT !.text = t]
             d == [c EXCEPT !.sources = s]
  <1>2. /\ s = (IF useEmbeddings THEN MergeChunks(t, ask.vector) ELSE t) /\ s \in Seq(RowSet)
        /\ \A i \in DOMAIN t : i \in DOMAIN s /\ s[i] = t[i]
    BY <1>1, RetrievedIs
  <1>3. t \in Seq(RowSet)
    BY DEF ListOK
  <1>4. ask' = d
    OBVIOUS
  <1> HIDE DEF s
  <1>5. /\ a \in Asks /\ a.pc = "decide" /\ a.question = ask.question /\ a.vector = ask.vector
        /\ a.steady = ask.steady
    BY <1>1, MovePc DEF Steps
  <1> HIDE DEF a
  <1>6. /\ b \in Asks /\ b.pc = "decide" /\ b.question = ask.question /\ b.vector = ask.vector
        /\ b.steady = ask.steady /\ b.keywords = k
    BY <1>5, SetKeywords
  <1> HIDE DEF b
  <1>a. /\ g \in Asks /\ g.pc = "decide" /\ g.question = ask.question /\ g.vector = ask.vector
        /\ g.steady = ask.steady /\ g.keywords = k /\ g.found = f
    BY <1>6, SetFound
  <1> HIDE DEF g
  <1>7. /\ c \in Asks /\ c.pc = "decide" /\ c.question = ask.question /\ c.vector = ask.vector
        /\ c.steady = ask.steady /\ c.keywords = k /\ c.found = f /\ c.text = t
    BY <1>3, <1>a, SetTextFound
  <1> HIDE DEF c
  <1>8. /\ d \in Asks /\ d.pc = "decide" /\ d.question = ask.question /\ d.vector = ask.vector
        /\ d.steady = ask.steady /\ d.keywords = k /\ d.found = f /\ d.text = t /\ d.sources = s
    BY <1>2, <1>7, SetSources
  <1> HIDE DEF d
  <1>9. ResultsOK(d)
    BY <1>2, <1>8 DEF ResultsOK
  <1>10. OwnFound(d)
    <2>1. \A row : OwnRow(d, row) => OwnRow(ask, row)
      BY <1>8 DEF OwnRow
    <2>2. \A row \in ToSet(t) : row \in ToSet(s)
      BY <1>2 DEF ToSet
    <2>3. QED
      BY <1>8, <2>1, <2>2 DEF OwnFound
  <1>11. AskOK(d)
    BY <1>1, <1>8, <1>9, <1>10 DEF AskOK, Results
  <1>12. Logged'
    BY <1>4, <1>8, LogsStay
  <1>13. QED
    BY <1>4, <1>8, <1>11, <1>12, GoesTo

LEMMA SearchByTextKeeps ==
  ASSUME AskInv, SearchByText
  PROVE  AskInv'
  <1> DEFINE q == ask.question
             k == IF ask.keywords = << >> THEN ExtractKeywords(q) ELSE ask.keywords
  <1>1. ask.pc = "text" /\ UNCHANGED <<useEmbeddings, index, logs>>
    BY DEF SearchByText, AskAt
  <1>2. PICK found \in Matching(k) :
          \/ found = {} /\ ask' = [ask EXCEPT !.pc = "recent", !.keywords = k]
          \/ \E hits \in Rankings(found) :
               ask' = [ask EXCEPT !.pc = "decide", !.keywords = k, !.found = found,
                                  !.text = hits, !.sources = Retrieved(hits)]
    BY DEF SearchByText
  <1>3. /\ ask \in Asks /\ q \in DOMAIN Questions /\ ListOK(ask.vector) /\ IndexOK
        /\ (~useEmbeddings => ask.vector = << >>) /\ Covers(ask.keywords, Own(q))
    BY <1>1 DEF AskInv, AskOK
  <1>4. k \in Seq(Words) /\ Covers(k, Own(q))
    BY <1>3, ExtractFacts, OwnOfLocal DEF Asks
  <1> HIDE DEF k
  <1>5. found \in SUBSET Rows /\ found \in SUBSET RowSet
    BY <1>2, <1>3, RowsFacts DEF Matching
  <1>6. \A row \in Rows : OwnRow(ask, row) => row \in found
    BY <1>2, <1>4, CoversHas DEF OwnRow, Matching
  <1>7. CASE found = {} /\ ask' = [ask EXCEPT !.pc = "recent", !.keywords = k]
    <2> DEFINE a == [ask EXCEPT !.pc = "recent"]
               b == [a EXCEPT !.keywords = k]
    <2>1. ask' = b
      BY <1>7
    <2>2. /\ a \in Asks /\ a.pc = "recent" /\ a.question = q /\ a.vector = ask.vector
          /\ a.steady = ask.steady
      BY <1>3, MovePc DEF Steps
    <2> HIDE DEF a
    <2>3. /\ b \in Asks /\ b.pc = "recent" /\ b.question = q /\ b.vector = ask.vector
          /\ b.steady = ask.steady /\ b.keywords = k
      BY <1>4, <2>2, SetKeywords
    <2> HIDE DEF b
    <2>4. \A row \in Rows : ~OwnRow(b, row)
      BY <1>6, <1>7, <2>3 DEF OwnRow
    <2>5. AskOK(b)
      BY <1>3, <1>4, <2>3, <2>4 DEF AskOK, Results
    <2>6. Logged'
      BY <1>1, <2>1, <2>3, LogsStay
    <2>7. QED
      BY <1>1, <2>1, <2>3, <2>5, <2>6, GoesTo
  <1>8. CASE \E hits \in Rankings(found) :
               ask' = [ask EXCEPT !.pc = "decide", !.keywords = k, !.found = found,
                                  !.text = hits, !.sources = Retrieved(hits)]
    <2>1. PICK hits \in Rankings(found) :
            ask' = [ask EXCEPT !.pc = "decide", !.keywords = k, !.found = found,
                               !.text = hits, !.sources = Retrieved(hits)]
      BY <1>8
    <2>2. ListOK(hits) /\ \A row \in found : row \in ToSet(hits) \/ Len(hits) = ResultLimit
      BY <1>3, <1>5, RankingsFacts
    <2>3. \A row \in Rows : OwnRow(ask, row) =>
            row \in found /\ (row \in ToSet(hits) \/ Len(hits) = ResultLimit)
      BY <1>6, <2>2
    <2>4. QED
      BY <1>1, <1>4, <1>5, <2>1, <2>2, <2>3, Decides
  <1>9. QED
    BY <1>2, <1>7, <1>8

\* The fields that are written as they are.
LEMMA WrittenAsTheyAre ==
  ASSUME NEW a \in Asks, NEW t, NEW s
  PROVE  [a EXCEPT !.pc = "decide", !.text = t, !.sources = s]
           = [a EXCEPT !.pc = "decide", !.keywords = a.keywords, !.found = a.found,
                       !.text = t, !.sources = s]
  BY DEF Asks

LEMMA SearchRecentKeeps ==
  ASSUME AskInv, SearchRecent
  PROVE  AskInv'
  <1>1. /\ ask.pc = "recent" /\ UNCHANGED <<useEmbeddings, index, logs>>
        /\ ask' = [ask EXCEPT !.pc = "decide", !.text = Recent, !.sources = Retrieved(Recent)]
    BY DEF SearchRecent, AskAt
  <1>2. ask \in Asks /\ (\A row \in Rows : ~OwnRow(ask, row)) /\ Covers(ask.keywords, Own(ask.question)) /\ IndexOK
    BY <1>1 DEF AskInv, AskOK
  <1> DEFINE k == ask.keywords
             t == Recent
             f == ask.found
  <1>3. k \in Seq(Words) /\ f \in SUBSET RowSet
    BY <1>2 DEF Asks
  <1>4. ListOK(t)
    BY <1>2, RecentFacts
  <1>5. ask' = [ask EXCEPT !.pc = "decide", !.keywords = k, !.found = f,
                           !.text = t, !.sources = Retrieved(t)]
    BY <1>1, <1>2, WrittenAsTheyAre
  <1>6. Covers(k, Own(ask.question))
    BY <1>2
  <1> HIDE DEF k, t, f
  <1>7. QED
    BY ZenonT(60), <1>1, <1>2, <1>3, <1>4, <1>5, <1>6, Decides


\* An entry of qa_logs for the question.
LEMMA LogFacts ==
  ASSUME AskInv, NEW status \in {"answered", "failed"}, Log(status)
  PROVE  logs' \in Seq(Entries) /\ [status |-> status, sources |-> ask.sources] \in ToSet(logs')
  <1> DEFINE e == [status |-> status, sources |-> ask.sources]
  <1>1. logs \in Seq(Entries) /\ ask.sources \in Seq(RowSet)
    BY DEF AskInv, Logged, Asks
  <1>2. e \in Entries
    BY <1>1 DEF Entries
  <1>3. logs' = Append(logs, e)
    BY DEF Log
  <1> HIDE DEF e
  <1>4. QED
    BY <1>1, <1>2, <1>3, AppendSays DEF e

\* The calls of the model, and the log.
LEMMA AnsweringKeeps ==
  ASSUME AskInv,
         \/ Embed \/ RetrievalFails \/ ShouldUseWebSearch \/ AnswerFromWeb \/ GenerateAnswer
         \/ LogAnswer \/ LogAnswerFails \/ LogFailure
  PROVE  AskInv'
  <1>1. UNCHANGED <<useEmbeddings, index>> /\ ask \in Asks
    BY DEF Embed, RetrievalFails, ShouldUseWebSearch, AnswerFromWeb, GenerateAnswer, LogAnswer,
           LogAnswerFails, LogFailure, AskInv
  <1>2. ASSUME NEW p \in Steps, ask' = [ask EXCEPT !.pc = p]
        PROVE  ask'.pc = p /\ ask'.sources = ask.sources
    BY <1>1, <1>2, MovePc
  <1>3. CASE Embed
    <2>1. ask.pc = "embed" /\ ask' = [ask EXCEPT !.pc = "vector"] /\ UNCHANGED logs /\ "vector" \in Steps
      BY <1>3 DEF Embed, AskAt, Steps
    <2>2. QED
      BY <1>1, <1>2, <2>1, LogsStay, MovesOn
  <1>4. CASE RetrievalFails
    <2>1. ask' = [ask EXCEPT !.pc = "failed"] /\ UNCHANGED logs /\ "failed" \in Steps
      BY <1>4 DEF RetrievalFails, AskFails, Steps
    <2>2. QED
      BY <1>1, <1>2, <2>1, LogsStay, MovesOn
  <1>5. CASE ShouldUseWebSearch \/ AnswerFromWeb \/ GenerateAnswer
    <2>1. /\ ask.pc \in Results /\ UNCHANGED logs
          /\ \E p \in {"web", "answer", "log", "log failure"} : ask' = [ask EXCEPT !.pc = p]
      BY <1>5 DEF ShouldUseWebSearch, AnswerFromWeb, GenerateAnswer, AskAt, Results
    <2>2. PICK p \in {"web", "answer", "log", "log failure"} : ask' = [ask EXCEPT !.pc = p]
      BY <2>1
    <2>3. p \in Steps /\ p \in Results /\ p # "answered"
      BY DEF Steps, Results
    <2>4. QED
      BY <1>1, <1>2, <2>1, <2>2, <2>3, LogsStay, MovesOn
  <1>6. CASE LogAnswer
    <2>1. /\ ask.pc \in Results /\ Log("answered") /\ ask' = [ask EXCEPT !.pc = "answered"]
          /\ "answered" \in Steps /\ "answered" \in Results
      BY <1>6 DEF LogAnswer, AskAt, Results, Steps
    <2>2. logs' \in Seq(Entries) /\ [status |-> "answered", sources |-> ask.sources] \in ToSet(logs')
      BY <2>1, LogFacts
    <2>3. Logged'
      BY <1>2, <2>1, <2>2 DEF Logged
    <2>4. QED
      BY <1>1, <2>1, <2>3, MovesOn
  <1>7. CASE LogAnswerFails \/ LogFailure
    <2>1. /\ ask' = [ask EXCEPT !.pc = "failed"] /\ "failed" \in Steps
          /\ Log("answered") \/ Log("failed") \/ UNCHANGED logs
      BY <1>7 DEF LogAnswerFails, LogFailure, AskFails, Steps
    <2>2. logs' \in Seq(Entries)
      BY <2>1, LogFacts DEF AskInv, Logged
    <2>3. ask'.pc = "failed"
      BY <1>2, <2>1
    <2>4. Logged'
      BY <2>2, <2>3 DEF Logged, AskAt
    <2>5. QED
      BY <1>1, <2>1, <2>4, MovesOn
  <1>8. QED
    BY <1>3, <1>4, <1>5, <1>6, <1>7

\* A chunk is written: the others stay, and it is not steady any more.
LEMMA WriteKeeps ==
  ASSUME AskInv, NEW c \in Chunks, NEW x \in DOMAIN Texts, NEW embedded \in BOOLEAN,
         Write(c, x, embedded)
  PROVE  AskInv'
  <1> DEFINE P == {i \in DOMAIN index : index[i].id # c}
             others == Select(index, P)
             row == [id |-> c, text |-> x, embedded |-> embedded]
             rest1 == ask.steady \ {c}
             a == [ask EXCEPT !.steady = rest1]
  <1>1. /\ index' = Append(others, row) /\ UNCHANGED <<useEmbeddings, logs>>
        /\ ask' = [ask EXCEPT !.steady = @ \ {c}]
    BY DEF Write
  <1>2. index \in Seq(RowSet) /\ DistinctIds(index) /\ P \in SUBSET DOMAIN index
    BY DEF AskInv, IndexOK
  <1>3. row \in RowSet /\ row.id = c
    BY DEF RowSet
  <1>4. \A i \in P : index[i].id # c
    OBVIOUS
  <1> HIDE DEF P, row
  <1>5. others \in Seq(RowSet) /\ \A n \in DOMAIN others : \E i \in P : Place(P, i) = n /\ others[n] = index[i]
    BY <1>2, Selected
  <1> HIDE DEF others
  <1>6. /\ index' \in Seq(RowSet) /\ DOMAIN index' = 1..(Len(others) + 1) /\ Len(others) \in Nat
        /\ \A n \in DOMAIN others : index'[n] = others[n]
        /\ index'[Len(others) + 1] = row /\ DOMAIN others = 1..Len(others)
    BY <1>1, <1>3, <1>5
  <1>7. \A n \in DOMAIN index' : n \in DOMAIN others \/ n = Len(others) + 1
    BY <1>6
  <1>8. \A n \in DOMAIN others : index'[n].id # c /\ index'[n] \in Rows
    BY <1>2, <1>4, <1>5, <1>6 DEF Rows, ToSet
  <1>9. DistinctIds(index')
    <2>1. ASSUME NEW n \in DOMAIN others, NEW m \in DOMAIN others, others[n].id = others[m].id PROVE n = m
      <3>1. PICK i \in P : Place(P, i) = n /\ others[n] = index[i]
        BY <1>5
      <3>2. PICK j \in P : Place(P, j) = m /\ others[m] = index[j]
        BY <1>5
      <3>3. QED
        BY <1>2, <2>1, <3>1, <3>2 DEF DistinctIds
    <2>2. QED
      BY <1>3, <1>6, <1>7, <1>8, <2>1 DEF DistinctIds
  <1>10. IndexOK'
    BY <1>6, <1>9 DEF IndexOK
  <1>11. ask \in Asks /\ AskOK(ask) /\ rest1 \in SUBSET Chunks
    BY DEF AskInv, Asks
  <1>12. PICK b : b = a
    OBVIOUS
  <1>a. ask' = b
    BY <1>1, <1>12
  <1> HIDE DEF rest1
  <1>13. /\ b \in Asks /\ b.pc = ask.pc /\ b.question = ask.question /\ b.keywords = ask.keywords
         /\ b.vector = ask.vector /\ b.text = ask.text /\ b.sources = ask.sources
         /\ b.found = ask.found /\ b.steady = rest1
    BY <1>11, <1>12, SetSteady
  <1>14. \A x1 \in Rows' : OwnRow(b, x1) => x1 \in Rows /\ OwnRow(ask, x1)
    <2> SUFFICES ASSUME NEW x1 \in Rows', OwnRow(b, x1) PROVE x1 \in Rows /\ OwnRow(ask, x1)
      OBVIOUS
    <2>1. PICK n \in DOMAIN index' : index'[n] = x1
      BY DEF Rows, ToSet
    <2>2. n \in DOMAIN others
      BY <1>3, <1>6, <1>7, <1>13, <2>1 DEF rest1, OwnRow
    <2>3. QED
      BY <1>8, <1>13, <2>1, <2>2 DEF rest1, OwnRow
  <1>15. ResultsOK(b)' <=> ResultsOK(ask)
    BY <1>1, <1>13 DEF ResultsOK
  <1>b. ask.pc \in Results => OwnFound(b)'
    <2>1. ask.pc \in Results => OwnFound(ask)
      BY <1>11 DEF AskOK
    <2>2. QED
      BY <1>13, <1>14, <2>1 DEF OwnFound, OwnRow
  <1>c. ask.pc = "recent" => \A x1 \in Rows' : ~OwnRow(b, x1)
    BY <1>11, <1>14 DEF AskOK
  <1>16. AskOK(b)'
    BY <1>1, <1>11, <1>13, <1>15, <1>b, <1>c DEF AskOK, OwnRow, Results
  <1>17. AskOK(ask)'
    BY <1>a, <1>16, Zenon DEF AskOK, OwnFound, OwnRow, ResultsOK, Rows
  <1>18. Logged'
    BY <1>1, <1>a, <1>13 DEF AskInv, Logged, AskAt
  <1>19. QED
    BY <1>10, <1>a, <1>13, <1>17, <1>18 DEF AskInv

-----------------------------------------------------------------------------

\* A set is listed once each.
LEMMA Listed ==
  ASSUME NEW S, IsFiniteSet(S)
  PROVE  /\ SetToSeq(S) \in [1..Cardinality(S) -> S]
         /\ \A i, j \in 1..Cardinality(S) : SetToSeq(S)[i] = SetToSeq(S)[j] => i = j
  <1> DEFINE D == 1..Cardinality(S)
  <1>1. \E f \in [D -> S] : IsInjective(f)
    <2>1. ExistsBijection(D, S)
      BY FS_CardinalityType
    <2>2. QED
      BY <2>1 DEF ExistsBijection, Bijection, Injection
  <1> HIDE DEF D
  <1>2. SetToSeq(S) \in [D -> S] /\ IsInjective(SetToSeq(S))
    BY <1>1 DEF SetToSeq, D
  <1>3. QED
    BY <1>2 DEF IsInjective, D

LEMMA AskInitInv == AskInit => AskInv
  <1> SUFFICES ASSUME AskInit PROVE AskInv
    OBVIOUS
  <1>1. ask = NoAsk /\ logs = << >> /\ index \in Indexes
    BY DEF AskInit
  <1>2. PICK cs \in SUBSET Chunks, ts \in [Chunks -> DOMAIN Texts] :
          index = [i \in 1..Cardinality(cs) |->
                    [id |-> SetToSeq(cs)[i], text |-> ts[SetToSeq(cs)[i]], embedded |-> TRUE]]
    BY <1>1 DEF Indexes
  <1> DEFINE n == Cardinality(cs)
             l == SetToSeq(cs)
  <1>3. IsFiniteSet(cs) /\ n \in Nat
    BY Constants, FS_Subset, FS_CardinalityType
  <1>4. l \in [1..n -> cs] /\ \A i, j \in 1..n : l[i] = l[j] => i = j
    BY <1>3, Listed
  <1>5. index = [i \in 1..n |-> [id |-> l[i], text |-> ts[l[i]], embedded |-> TRUE]]
    BY <1>2
  <1> HIDE DEF n, l
  <1>6. \A i \in 1..n : index[i] \in RowSet /\ index[i].id = l[i]
    BY <1>4, <1>5 DEF RowSet
  <1>7. index \in Seq(RowSet) /\ DOMAIN index = 1..n
    BY <1>3, <1>5, <1>6
  <1>8. IndexOK
    BY <1>4, <1>6, <1>7 DEF IndexOK, DistinctIds
  <1>9. Logged
    BY <1>1, NoAskOK DEF Logged, AskAt
  <1>10. QED
    BY <1>1, <1>8, <1>9, NoAskOK DEF AskInv

LEMMA AskNextInv == AskInv /\ [AskNext]_askVars => AskInv'
  <1> SUFFICES ASSUME AskInv, [AskNext]_askVars PROVE AskInv'
    OBVIOUS
  <1>1. CASE AskStep
    BY <1>1, BeginKeeps, ExpandKeywordsKeeps, SearchByEmbeddingKeeps, SearchByTextKeeps,
       SearchRecentKeeps, AnsweringKeeps DEF AskStep
  <1>2. CASE \E c \in Chunks, t \in DOMAIN Texts, embedded \in BOOLEAN : Write(c, t, embedded)
    BY <1>2, WriteKeeps
  <1>3. CASE UNCHANGED askVars
    <2> DEFINE a == ask
    <2>1. a \in Asks /\ AskOK(a) /\ ask' = a /\ UNCHANGED <<useEmbeddings, index>>
      BY <1>3 DEF askVars, AskInv
    <2>2. Logged'
      BY <1>3 DEF askVars, AskInv, Logged, AskAt
    <2> HIDE DEF a
    <2>3. QED
      BY <2>1, <2>2, GoesTo
  <1>4. QED
    BY <1>1, <1>2, <1>3 DEF AskNext

(* At every step of a question the searches' results are rows of the index *)
(* as it was, each once, put together as mergeRetrievedChunks does, and    *)
(* the question's own keywords are among those searched for.               *)
THEOREM RetrievalInvariant == AskSpec => []AskInv
  BY AskInitInv, AskNextInv, PTL DEF AskSpec

(* OwnKeywordFound: a chunk with one of the question's own keywords is     *)
(* found by the text search and is a source of the answer, unless others   *)
(* that it found take all ResultLimit places, whatever the model adds and  *)
(* whatever is written meanwhile to other chunks.                          *)
THEOREM OwnKeywordsAreFound == AskSpec => []OwnKeywordFound
  BY RetrievalInvariant, InvFound, PTL

(* AnswerIsBacked: an answer is logged with its sources, no chunk twice,   *)
(* the text search's first, and as many as there is room for.              *)
THEOREM AnswersAreBacked == AskSpec => []AnswerIsBacked
  BY RetrievalInvariant, InvBacked, PTL

=============================================================================
