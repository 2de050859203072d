---------------------------- MODULE Conversation ----------------------------
(***************************************************************************)
(* One private chat with a contact, and what its messages say: the parsing *)
(* of internal/feishu/event.go, the descriptions of pictures that          *)
(* internal/media/enricher.go adds, the table messages that several        *)
(* writers share, and the question that internal/autoreply/service.go      *)
(* builds from the messages of the last minutes (buildP2PQuestion).        *)
(*                                                                         *)
(* The debounce answers one message for several in a row, and counts on    *)
(* that query to find the others.  So it matters in which order and with   *)
(* which text the poller, the history sync and the event handler write.    *)
(* The timers of the debounce are in P2PDebounce, the decisions and the    *)
(* replies in AutoReply.                                                   *)
(*                                                                         *)
(* A text is a sequence of tokens, model values: a word, a picture's key.  *)
(* The n-th message sent is known by n.  Time is a number of ticks, of     *)
(* more than a second: the second that the query adds is less than one.    *)
(***************************************************************************)
EXTENDS Naturals, FiniteSets, SequencesExt

CONSTANTS
  Chats,        \* what is tried: sequences of contents, in the order they are sent
  Nothing,      \* the empty string
  Placeholder,  \* "[图片]" and its like
  Window,       \* p2pQuestionMergeWindow
  Limit,        \* p2pQuestionMergeLimit
  Debounce,     \* p2pReplyDebounce
  Lookback,     \* of the poller
  Upserters,    \* the history sync and the event handler
  MaxTime, MaxRounds, MaxUpserts   \* bounds on time, rounds and upserts

ASSUME ConversationAssumption ==
  /\ {Window, Limit, Debounce, Lookback} \subseteq Nat \ {0}
  /\ {MaxTime, MaxRounds, MaxUpserts} \subseteq Nat
  /\ "poller" \notin Upserters

VARIABLES
  contents,  \* contents[n] = [type, parts, names] of the n-th message
  now,
  sent,      \* sent[n]: when the n-th message was sent
  rows,      \* messages: rows[n] = [text, id]
  todo,      \* the messages that the poller's round has still to save
  rounds, upserts,  \* rounds and upserts so far
  writer,    \* writer[w]: the message a writer is at
  pending,   \* the debounce's slot: [msg, text, due, group], msg = 0 if it is empty
  reply,     \* reply[n]: the reply to message n, [pc, text, group, question]
  faulty     \* messages on whose own way to an answer a call failed

vars == <<contents, now, sent, rows, todo, rounds, upserts, writer, pending, reply, faulty>>

Msgs == DOMAIN contents
Sent == 1..Len(sent)
Writers == Upserters \cup {"poller"}

-----------------------------------------------------------------------------
(* Contents.  A part of a message has a tag and says something: text, a    *)
(* name, a key.  A post has many parts, a picture and a text one, other    *)
(* types those that extractFallbackMessage looks for, in that order.       *)

\* postContentItem.Text, extractImageMessage
PartText(part) ==
  IF part.says # Nothing THEN <<part.says>>
  ELSE IF part.tag \in {"img", "media", "file"} THEN <<Placeholder>> ELSE << >>

\* mentionReplacer
ReplaceMentions(text, names) ==
  [i \in DOMAIN text |-> IF text[i] \in DOMAIN names THEN names[text[i]] ELSE text[i]]

ExtractText(content) ==
  LET texts == FlattenSeq([i \in DOMAIN content.parts |-> PartText(content.parts[i])])
      text == IF content.type = "post" \/ texts = << >> THEN texts ELSE <<texts[1]>>
  IN  ReplaceMentions(text, content.names)

\* Chats and texts are sequences.
ASSUME ContentsAssumption ==
  \A chat \in Chats :
    /\ chat \in Seq(ToSet(chat))
    /\ \A n \in DOMAIN chat :
         LET text == ExtractText(chat[n]) IN text \in Seq(ToSet(text))

ImageKeys(content) ==
  {part.says : part \in {p \in ToSet(content.parts) : p.tag = "img" /\ p.says # Nothing}}

\* What describes picture k in a text.
Description(k) == <<"described", k>>
Described(text) == {k \in UNION {ImageKeys(contents[n]) : n \in Msgs} : Description(k) \in ToSet(text)}

-----------------------------------------------------------------------------
(* Writers.  A writer parses a message, asks for a description of each     *)
(* picture, which may fail, and saves.                                     *)

NoWork == [pc |-> "idle", msg |-> 0, text |-> << >>, keys |-> {}, failed |-> {}]

At(w, label) == writer[w].pc = label

\* ParseMessageEvent, parseHistoryMessage
Parse(n) ==
  [NoWork EXCEPT !.pc = "enrich", !.msg = n, !.text = ExtractText(contents[n]),
                 !.keys = ImageKeys(contents[n])]

rest == <<contents, now, sent, rounds, upserts>>

\* describeImage of one key: DownloadMessageResource and DescribeImage
Describe(w) ==
  /\ At(w, "enrich")
  /\ \E k \in writer[w].keys :
       writer' = [writer EXCEPT ![w].keys = @ \ {k}, ![w].text = Append(@, Description(k))]
  /\ UNCHANGED <<rest, rows, todo, pending, reply, faulty>>

\* Mutant: a picture that cannot be described ends the enrichment.
GiveUp(w) ==
  /\ At(w, "enrich")
  /\ \E k \in writer[w].keys :
       writer' = [writer EXCEPT ![w].keys = {}, ![w].failed = @ \cup {k},
                                ![w].text = ExtractText(contents[writer[w].msg])]
  /\ UNCHANGED <<rest, rows, todo, pending, reply, faulty>>

\* It fails: the loop goes on with the next key.
DescribeFails(w) ==
  /\ At(w, "enrich")
  /\ \E k \in writer[w].keys :
       writer' = [writer EXCEPT ![w].keys = @ \ {k}, ![w].failed = @ \cup {k}]
  /\ UNCHANGED <<rest, rows, todo, pending, reply, faulty>>

\* The message is ready to be saved.
Ready(w) == At(w, "enrich") /\ writer[w].keys = {}

Insert(n, text) ==
  rows' = [k \in DOMAIN rows \cup {n} |->
    IF k = n THEN [text |-> text, id |-> Cardinality(DOMAIN rows) + 1] ELSE rows[k]]

-----------------------------------------------------------------------------
(* The history sync and the event handler: SaveMessage *)

UpsertStart(w, n) ==
  /\ At(w, "idle") /\ upserts < MaxUpserts
  /\ upserts' = upserts + 1
  /\ writer' = [writer EXCEPT ![w] = Parse(n)]
  /\ UNCHANGED <<contents, now, sent, rounds, rows, todo, pending, reply, faulty>>

\* The event handler has no token: it saves the text as it is.
NoToken(w) ==
  /\ At(w, "enrich") /\ writer[w].failed = {} /\ writer[w].keys = ImageKeys(contents[writer[w].msg])
  /\ writer' = [writer EXCEPT ![w].keys = {}, ![w].failed = writer[w].keys]
  /\ UNCHANGED <<rest, rows, todo, pending, reply, faulty>>

\* ON CONFLICT DO UPDATE: the row keeps its id only.
SaveMessage(w) ==
  LET n == writer[w].msg IN
  /\ Ready(w)
  /\ IF n \in DOMAIN rows THEN rows' = [rows EXCEPT ![n].text = writer[w].text]
     ELSE Insert(n, writer[w].text)
  /\ writer' = [writer EXCEPT ![w] = NoWork]
  /\ UNCHANGED <<rest, todo, pending, reply, faulty>>

SaveMessageFails(w) ==
  /\ Ready(w)
  /\ writer' = [writer EXCEPT ![w] = NoWork]
  /\ UNCHANGED <<rest, rows, todo, pending, reply, faulty>>

-----------------------------------------------------------------------------
(* The poller *)

\* A round: what ListHistoryMessages has of the last minutes.
Poll ==
  /\ At("poller", "idle") /\ todo = {} /\ rounds < MaxRounds
  /\ rounds' = rounds + 1
  /\ LET Recently(n) == now <= sent[n] + Lookback IN
     todo' = {n \in Sent : Recently(n)}
  /\ UNCHANGED <<contents, now, sent, upserts, rows, writer, pending, reply, faulty>>

\* The messages are dealt with in the order they were sent.
PollNext ==
  /\ At("poller", "idle")
  /\ \E n \in todo :
       /\ \A k \in todo : n <= k
       /\ writer' = [writer EXCEPT !["poller"] = Parse(n)]
       /\ todo' = todo \ {n}
  /\ UNCHANGED <<rest, rows, pending, reply, faulty>>

\* SaveMessageIfNew
PollSave ==
  LET n == writer["poller"].msg IN
  /\ Ready("poller")
  /\ IF n \in DOMAIN rows
       THEN writer' = [writer EXCEPT !["poller"] = NoWork] /\ UNCHANGED rows
       ELSE /\ Insert(n, writer["poller"].text)
            /\ writer' = [writer EXCEPT !["poller"].pc = "schedule"]
  /\ UNCHANGED <<rest, todo, pending, reply, faulty>>

\* It fails, perhaps after the row was written.
PollSaveFails ==
  LET n == writer["poller"].msg IN
  /\ Ready("poller")
  /\ UNCHANGED rows \/ (n \notin DOMAIN rows /\ Insert(n, writer["poller"].text))
  /\ writer' = [writer EXCEPT !["poller"] = NoWork]
  /\ faulty' = faulty \cup {n}
  /\ UNCHANGED <<rest, todo, pending, reply>>

NoSlot == [msg |-> 0, text |-> << >>, due |-> 0, group |-> {}]

\* Mutant: the message that waits is kept, and its timer reset.
KeepFirst(n, text) ==
  IF pending.msg = 0 THEN [msg |-> n, text |-> text, due |-> now + Debounce, group |-> {n}]
  ELSE [pending EXCEPT !.due = now + Debounce, !.group = @ \cup {n}]

\* The slot after message n came: it takes the place of the one that waits.
TakesPlace(n, text) ==
  [msg |-> n, text |-> text, due |-> now + Debounce, group |-> pending.group \cup {n}]

\* HandlePolledUserP2PMessage and scheduleP2PReply; nothing without a text,
\* or if the session or the log cannot be read.
Schedule ==
  LET work == writer["poller"] IN
  /\ At("poller", "schedule") /\ work.text # << >>
  /\ pending' = TakesPlace(work.msg, work.text)
  /\ writer' = [writer EXCEPT !["poller"] = NoWork]
  /\ UNCHANGED <<rest, rows, todo, reply, faulty>>

NotScheduled ==
  /\ At("poller", "schedule")
  /\ faulty' = faulty \cup {writer["poller"].msg}
  /\ writer' = [writer EXCEPT !["poller"] = NoWork]
  /\ UNCHANGED <<rest, rows, todo, pending, reply>>

-----------------------------------------------------------------------------
(* The reply *)

\* question: the texts that are asked
NoReply == [pc |-> "none", text |-> << >>, group |-> {}, question |-> {}]

\* flushP2PReply; the log cannot be read, or has a reply to this message.
Flush ==
  /\ pending.msg # 0 /\ now >= pending.due
  /\ \E pc \in {"question", "silent"} :
       reply' = [reply EXCEPT ![pending.msg] =
         [NoReply EXCEPT !.pc = pc, !.text = pending.text, !.group = pending.group]]
  /\ pending' = NoSlot
  /\ UNCHANGED <<rest, rows, todo, writer, faulty>>

\* RecentMessagesByChatSender: the oldest Limit of the messages with a text
\* that were sent in the Window before message n, or with it.  In which
\* order the question lists them is left out.
RecentMessages(n) ==
  LET recent == {k \in DOMAIN rows :
                   rows[k].text # << >> /\ sent[n] <= sent[k] + Window /\ sent[k] <= sent[n]}
      Before(j, k) == sent[j] < sent[k] \/ (sent[j] = sent[k] /\ rows[j].id < rows[k].id)
  IN  {k \in recent : Cardinality({j \in recent : Before(j, k)}) < Limit}

\* buildP2PQuestion: what those messages say, or this one if there are none.
BuildQuestion(n) ==
  /\ reply[n].pc = "question"
  /\ LET items == RecentMessages(n) IN
     reply' = [reply EXCEPT ![n].pc = "asked",
       ![n].question = IF items = {} THEN {reply[n].text} ELSE {rows[k].text : k \in items}]
  /\ UNCHANGED <<rest, rows, todo, writer, pending, faulty>>

\* The query fails: the message is asked alone.
QueryFails(n) ==
  /\ reply[n].pc = "question"
  /\ reply' = [reply EXCEPT ![n].pc = "asked", ![n].question = {reply[n].text}]
  /\ faulty' = faulty \cup {n}
  /\ UNCHANGED <<rest, rows, todo, writer, pending>>

-----------------------------------------------------------------------------
Send ==
  /\ Len(sent) < Len(contents)
  /\ sent' = Append(sent, now)
  /\ UNCHANGED <<contents, now, rounds, upserts, rows, todo, writer, pending, reply, faulty>>

Tick ==
  /\ now < MaxTime
  /\ now' = now + 1
  /\ UNCHANGED <<contents, sent, rounds, upserts, rows, todo, writer, pending, reply, faulty>>

WriterStep(w) ==
  Describe(w) \/ DescribeFails(w)

UpserterStep(w) ==
  \/ \E n \in Sent : UpsertStart(w, n)
  \/ WriterStep(w) \/ NoToken(w) \/ SaveMessage(w) \/ SaveMessageFails(w)

PollerStep ==
  Poll \/ PollNext \/ WriterStep("poller") \/ PollSave \/ PollSaveFails \/ Schedule \/ NotScheduled

Init ==
  /\ contents \in Chats
  /\ now = 0 /\ sent = << >> /\ rows = << >>
  /\ todo = {} /\ rounds = 0 /\ upserts = 0
  /\ writer = [w \in Writers |-> NoWork]
  /\ pending = NoSlot
  /\ reply = [n \in Msgs |-> NoReply]
  /\ faulty = {}

Next ==
  \/ Send \/ Tick
  \/ PollerStep
  \/ \E w \in Upserters : UpserterStep(w)
  \/ Flush
  \/ \E n \in Msgs : BuildQuestion(n) \/ QueryFails(n)

Spec == Init /\ [][Next]_vars

-----------------------------------------------------------------------------
(* Properties *)

\* The messages that were sent in the Window before message n, or with it.
Around(n) == {k \in Sent : sent[n] <= sent[k] + Window /\ sent[k] <= sent[n]}

(* A message that gave way to a later one in the debounce is not lost: the *)
(* question that is asked in the end says what it said, whichever rounds   *)
(* found the messages and whoever else wrote their rows, provided that it  *)
(* is not older than the Window and no more than Limit messages were sent  *)
(* in it.  Excused is a question whose query failed, or whose message had  *)
(* to be saved a second time and so came after younger ones.               *)
SaidIsAsked ==
  \A n \in Msgs : reply[n].pc = "asked" /\ n \notin faulty /\ Cardinality(Around(n)) <= Limit =>
    \A k \in reply[n].group : sent[n] - sent[k] <= Window =>
      ToSet(ExtractText(contents[k])) \subseteq UNION {ToSet(text) : text \in reply[n].question}

(* A picture's description, once it is in the table, is lost only to a     *)
(* writer that failed on that very picture: whichever writers run into one *)
(* another, and though another picture of the message fails.               *)
DescriptionKept ==
  [][\A n \in DOMAIN rows : \A k \in Described(rows[n].text) \ Described(rows'[n].text) :
       \E w \in Writers : writer[w].msg = n /\ k \in writer[w].failed]_vars

=============================================================================
