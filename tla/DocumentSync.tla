---------------------------- MODULE DocumentSync ----------------------------
(***************************************************************************)
(* POST /sync/documents of internal/httpapi/router.go over IndexDocument   *)
(* of internal/knowledge/service.go, added to the admin page and the       *)
(* sources: it reads the selection of documents, fetches each one's text,  *)
(* indexes it, and records the outcome in the document's row.              *)
(*                                                                         *)
(* Nothing keeps two such requests apart, nothing is in a transaction, and *)
(* the errors of the statements that record an outcome are dropped.  A     *)
(* document that got shorter keeps the chunks of the longer text.          *)
(*                                                                         *)
(* A text is a version with a number of pieces (splitContent is in         *)
(* KnowledgeIndex); a piece is known by the version it was cut from.       *)
(***************************************************************************)
EXTENDS AdminPage

CONSTANTS
  Docx,      \* the documents of type docx, the only type that is parsed
  Versions,  \* texts a document can have
  Pieces,    \* Pieces[v]: the number of pieces of v; 0 if it is blank
  NoDoc, NoVersion,
  MaxEdits   \* bound on the edits of documents

ASSUME DocumentsAssumption ==
  /\ Docx \subseteq Docs /\ NoDoc \notin Docs /\ NoVersion \notin Versions
  /\ Pieces \in [Versions -> Nat] /\ MaxEdits \in Nat

VARIABLES
  remote,   \* remote[d], d of type docx: the text at Feishu
  units,    \* units[d], d with a row in knowledge_units: its text
  chunks,   \* chunks[d, i] with a row in knowledge_chunks: the text it is a piece of
  job,      \* job[p]: the locals of the sync that page p waits for
  edits,    \* edits so far
  muddled   \* documents whose row need not be true: two syncs ran at the same
            \* time, or an outcome could not be recorded

index == <<units, chunks>>
docVars == <<remote, index, job, edits, muddled>>
allVars == <<vars, docVars>>

NoJob ==
  [pc |-> "idle",
   todo |-> {},                        \* documents still to come
   doc |-> NoDoc, text |-> NoVersion,  \* the document it is at, and what was fetched
   idx |-> 0,                          \* the piece to be written next
   failed |-> FALSE,                   \* how that document went
   alone |-> TRUE]                     \* no other sync has run since it began

Syncing(p) == job[p].pc # "idle"
JobAt(p, label) == job[p].pc = label

others == <<vars, remote, edits>>

-----------------------------------------------------------------------------
(* Feishu *)

Edit(d) ==
  /\ "edit" \in scenario.kinds /\ edits < MaxEdits
  /\ edits' = edits + 1
  /\ \E v \in Versions \ {remote[d]} : remote' = [remote EXCEPT ![d] = v]
  /\ UNCHANGED <<vars, index, job, muddled>>

-----------------------------------------------------------------------------
(* The handler *)

\* syncDocuments of the page.
ClickSync(p) ==
  /\ Begin(p, [NoRequest EXCEPT !.kind = "sync", !.pc = "sync"])
  /\ LET syncs == {q \in Pages : Syncing(q)} IN
     /\ job' = [q \in Pages |->
          IF q = p THEN [NoJob EXCEPT !.pc = "list", !.alone = syncs = {}]
          ELSE [job[q] EXCEPT !.alone = q \notin syncs]]
     /\ muddled' = IF syncs = {} THEN muddled ELSE Docs
  /\ UNCHANGED <<scenario, tables, unseen, pageVars, toggles, history, remote, index, edits>>

\* Latest and ListSelectedDocuments
SyncList(p) ==
  /\ JobAt(p, "list")
  /\ job' = [job EXCEPT ![p].pc = "next", ![p].todo = Who(ListSelectedDocuments)]
  /\ UNCHANGED <<others, index, muddled>>

\* The request is answered, and the page goes on.
SyncAnswers(p, label) ==
  /\ req' = [req EXCEPT ![p].pc = label]
  /\ job' = [job EXCEPT ![p] = NoJob]
  /\ UNCHANGED <<scenario, tables, requests, unseen, pageVars, toggles, history,
                 remote, index, edits, muddled>>

SyncListFails(p) == JobAt(p, "list") /\ SyncAnswers(p, "failed")

\* A document of another type is an error without a call.
Unsupported(p) ==
  /\ JobAt(p, "next")
  /\ \E d \in job[p].todo \ Docx :
       job' = [job EXCEPT ![p].pc = "result", ![p].todo = @ \ {d},
                          ![p].doc = d, ![p].failed = TRUE]
  /\ UNCHANGED <<others, index, muddled>>

\* GetDocumentRawContent
FetchText(p) ==
  /\ JobAt(p, "next")
  /\ \E d \in job[p].todo \cap Docx :
       /\ Pieces[remote[d]] > 0
       /\ job' = [job EXCEPT ![p].pc = "unit", ![p].todo = @ \ {d}, ![p].doc = d,
                             ![p].text = remote[d], ![p].failed = FALSE]
  /\ UNCHANGED <<others, index, muddled>>

\* It fails, as it does for a blank text.
FetchTextFails(p) ==
  /\ JobAt(p, "next")
  /\ \E d \in job[p].todo \cap Docx :
       job' = [job EXCEPT ![p].pc = "result", ![p].todo = @ \ {d},
                          ![p].doc = d, ![p].failed = TRUE]
  /\ UNCHANGED <<others, index, muddled>>

-----------------------------------------------------------------------------
(* IndexDocument *)

WriteUnit(p) == units' = Put(units, job[p].doc, job[p].text)
WriteChunk(p) == chunks' = Put(chunks, <<job[p].doc, job[p].idx>>, job[p].text)

\* upsertDocumentUnit
UpsertUnit(p) ==
  /\ JobAt(p, "unit")
  /\ WriteUnit(p)
  /\ job' = [job EXCEPT ![p].pc = "chunk", ![p].idx = 0]
  /\ UNCHANGED <<others, chunks, muddled>>

\* Embed and upsertDocumentChunk
UpsertChunk(p) ==
  LET last == Pieces[job[p].text] - 1 IN
  /\ JobAt(p, "chunk")
  /\ WriteChunk(p)
  /\ job' = [job EXCEPT ![p].idx = @ + 1,
                        ![p].pc = IF job[p].idx < last THEN "chunk" ELSE "result"]
  /\ UNCHANGED <<others, units, muddled>>

\* A call of it fails, perhaps after the row was written.
IndexFails(p) ==
  /\ \/ JobAt(p, "unit") /\ WriteUnit(p) /\ UNCHANGED chunks
     \/ JobAt(p, "chunk") /\ WriteChunk(p) /\ UNCHANGED units
     \/ (JobAt(p, "unit") \/ JobAt(p, "chunk")) /\ UNCHANGED index
  /\ job' = [job EXCEPT ![p].pc = "result", ![p].failed = TRUE]
  /\ UNCHANGED <<others, muddled>>

-----------------------------------------------------------------------------
(* The outcome *)

\* Mutant: a failure leaves the row as it is.
RecordSuccessOnly(d, failed) ==
  documents' = IF failed THEN documents
               ELSE [documents EXCEPT ![d].synced = TRUE, ![d].error = FALSE]

\* SaveDocumentSyncResult: last_synced_at is set by a success only,
\* last_sync_error by both.
SaveDocumentSyncResult(d, failed) ==
  documents' = [documents EXCEPT ![d].synced = @ \/ ~failed, ![d].error = failed]

NextDocument(p) ==
  job' = [job EXCEPT ![p] = [NoJob EXCEPT !.pc = "next", !.todo = job[p].todo,
                                          !.alone = job[p].alone]]

SaveResult(p) ==
  /\ JobAt(p, "result")
  /\ SaveDocumentSyncResult(job[p].doc, job[p].failed)
  /\ NextDocument(p)
  /\ muddled' = IF job[p].alone THEN muddled \ {job[p].doc} ELSE muddled
  /\ UNCHANGED <<scenario, chats, contacts, req, requests, unseen, pageVars, toggles, history,
                 remote, index, edits>>

\* Its error is dropped, and the answer counts the document all the same.
SaveResultFails(p) ==
  /\ JobAt(p, "result")
  /\ NextDocument(p)
  /\ muddled' = muddled \cup {job[p].doc}
  /\ UNCHANGED <<others, index>>

SyncEnds(p) == JobAt(p, "next") /\ job[p].todo = {} /\ SyncAnswers(p, "ok")

SyncStep(p) ==
  \/ ClickSync(p) \/ SyncList(p) \/ SyncListFails(p) \/ Unsupported(p)
  \/ FetchText(p) \/ FetchTextFails(p) \/ UpsertUnit(p) \/ UpsertChunk(p) \/ IndexFails(p)
  \/ SaveResult(p) \/ SaveResultFails(p) \/ SyncEnds(p)

DocInit ==
  /\ Init
  /\ remote \in [Docx -> Versions]
  /\ units = << >> /\ chunks = << >>
  /\ job = [p \in Pages |-> NoJob]
  /\ edits = 0 /\ muddled = {}

DocNext ==
  \/ Next /\ UNCHANGED docVars
  \/ \E d \in Docx : Edit(d)
  \/ \E p \in Pages : SyncStep(p)

DocSpec == DocInit /\ [][DocNext]_allVars

-----------------------------------------------------------------------------
(* Properties *)

Jobs ==
  [pc : {"idle", "list", "next", "unit", "chunk", "result"}, todo : SUBSET Docs,
   doc : Docs \cup {NoDoc}, text : Versions \cup {NoVersion}, idx : Nat,
   failed : BOOLEAN, alone : BOOLEAN]

DocTypeOK ==
  /\ TypeOK
  /\ remote \in [Docx -> Versions]
  /\ DOMAIN units \subseteq Docs /\ units \in [DOMAIN units -> Versions]
  /\ DOMAIN chunks \subseteq Docs \X Nat /\ chunks \in [DOMAIN chunks -> Versions]
  /\ job \in [Pages -> Jobs]
  /\ edits \in 0..MaxEdits /\ muddled \subseteq Docs

\* What is retrieved of d, up to the end of its text, is one text.
Indexed(d) ==
  /\ d \in DOMAIN units
  /\ \A i \in 0..(Pieces[units[d]] - 1) : <<d, i>> \in DOMAIN chunks /\ chunks[<<d, i>>] = units[d]

(* A document's row that says "synced, no error" is true: the index holds  *)
(* one text of it from end to end, also after later syncs that failed half *)
(* way, saves that changed the selection in between and texts that got     *)
(* shorter.  Excused are a row whose outcome could not be written, since   *)
(* that error is dropped, and two syncs at the same time.                  *)
SyncedRowIsTrue ==
  \A d \in DOMAIN documents :
    documents[d].synced /\ ~documents[d].error /\ d \notin muddled
    /\ (\A p \in Pages : job[p].doc # d)
      => Indexed(d)

=============================================================================
