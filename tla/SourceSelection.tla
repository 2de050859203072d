-------------------------- MODULE SourceSelection --------------------------
(***************************************************************************)
(* The sources of the knowledge base: internal/source/repository.go, the   *)
(* handlers of internal/httpapi/router.go that call it, and those who look *)
(* up the private chat of a contact in the background.                     *)
(*                                                                         *)
(* Three tables say what is recorded: chats, contacts and cloud_documents. *)
(* A save clears a table's selection and writes the posted items one by    *)
(* one, with no transaction around it; a listing asks Feishu and writes    *)
(* what it found into the table one by one; a resolve writes to contacts   *)
(* and sends a message to each.  An action is one statement or one call    *)
(* outside, so everything else may step in between.  Any of them may fail, *)
(* also because the client left and the request's context ended, and a     *)
(* failed statement may have been executed.                                *)
(*                                                                         *)
(* The tables share nothing, so a behaviour works on one of them, `tab`.   *)
(***************************************************************************)
EXTENDS Naturals, FiniteSets

CONSTANTS
  Groups,      \* group chats
  Persons,     \* contacts
  NoOpenID,    \* contacts' key '' of all persons without an open id
  HasOpenID,   \* the persons that have an open id
  ChatIDs,     \* ids of private chats
  NoChat,      \* the empty chat id
  ChatOf,      \* ChatOf[p]: the private chat that a message sent to p lands in
  Matching,    \* Matching[p]: the chats whose name matchP2PChat takes for p's
  Docs,        \* cloud documents
  Clients,     \* who sends requests
  Runners,     \* the poller and the history sync, which look for chat ids
  Scenarios    \* what is tried: [tab, kinds, starts]: a table, the kinds of requests
               \* that are sent (and whether documents are edited), and a bound on
               \* how many requests

ASSUME SourcesAssumption ==
  /\ Groups \cap Persons = {} /\ Groups \cap Docs = {} /\ Persons \cap Docs = {}
  /\ HasOpenID \subseteq Persons /\ NoOpenID \notin Groups \cup Persons \cup Docs
  /\ NoChat \notin ChatIDs
  /\ ChatOf \in [Persons -> ChatIDs] /\ Matching \in [Persons -> SUBSET ChatIDs]
ASSUME ActorsAssumption == Clients \cap Runners = {}
ASSUME ScenariosAssumption ==
  \A s \in Scenarios :
    /\ s.tab \in {"chat", "contact", "document"} /\ s.starts \in Nat
    /\ s.kinds \subseteq {"save", "post", "load", "local", "resolve", "match", "sync", "edit"}
    /\ "post" \in s.kinds => s.tab = "chat"
    /\ s.kinds \cap {"resolve", "match"} # {} => s.tab = "contact"
    /\ s.kinds \cap {"sync", "edit"} # {} => s.tab = "document"

VARIABLES
  scenario,   \* what this behaviour tries, one of Scenarios
  chats,      \* chats[g] = [selected, sync, auto]; selected is the column enabled
  contacts,   \* contacts[k] = [who, selected, chat]
  documents,  \* documents[d] = [selected, synced, error]
  req,        \* req[a]: the request of a client, or the round of a runner
  requests,   \* requests and rounds started
  greeted,    \* greeted[p]: messages that resolve-chats sent to p
  excused     \* persons for whom such a message may be sent again: a call
              \* failed, or two resolve requests ran at the same time

tables == <<chats, contacts, documents>>
sourceVars == <<scenario, tables, req, requests, greeted, excused>>

tab == scenario.tab

Things == Groups \cup Persons \cup Docs

\* The table's key of an item.
Key(thing) == IF thing \in Persons \ HasOpenID THEN NoOpenID ELSE thing

\* INSERT ... ON CONFLICT DO UPDATE of the row of key k.
Put(table, k, row) == [j \in DOMAIN table \cup {k} |-> IF j = k THEN row ELSE table[j]]

-----------------------------------------------------------------------------
(* Rows and items as the repository's lists return them *)

Item(who, selected, chat) == [who |-> who, selected |-> selected, chat |-> chat]

ListCachedChats == {Item(g, chats[g].selected, NoChat) : g \in DOMAIN chats}
ListCachedContacts ==
  {Item(contacts[k].who, contacts[k].selected, contacts[k].chat) : k \in DOMAIN contacts}
ListCachedDocuments == {Item(d, documents[d].selected, NoChat) : d \in DOMAIN documents}

ListCached ==
  CASE tab = "chat" -> ListCachedChats
    [] tab = "contact" -> ListCachedContacts
    [] tab = "document" -> ListCachedDocuments

\* The WHERE of the lists of selected rows.
SelectedOf(items) == {i \in items : i.selected}

ListSelectedContacts == SelectedOf(ListCachedContacts)
ListSelectedDocuments == SelectedOf(ListCachedDocuments)

\* What a query may match.
SearchCachedContacts == SUBSET ListCachedContacts

-----------------------------------------------------------------------------
(* Statements of the repositories *)

ClearChats ==
  /\ chats' = [g \in DOMAIN chats |-> [chats[g] EXCEPT !.selected = FALSE, !.sync = FALSE]]
  /\ UNCHANGED <<contacts, documents>>

ClearContacts ==
  /\ contacts' = [k \in DOMAIN contacts |-> [contacts[k] EXCEPT !.selected = FALSE]]
  /\ UNCHANGED <<chats, documents>>

ClearDocuments ==
  /\ documents' = [d \in DOMAIN documents |-> [documents[d] EXCEPT !.selected = FALSE]]
  /\ UNCHANGED <<chats, contacts>>

\* chat.Repository.Upsert replaces every flag.
UpsertChat(g, selected, sync, auto) ==
  /\ chats' = Put(chats, g, [selected |-> selected, sync |-> sync, auto |-> auto])
  /\ UNCHANGED <<contacts, documents>>

\* Mutant: the chat id is replaced like the other columns.
ChatReplaced(item) == item.chat

\* COALESCE(NULLIF(EXCLUDED.feishu_chat_id, ''), contacts.feishu_chat_id)
ChatOrKept(item) ==
  LET k == Key(item.who) IN
  IF item.chat = NoChat /\ k \in DOMAIN contacts THEN contacts[k].chat ELSE item.chat

\* The write of SaveSelectedContacts for one item.
SaveContact(item) ==
  /\ contacts' = Put(contacts, Key(item.who),
       [who |-> item.who, selected |-> TRUE, chat |-> ChatOrKept(item)])
  /\ UNCHANGED <<chats, documents>>

\* The write of SaveSelectedDocuments for one item; what the last sync of the
\* document left stays.
SaveDocument(item) ==
  /\ documents' = Put(documents, item.who,
       IF item.who \in DOMAIN documents
         THEN [documents[item.who] EXCEPT !.selected = TRUE]
         ELSE [selected |-> TRUE, synced |-> FALSE, error |-> FALSE])
  /\ UNCHANGED <<chats, contacts>>

\* Mutant: a group that is cached is enabled.
CacheChatEnabled(item) ==
  /\ chats' = Put(chats, item.who, [selected |-> TRUE, sync |-> FALSE, auto |-> FALSE])
  /\ UNCHANGED <<contacts, documents>>

\* CacheChats, CacheContacts and CacheDocuments leave the selection of a row
\* that exists as it is.
CacheChat(item) ==
  /\ chats' = IF item.who \in DOMAIN chats THEN chats
              ELSE Put(chats, item.who, [selected |-> FALSE, sync |-> FALSE, auto |-> FALSE])
  /\ UNCHANGED <<contacts, documents>>

CacheContact(item) ==
  LET k == Key(item.who) IN
  /\ contacts' = Put(contacts, k,
       [who |-> item.who, chat |-> ChatOrKept(item),
        selected |-> k \in DOMAIN contacts /\ contacts[k].selected])
  /\ UNCHANGED <<chats, documents>>

CacheDocument(item) ==
  /\ documents' = IF item.who \in DOMAIN documents THEN documents
                  ELSE Put(documents, item.who,
                           [selected |-> FALSE, synced |-> FALSE, error |-> FALSE])
  /\ UNCHANGED <<chats, contacts>>

\* SaveContactChatID: nothing without an open id.
SaveContactChatID(p, id) ==
  /\ contacts' = IF p \in HasOpenID /\ p \in DOMAIN contacts
                   THEN [contacts EXCEPT ![p].chat = id] ELSE contacts
  /\ UNCHANGED <<chats, documents>>

-----------------------------------------------------------------------------
(* Requests *)

\* No request: also what a page that has read its answer is left with.
NoRequest ==
  [kind |-> "none", pc |-> "idle",
   todo |-> {},       \* items still to be written or resolved
   posted |-> {},     \* what a save was sent
   answer |-> {},     \* the rows that are sent back
   alone |-> TRUE,    \* a save: no other save has run since its request came
   unsettled |-> NoChat] \* the chat id that has to be saved next

At(a, label) == req[a].pc = label
Busy(a) == ~At(a, "idle")

\* Request a goes on at label; its other fields stay.
Goto(a, label) == req' = [req EXCEPT ![a].pc = label]

\* The handler answers: 200 with what it read, or an error.
Answer(a, label, rows) == req' = [req EXCEPT ![a].pc = label, ![a].answer = rows, ![a].todo = {}]

\* Whoever saves, or posts a chat, takes the solitude of the saves under way.
Begin(a, request) ==
  /\ ~Busy(a) /\ request.kind \in scenario.kinds /\ requests < scenario.starts
  /\ requests' = requests + 1
  /\ LET saves == {b \in DOMAIN req : req[b].kind = "save" /\ Busy(b)} IN
     req' = [b \in DOMAIN req |->
       CASE b = a -> [request EXCEPT !.alone = saves = {}]
         [] b \in saves -> [req[b] EXCEPT !.alone = @ /\ request.kind # "save"]
         [] OTHER -> req[b]]

unseen == <<greeted, excused>>

-----------------------------------------------------------------------------
(* POST /source/{chats,contacts,documents}/select: SaveSelected* *)

SaveRequest(a, items) ==
  /\ Begin(a, [NoRequest EXCEPT !.kind = "save", !.pc = "clear",
                                !.todo = items, !.posted = items])
  /\ UNCHANGED <<scenario, tables, unseen>>

\* Mutant: the posted items are added to the selection.
ClearNothing == UNCHANGED tables

\* The UPDATE at the start of each SaveSelected*.
ClearSelected ==
  \/ tab = "chat" /\ ClearChats
  \/ tab = "contact" /\ ClearContacts
  \/ tab = "document" /\ ClearDocuments

Clear(a) ==
  /\ At(a, "clear")
  /\ ClearSelected
  /\ Goto(a, "upsert")
  /\ UNCHANGED <<scenario, requests, unseen>>

\* One round of the loop.  Items come from the page, with a key and a name.
SaveItem(item) ==
  \/ tab = "chat" /\ UpsertChat(item.who, TRUE, TRUE, FALSE)
  \/ tab = "contact" /\ SaveContact(item)
  \/ tab = "document" /\ SaveDocument(item)

SaveOne(a) ==
  /\ At(a, "upsert")
  /\ \E item \in req[a].todo :
       /\ SaveItem(item)
       /\ req' = [req EXCEPT ![a].todo = @ \ {item}]
  /\ UNCHANGED <<scenario, requests, unseen>>

SaveEnds(a) ==
  /\ At(a, "upsert") /\ req[a].todo = {}
  /\ Answer(a, "ok", {})
  /\ UNCHANGED <<scenario, tables, requests, unseen>>

\* A statement fails: 500, with what was written so far, perhaps this one too.
SaveFails(a) ==
  /\ \/ At(a, "clear") /\ (ClearSelected \/ UNCHANGED tables)
     \/ /\ At(a, "upsert") /\ req[a].todo # {}
        /\ \/ UNCHANGED tables
           \/ \E item \in req[a].todo : SaveItem(item)
  /\ Answer(a, "failed", {})
  /\ UNCHANGED <<scenario, requests, unseen>>

\* POST /chats: chat.Repository.Upsert with flags of the caller's choice.
PostChat(g, selected, sync, auto) ==
  /\ "post" \in scenario.kinds /\ requests < scenario.starts
  /\ requests' = requests + 1
  /\ UpsertChat(g, selected, sync, auto)
  /\ req' = [b \in DOMAIN req |-> [req[b] EXCEPT !.alone = @ /\ req[b].kind # "save"]]
  /\ UNCHANGED <<scenario, unseen>>

-----------------------------------------------------------------------------
(* GET /source/{chats,contacts,documents} *)

\* With local=true.
LocalRequest(a) ==
  /\ Begin(a, [NoRequest EXCEPT !.kind = "local", !.pc = "list"])
  /\ UNCHANGED <<scenario, tables, unseen>>

\* A listing asks Feishu first.
LoadRequest(a) ==
  /\ Begin(a, [NoRequest EXCEPT !.kind = "load", !.pc = "fetch"])
  /\ UNCHANGED <<scenario, tables, unseen>>

\* What there is to find at Feishu.
Remote ==
  CASE tab = "chat" -> Groups
    [] tab = "contact" -> Persons
    [] tab = "document" -> Docs

\* What the client's calls may return, page after page: some of what there is.
\* Only a search of persons may come with the ids of their chats.
Rows(things) == {Item(s, FALSE, NoChat) : s \in things}
ListUserChats == {Rows(found) : found \in SUBSET Groups}
ListDepartmentUsers == {Rows(found) : found \in SUBSET Persons}
PersonRows(found, known) ==
  {Item(p, FALSE, IF p \in known THEN ChatOf[p] ELSE NoChat) : p \in found}
SearchUsers == {PersonRows(found, known) : found \in SUBSET Persons, known \in SUBSET Persons}
SearchDocuments == {Rows(found) : found \in SUBSET Docs}

Fetch(a) ==
  /\ At(a, "fetch")
  /\ \E found \in CASE tab = "chat" -> ListUserChats
                    [] tab = "contact" -> ListDepartmentUsers \cup SearchUsers
                    [] tab = "document" -> SearchDocuments :
       req' = [req EXCEPT ![a].pc = "cache", ![a].todo = found]
  /\ UNCHANGED <<scenario, tables, requests, unseen>>

\* The search of contacts falls back on the table, and writes the rows that
\* match back as it read them; the other listings give up.
FetchFails(a) ==
  /\ At(a, "fetch")
  /\ \/ /\ tab = "contact"
        /\ \E found \in SearchCachedContacts :
             req' = [req EXCEPT ![a].pc = "cache", ![a].todo = found]
     \/ Answer(a, "failed", {})
  /\ UNCHANGED <<scenario, tables, requests, unseen>>

CacheItem(item) ==
  \/ tab = "chat" /\ CacheChat(item)
  \/ tab = "contact" /\ CacheContact(item)
  \/ tab = "document" /\ CacheDocument(item)

CacheOne(a) ==
  /\ At(a, "cache")
  /\ \E item \in req[a].todo :
       /\ CacheItem(item)
       /\ req' = [req EXCEPT ![a].todo = @ \ {item}]
  /\ UNCHANGED <<scenario, requests, unseen>>

CacheEnds(a) ==
  /\ At(a, "cache") /\ req[a].todo = {}
  /\ Goto(a, "list")
  /\ UNCHANGED <<scenario, tables, requests, unseen>>

\* The list that is sent back holds the whole table.
List(a) ==
  /\ At(a, "list")
  /\ Answer(a, "ok", ListCached)
  /\ UNCHANGED <<scenario, tables, requests, unseen>>

ListingFails(a) ==
  /\ \/ At(a, "list") /\ UNCHANGED tables
     \/ /\ At(a, "cache") /\ req[a].todo # {}
        /\ \/ UNCHANGED tables
           \/ \E item \in req[a].todo : CacheItem(item)
  /\ Answer(a, "failed", {})
  /\ UNCHANGED <<scenario, requests, unseen>>

-----------------------------------------------------------------------------
(* POST /source/contacts/resolve-chats *)

Resolving(a) == req[a].kind = "resolve" /\ Busy(a)

ResolveRequest(a) ==
  /\ Begin(a, [NoRequest EXCEPT !.kind = "resolve", !.pc = "selected"])
  /\ excused' = IF \E b \in DOMAIN req : Resolving(b) THEN excused \cup Persons ELSE excused
  /\ UNCHANGED <<scenario, tables, greeted>>

\* Mutant: a chat id that is known is resolved again.
ResolveListAll(a) ==
  /\ At(a, "selected") /\ req[a].kind = "resolve"
  /\ req' = [req EXCEPT ![a].pc = "send",
       ![a].todo = {i \in ListSelectedContacts : i.who \in HasOpenID}]
  /\ UNCHANGED <<scenario, tables, requests, unseen>>

\* TenantAccessToken and ListSelectedContacts.  A contact with a chat id is
\* counted, one without an open id is reported; the loop is over the others.
ResolveList(a) ==
  /\ At(a, "selected") /\ req[a].kind = "resolve"
  /\ req' = [req EXCEPT ![a].pc = "send",
       ![a].todo = {i \in ListSelectedContacts : i.chat = NoChat /\ i.who \in HasOpenID}]
  /\ UNCHANGED <<scenario, tables, requests, unseen>>

\* SendTextMessage
Send(a) ==
  /\ At(a, "send")
  /\ \E item \in req[a].todo :
       /\ greeted' = [greeted EXCEPT ![item.who] = @ + 1]
       /\ req' = [req EXCEPT ![a].pc = "save", ![a].todo = @ \ {item},
                             ![a].posted = {item}, ![a].unsettled = ChatOf[item.who]]
  /\ UNCHANGED <<scenario, tables, requests, excused>>

\* It fails, perhaps after the message went out; the loop goes on.
SendFails(a) ==
  /\ At(a, "send")
  /\ \E item \in req[a].todo :
       /\ \/ greeted' = [greeted EXCEPT ![item.who] = @ + 1]
          \/ UNCHANGED greeted
       /\ excused' = excused \cup {item.who}
       /\ req' = [req EXCEPT ![a].todo = @ \ {item}]
  /\ UNCHANGED <<scenario, tables, requests>>

ResolveSave(a) ==
  /\ At(a, "save")
  /\ \A item \in req[a].posted : SaveContactChatID(item.who, req[a].unsettled)
  /\ req' = [req EXCEPT ![a].pc = "send", ![a].posted = {}, ![a].unsettled = NoChat]
  /\ UNCHANGED <<scenario, requests, unseen>>

ResolveSaveFails(a) ==
  /\ At(a, "save")
  /\ excused' = excused \cup {item.who : item \in req[a].posted}
  /\ req' = [req EXCEPT ![a].pc = "send", ![a].posted = {}, ![a].unsettled = NoChat]
  /\ UNCHANGED <<scenario, tables, requests, greeted>>

ResolveEnds(a) ==
  /\ At(a, "send") /\ req[a].todo = {}
  /\ Answer(a, "ok", {})
  /\ UNCHANGED <<scenario, tables, requests, unseen>>

\* The token or the list cannot be had.
ResolveFails(a) ==
  /\ At(a, "selected") /\ req[a].kind = "resolve"
  /\ Answer(a, "failed", {})
  /\ UNCHANGED <<scenario, tables, requests, unseen>>

-----------------------------------------------------------------------------
(* resolveP2PChatIDs of the poller and of the history sync *)

MatchRound(a) ==
  /\ Begin(a, [NoRequest EXCEPT !.kind = "match", !.pc = "selected"])
  /\ UNCHANGED <<scenario, tables, unseen>>

\* ListSelectedContacts and ListUserP2PChats; if the latter fails the round
\* goes on with the chat ids it has, so nothing is left to do here.
MatchList(a) ==
  /\ At(a, "selected") /\ req[a].kind = "match"
  /\ \/ req' = [req EXCEPT ![a].pc = "match",
          ![a].todo = {i \in ListSelectedContacts : i.chat = NoChat /\ Matching[i.who] # {}}]
     \/ req' = [req EXCEPT ![a] = NoRequest]
  /\ UNCHANGED <<scenario, tables, requests, unseen>>

\* SaveContactChatID; an error is ignored, or only logged.
MatchSave(a) ==
  /\ At(a, "match")
  /\ \E item \in req[a].todo :
       /\ \/ \E id \in Matching[item.who] : SaveContactChatID(item.who, id)
          \/ UNCHANGED tables
       /\ req' = [req EXCEPT ![a].todo = @ \ {item}]
  /\ UNCHANGED <<scenario, requests, unseen>>

MatchEnds(a) ==
  /\ At(a, "match") /\ req[a].todo = {}
  /\ req' = [req EXCEPT ![a] = NoRequest]
  /\ UNCHANGED <<scenario, tables, requests, unseen>>

-----------------------------------------------------------------------------
\* The steps of the handlers and rounds, once begun.
HandlerStep(a) ==
  \/ Clear(a) \/ SaveOne(a) \/ SaveEnds(a) \/ SaveFails(a)
  \/ Fetch(a) \/ FetchFails(a) \/ CacheOne(a) \/ CacheEnds(a) \/ List(a) \/ ListingFails(a)
  \/ ResolveList(a) \/ Send(a) \/ SendFails(a) \/ ResolveSave(a) \/ ResolveSaveFails(a)
  \/ ResolveEnds(a) \/ ResolveFails(a)
  \/ MatchList(a) \/ MatchSave(a) \/ MatchEnds(a)

\* Earlier requests have cached what there is to choose from, and saved some of it.
SourceInit ==
  /\ scenario \in Scenarios
  /\ \E saved \in SUBSET Remote :
       /\ chats = [g \in Groups \cap Remote |->
                    [selected |-> g \in saved, sync |-> g \in saved, auto |-> FALSE]]
       /\ contacts = [p \in HasOpenID \cap Remote |->
                       [who |-> p, selected |-> p \in saved, chat |-> NoChat]]
       /\ documents = [d \in Docs \cap Remote |->
                        [selected |-> d \in saved, synced |-> FALSE, error |-> FALSE]]
  /\ req = [a \in Clients \cup Runners |-> NoRequest]
  /\ requests = 0
  /\ greeted = [p \in Persons |-> 0]
  /\ excused = {}

=============================================================================
