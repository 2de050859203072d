-------------------------- MODULE SourcesProofs --------------------------
(***************************************************************************)
(* Theorems about DocumentSync, and so about the sources and the admin     *)
(* page, for every set of groups, contacts, documents, pages and rounds    *)
(* and for every number of requests.                                       *)
(*                                                                         *)
(* Shapes is inductive alone.  The four invariants behind the properties   *)
(* each rest on Shapes and on what a statement does to the selection and   *)
(* to the contacts' chat ids, which a section of its own collects.         *)
(***************************************************************************)
EXTENDS DocumentSync, TLAPS

-----------------------------------------------------------------------------
(* The shape of requests, pages and jobs: what the types do not say *)

Actors == Clients \cup Runners

\* A table that the behaviour does not work on is empty.
OneTable ==
  /\ tab # "chat" => DOMAIN chats = {}
  /\ tab # "contact" => DOMAIN contacts = {}
  /\ tab # "document" => DOMAIN documents = {}

\* The items of a request are of the table, and it is where its kind can be.
RequestOK(y) ==
  /\ Who(y.todo) \subseteq Remote /\ Who(y.posted) \subseteq Remote /\ Who(y.answer) \subseteq Remote
  /\ y.kind = "none" <=> y.pc = "idle"
  /\ y.pc \in {"clear", "upsert"} => y.kind = "save"
  /\ y.pc \in {"fetch", "cache"} => y.kind = "load"
  /\ y.pc = "list" => y.kind \in {"load", "local"}
  /\ y.pc = "selected" => y.kind \in {"resolve", "match"}
  /\ y.pc \in {"send", "save"} => y.kind = "resolve"
  /\ y.pc = "match" => y.kind = "match"
  /\ y.pc = "sync" => y.kind = "sync"
  /\ y.kind \in {"resolve", "match"} => tab = "contact"
  /\ y.kind = "sync" => tab = "document"
  /\ y.kind = "save" => y.todo \subseteq y.posted /\ (y.pc = "ok" => y.todo = {})
  /\ y.pc = "clear" => y.todo = y.posted
  /\ y.pc = "save" => (\E item \in Items : y.posted = {item}) /\ y.unsettled # NoChat

\* A sync under way is the request its page waits for, and has at hand what it works on.
JobOK(p) ==
  /\ Syncing(p) => req[p].pc = "sync"
  /\ job[p].pc \in {"idle", "list", "next"} <=> job[p].doc = NoDoc
  /\ job[p].pc = "unit" => job[p].text \in Versions /\ 0 < Pieces[job[p].text]
  /\ job[p].pc = "chunk" => job[p].text \in Versions /\ job[p].idx < Pieces[job[p].text]

TableTypes ==
  /\ DOMAIN chats \subseteq Groups /\ chats \in [DOMAIN chats -> ChatRows]
  /\ contacts \in [DOMAIN contacts -> ContactRows]
  /\ \A k \in DOMAIN contacts : Key(contacts[k].who) = k
  /\ DOMAIN documents \subseteq Docs /\ documents \in [DOMAIN documents -> DocumentRows]
  /\ OneTable

RequestTypes == req \in [Actors -> Requests] /\ \A a \in Actors : RequestOK(req[a])

PageTypes ==
  /\ items \in [Pages -> SUBSET Items] /\ joined \in [Pages -> SUBSET SelectedOf(Items)]
  /\ ticks \in [Pages -> SUBSET Things]
  /\ \A p \in Pages :
       Who(items[p]) \subseteq Remote /\ Who(joined[p]) \subseteq Remote /\ ticks[p] \subseteq Remote

CountTypes ==
  /\ scenario \in Scenarios /\ requests \in 0..scenario.starts /\ toggles \in 0..MaxToggles
  /\ greeted \in [Persons -> Nat] /\ excused \subseteq Persons
  /\ chosen \subseteq Things /\ takenOut \subseteq Things

IndexTypes ==
  /\ remote \in [Docx -> Versions]
  /\ DOMAIN units \subseteq Docs /\ units \in [DOMAIN units -> Versions]
  /\ DOMAIN chunks \subseteq Docs \X Nat /\ chunks \in [DOMAIN chunks -> Versions]
  /\ edits \in 0..MaxEdits /\ muddled \subseteq Docs

JobTypes == job \in [Pages -> Jobs] /\ \A p \in Pages : JobOK(p)

Shapes == TableTypes /\ RequestTypes /\ PageTypes /\ CountTypes /\ IndexTypes /\ JobTypes

\* The type invariant is part of it.
LEMMA ShapesTyped == Shapes => DocTypeOK
  BY DEF Shapes, TableTypes, RequestTypes, PageTypes, CountTypes, IndexTypes, JobTypes,
         DocTypeOK, TypeOK, Actors

-----------------------------------------------------------------------------
(* What is of which table *)

LEMMA TabFacts ==
  ASSUME scenario \in Scenarios
  PROVE  /\ tab \in {"chat", "contact", "document"}
         /\ tab = "chat" => Remote = Groups
         /\ tab = "contact" => Remote = Persons
         /\ tab = "document" => Remote = Docs
         /\ tab = "chat" => ListCached = ListCachedChats
         /\ tab = "contact" => ListCached = ListCachedContacts
         /\ tab = "document" => ListCached = ListCachedDocuments
         /\ Remote \subseteq Things
  BY ScenariosAssumption DEF tab, Remote, ListCached, Things

\* A key is the thing itself but for persons without an open id.
LEMMA KeyFacts ==
  /\ \A w \in Groups \cup Docs \cup HasOpenID : Key(w) = w
  /\ \A w \in Persons \ HasOpenID : Key(w) = NoOpenID
  /\ \A w \in Things : Key(w) \in HasOpenID => w = Key(w)
  BY SourcesAssumption DEF Key, Things

LEMMA ItemType ==
  ASSUME NEW w \in Things, NEW s \in BOOLEAN, NEW c \in ChatIDs \cup {NoChat}
  PROVE  Item(w, s, c) \in Items /\ Item(w, s, c).who = w /\ Item(w, s, c).selected = s
         /\ Item(w, s, c).chat = c
  BY DEF Item, Items

LEMMA ListTypes ==
  ASSUME scenario \in Scenarios, TableTypes
  PROVE  /\ ListCached \subseteq Items /\ Who(ListCached) \subseteq Remote
         /\ ListCachedContacts \subseteq Items /\ Who(ListCachedContacts) \subseteq Persons
         /\ \A i \in ListCachedContacts : \E k \in DOMAIN contacts :
              i.who = contacts[k].who /\ i.selected = contacts[k].selected /\ i.chat = contacts[k].chat
         /\ Who(ListCachedDocuments) \subseteq DOMAIN documents
  <1>1. ListCachedContacts \subseteq Items /\ Who(ListCachedContacts) \subseteq Persons
        /\ \A i \in ListCachedContacts : \E k \in DOMAIN contacts :
              i.who = contacts[k].who /\ i.selected = contacts[k].selected /\ i.chat = contacts[k].chat
    <2>1. \A k \in DOMAIN contacts :
            /\ contacts[k].who \in Persons /\ contacts[k].selected \in BOOLEAN
            /\ contacts[k].chat \in ChatIDs \cup {NoChat}
      BY DEF TableTypes, ContactRows
    <2>2. Persons \subseteq Things  BY DEF Things
    <2>3. QED  BY <2>1, <2>2, ItemType DEF ListCachedContacts, Who
  <1>2. ListCachedChats \subseteq Items /\ Who(ListCachedChats) \subseteq Groups
    <2>1. \A g \in DOMAIN chats : g \in Groups /\ g \in Things /\ chats[g].selected \in BOOLEAN
      BY DEF TableTypes, ChatRows, Things
    <2>2. QED  BY <2>1, ItemType DEF ListCachedChats, Who
  <1>3. ListCachedDocuments \subseteq Items /\ Who(ListCachedDocuments) \subseteq DOMAIN documents
    <2>1. \A d \in DOMAIN documents : d \in Docs /\ d \in Things /\ documents[d].selected \in BOOLEAN
      BY DEF TableTypes, DocumentRows, Things
    <2>2. QED  BY <2>1, ItemType DEF ListCachedDocuments, Who
  <1>4. DOMAIN documents \subseteq Docs  BY DEF TableTypes
  <1>5. QED  BY <1>1, <1>2, <1>3, <1>4, TabFacts

LEMMA NoRequestType == NoRequest \in Requests /\ RequestOK(NoRequest)
  BY DEF NoRequest, Requests, RequestOK, Who

-----------------------------------------------------------------------------
(* Statements: what each does to the types, to what is selected, to the    *)
(* chat ids and to the outcomes of syncs                                   *)

\* What the table calls selected, by key.
SelKeys ==
  {g \in DOMAIN chats : chats[g].selected} \cup {k \in DOMAIN contacts : contacts[k].selected}
    \cup {d \in DOMAIN documents : documents[d].selected}

\* The two flags of a chat that a save sets agree.
InStep == \A g \in DOMAIN chats : chats[g].sync = chats[g].selected

Known(p) == p \in DOMAIN contacts /\ contacts[p].chat # NoChat

\* No contact, and no chat id, is forgotten.
ChatIDsStay ==
  \A k \in DOMAIN contacts :
    k \in DOMAIN contacts' /\ (contacts[k].chat # NoChat => contacts'[k].chat # NoChat)

\* A row that says "synced, no error" said so before.
NoNewOutcome ==
  \A d \in DOMAIN documents' : documents'[d].synced /\ ~documents'[d].error =>
    d \in DOMAIN documents /\ documents[d].synced /\ ~documents[d].error

Statement == TableTypes' /\ ChatIDsStay /\ NoNewOutcome

LEMMA NoStatement ==
  ASSUME TableTypes, UNCHANGED <<scenario, tables>>
  PROVE  Statement /\ SelKeys' = SelKeys /\ (InStep => InStep')
  BY DEF TableTypes, Statement, ChatIDsStay, NoNewOutcome, SelKeys, InStep, OneTable, tab, tables

LEMMA ClearEffect ==
  ASSUME TableTypes, UNCHANGED scenario, ClearSelected
  PROVE  Statement /\ SelKeys' = {} /\ InStep'
  <1>1. CASE tab = "chat" /\ ClearChats
    <2>1. /\ DOMAIN contacts = {} /\ DOMAIN documents = {}
          /\ contacts' = contacts /\ documents' = documents /\ DOMAIN chats' = DOMAIN chats
      BY <1>1 DEF ClearChats, TableTypes, OneTable
    <2>2. \A g \in DOMAIN chats :
            chats'[g] \in ChatRows /\ chats'[g].selected = FALSE /\ chats'[g].sync = FALSE
      BY <1>1 DEF ClearChats, TableTypes, ChatRows
    <2>3. chats' \in [DOMAIN chats' -> ChatRows]
      BY <1>1, <2>1, <2>2 DEF ClearChats
    <2>4. TableTypes'  BY <1>1, <2>1, <2>3 DEF TableTypes, OneTable, tab
    <2>5. SelKeys' = {} /\ InStep'
      <3>1. SelKeys' = {}  BY <2>1, <2>2 DEF SelKeys
      <3>2. QED  BY <3>1, <2>1, <2>2 DEF InStep
    <2>6. QED  BY <2>1, <2>2, <2>4, <2>5 DEF Statement, ChatIDsStay, NoNewOutcome
  <1>2. CASE tab = "contact" /\ ClearContacts
    <2>1. /\ DOMAIN chats = {} /\ DOMAIN documents = {}
          /\ chats' = chats /\ documents' = documents /\ DOMAIN contacts' = DOMAIN contacts
      BY <1>2 DEF ClearContacts, TableTypes, OneTable
    <2>2. \A k \in DOMAIN contacts :
            /\ contacts'[k] \in ContactRows /\ ~contacts'[k].selected
            /\ contacts'[k].who = contacts[k].who /\ contacts'[k].chat = contacts[k].chat
      BY <1>2 DEF ClearContacts, TableTypes, ContactRows
    <2>3. contacts' \in [DOMAIN contacts' -> ContactRows]
      BY <1>2, <2>1, <2>2 DEF ClearContacts
    <2>4. TableTypes'  BY <1>2, <2>1, <2>2, <2>3 DEF TableTypes, OneTable, tab
    <2>5. SelKeys' = {} /\ InStep'
      <3>1. SelKeys' = {}  BY <2>1, <2>2 DEF SelKeys
      <3>2. QED  BY <3>1, <2>1, <2>2 DEF InStep
    <2>6. QED  BY <2>1, <2>2, <2>4, <2>5 DEF Statement, ChatIDsStay, NoNewOutcome
  <1>3. CASE tab = "document" /\ ClearDocuments
    <2>1. /\ DOMAIN chats = {} /\ DOMAIN contacts = {}
          /\ chats' = chats /\ contacts' = contacts /\ DOMAIN documents' = DOMAIN documents
      BY <1>3 DEF ClearDocuments, TableTypes, OneTable
    <2>2. \A d \in DOMAIN documents :
            /\ documents'[d] \in DocumentRows /\ ~documents'[d].selected
            /\ documents'[d].synced = documents[d].synced
            /\ documents'[d].error = documents[d].error
      BY <1>3 DEF ClearDocuments, TableTypes, DocumentRows
    <2>3. documents' \in [DOMAIN documents' -> DocumentRows]
      BY <1>3, <2>1, <2>2 DEF ClearDocuments
    <2>4. TableTypes'  BY <1>3, <2>1, <2>3 DEF TableTypes, OneTable, tab
    <2>5. SelKeys' = {} /\ InStep'
      <3>1. SelKeys' = {}  BY <2>1, <2>2 DEF SelKeys
      <3>2. QED  BY <3>1, <2>1, <2>2 DEF InStep
    <2>6. QED  BY <2>1, <2>2, <2>4, <2>5 DEF Statement, ChatIDsStay, NoNewOutcome
  <1>4. QED  BY <1>1, <1>2, <1>3 DEF ClearSelected

\* A row of chats is written.
LEMMA ChatWritten ==
  ASSUME TableTypes, UNCHANGED scenario, tab = "chat", NEW g \in Groups, NEW row \in ChatRows,
         chats' = Put(chats, g, row), UNCHANGED <<contacts, documents>>
  PROVE  /\ Statement
         /\ SelKeys' = IF row.selected THEN SelKeys \cup {g} ELSE SelKeys \ {g}
         /\ row.sync = row.selected /\ InStep => InStep'
  <1>1. /\ DOMAIN contacts = {} /\ DOMAIN documents = {}
        /\ DOMAIN contacts' = {} /\ DOMAIN documents' = {}
    BY DEF TableTypes, OneTable
  <1>2. /\ DOMAIN chats' = DOMAIN chats \cup {g} /\ chats' \in [DOMAIN chats' -> ChatRows]
        /\ chats'[g] = row /\ \A h \in DOMAIN chats : h # g => chats'[h] = chats[h]
    <2>1. chats \in [DOMAIN chats -> ChatRows]  BY DEF TableTypes
    <2>2. /\ DOMAIN Put(chats, g, row) = DOMAIN chats \cup {g}
          /\ Put(chats, g, row) \in [DOMAIN Put(chats, g, row) -> ChatRows]
          /\ Put(chats, g, row)[g] = row
          /\ \A j \in DOMAIN chats : j # g => Put(chats, g, row)[j] = chats[j]
      BY <2>1 DEF Put
    <2>3. QED  BY <2>2
  <1>3. TableTypes'  BY <1>1, <1>2 DEF TableTypes, OneTable, tab
  <1>4. SelKeys' = IF row.selected THEN SelKeys \cup {g} ELSE SelKeys \ {g}
    BY <1>1, <1>2 DEF SelKeys
  <1>5. row.sync = row.selected /\ InStep => InStep'  BY <1>2 DEF InStep
  <1>6. QED  BY <1>1, <1>3, <1>4, <1>5 DEF Statement, ChatIDsStay, NoNewOutcome

\* A row of contacts is written, with the chat id that was there unless it has one.
LEMMA ContactWritten ==
  ASSUME TableTypes, UNCHANGED scenario, tab = "contact", NEW k, NEW row \in ContactRows,
         Key(row.who) = k, contacts' = Put(contacts, k, row), UNCHANGED <<chats, documents>>,
         k \in DOMAIN contacts /\ contacts[k].chat # NoChat => row.chat # NoChat
  PROVE  /\ Statement
         /\ SelKeys' = IF row.selected THEN SelKeys \cup {k} ELSE SelKeys \ {k}
         /\ InStep => InStep'
  <1>1. /\ DOMAIN chats = {} /\ DOMAIN documents = {}
        /\ DOMAIN chats' = {} /\ DOMAIN documents' = {}
    BY DEF TableTypes, OneTable
  <1>2. /\ DOMAIN contacts' = DOMAIN contacts \cup {k}
        /\ contacts' \in [DOMAIN contacts' -> ContactRows]
        /\ contacts'[k] = row /\ \A j \in DOMAIN contacts : j # k => contacts'[j] = contacts[j]
    <2>1. contacts \in [DOMAIN contacts -> ContactRows]  BY DEF TableTypes
    <2>2. /\ DOMAIN Put(contacts, k, row) = DOMAIN contacts \cup {k}
          /\ Put(contacts, k, row) \in [DOMAIN Put(contacts, k, row) -> ContactRows]
          /\ Put(contacts, k, row)[k] = row
          /\ \A j \in DOMAIN contacts : j # k => Put(contacts, k, row)[j] = contacts[j]
      BY <2>1 DEF Put
    <2>3. QED  BY <2>2
  <1>3. TableTypes'  BY <1>1, <1>2 DEF TableTypes, OneTable, tab
  <1>4. SelKeys' = IF row.selected THEN SelKeys \cup {k} ELSE SelKeys \ {k}
    BY <1>1, <1>2 DEF SelKeys
  <1>5. QED  BY <1>1, <1>2, <1>3, <1>4 DEF Statement, ChatIDsStay, NoNewOutcome, InStep

\* A row of documents is written, with the outcome that was there.
LEMMA DocumentWritten ==
  ASSUME TableTypes, UNCHANGED scenario, tab = "document", NEW d \in Docs, NEW row \in DocumentRows,
         documents' = Put(documents, d, row), UNCHANGED <<chats, contacts>>,
         row.synced /\ ~row.error =>
           d \in DOMAIN documents /\ documents[d].synced /\ ~documents[d].error
  PROVE  /\ Statement
         /\ SelKeys' = IF row.selected THEN SelKeys \cup {d} ELSE SelKeys \ {d}
         /\ InStep => InStep'
  <1>1. /\ DOMAIN chats = {} /\ DOMAIN contacts = {}
        /\ DOMAIN chats' = {} /\ DOMAIN contacts' = {}
    BY DEF TableTypes, OneTable
  <1>2. /\ DOMAIN documents' = DOMAIN documents \cup {d}
        /\ documents' \in [DOMAIN documents' -> DocumentRows]
        /\ documents'[d] = row /\ \A e \in DOMAIN documents : e # d => documents'[e] = documents[e]
    <2>1. documents \in [DOMAIN documents -> DocumentRows]  BY DEF TableTypes
    <2>2. /\ DOMAIN Put(documents, d, row) = DOMAIN documents \cup {d}
          /\ Put(documents, d, row) \in [DOMAIN Put(documents, d, row) -> DocumentRows]
          /\ Put(documents, d, row)[d] = row
          /\ \A j \in DOMAIN documents : j # d => Put(documents, d, row)[j] = documents[j]
      BY <2>1 DEF Put
    <2>3. QED  BY <2>2
  <1>3. TableTypes'  BY <1>1, <1>2 DEF TableTypes, OneTable, tab
  <1>4. SelKeys' = IF row.selected THEN SelKeys \cup {d} ELSE SelKeys \ {d}
    BY <1>1, <1>2 DEF SelKeys
  <1>5. QED  BY <1>1, <1>2, <1>3, <1>4 DEF Statement, ChatIDsStay, NoNewOutcome, InStep

\* What SaveSelected* and the listings are given.
LEMMA ChatKept ==
  ASSUME TableTypes, NEW item \in Items
  PROVE  /\ ChatOrKept(item) \in ChatIDs \cup {NoChat}
         /\ Key(item.who) \in DOMAIN contacts /\ contacts[Key(item.who)].chat # NoChat
              => ChatOrKept(item) # NoChat
  <1>1. item.chat \in ChatIDs \cup {NoChat}  BY DEF Items
  <1>2. \A k \in DOMAIN contacts : contacts[k].chat \in ChatIDs \cup {NoChat}
    BY DEF TableTypes, ContactRows
  <1>3. QED  BY <1>1, <1>2 DEF ChatOrKept

LEMMA SaveEffect ==
  ASSUME TableTypes, scenario \in Scenarios, UNCHANGED scenario,
         NEW item \in Items, item.who \in Remote, SaveItem(item)
  PROVE  Statement /\ SelKeys' = SelKeys \cup {Key(item.who)} /\ (InStep => InStep')
  <1>1. CASE tab = "chat" /\ UpsertChat(item.who, TRUE, TRUE, FALSE)
    <2> DEFINE row == [selected |-> TRUE, sync |-> TRUE, auto |-> FALSE]
    <2>1. item.who \in Groups /\ Key(item.who) = item.who  BY <1>1, TabFacts, KeyFacts
    <2>2. row \in ChatRows /\ row.selected /\ row.sync = row.selected  BY DEF ChatRows
    <2>3. chats' = Put(chats, item.who, row) /\ UNCHANGED <<contacts, documents>>
      BY <1>1 DEF UpsertChat
    <2> HIDE DEF row
    <2>4. QED  BY <1>1, <2>1, <2>2, <2>3, ChatWritten
  <1>2. CASE tab = "contact" /\ SaveContact(item)
    <2> DEFINE row == [who |-> item.who, selected |-> TRUE, chat |-> ChatOrKept(item)]
    <2>1. item.who \in Persons  BY <1>2, TabFacts
    <2>2. /\ row \in ContactRows /\ row.selected /\ row.who = item.who
          /\ row.chat = ChatOrKept(item)
      BY <2>1, ChatKept DEF ContactRows
    <2>3. contacts' = Put(contacts, Key(item.who), row) /\ UNCHANGED <<chats, documents>>
      BY <1>2 DEF SaveContact
    <2> HIDE DEF row
    <2>4. QED  BY <1>2, <2>2, <2>3, ChatKept, ContactWritten
  <1>3. CASE tab = "document" /\ SaveDocument(item)
    <2> DEFINE row == IF item.who \in DOMAIN documents
                        THEN [documents[item.who] EXCEPT !.selected = TRUE]
                        ELSE [selected |-> TRUE, synced |-> FALSE, error |-> FALSE]
    <2>1. item.who \in Docs /\ Key(item.who) = item.who  BY <1>3, TabFacts, KeyFacts
    <2>2. /\ row \in DocumentRows /\ row.selected
          /\ row.synced /\ ~row.error =>
               item.who \in DOMAIN documents /\ documents[item.who].synced
               /\ ~documents[item.who].error
      BY <2>1 DEF DocumentRows, TableTypes
    <2>3. documents' = Put(documents, item.who, row) /\ UNCHANGED <<chats, contacts>>
      BY <1>3 DEF SaveDocument
    <2> HIDE DEF row
    <2>4. QED  BY <1>3, <2>1, <2>2, <2>3, DocumentWritten
  <1>4. QED  BY <1>1, <1>2, <1>3 DEF SaveItem

LEMMA CacheEffect ==
  ASSUME TableTypes, scenario \in Scenarios, UNCHANGED scenario,
         NEW item \in Items, item.who \in Remote, CacheItem(item)
  PROVE  Statement /\ SelKeys' = SelKeys /\ (InStep => InStep')
  <1>1. CASE tab = "chat" /\ CacheChat(item)
    <2> DEFINE row == [selected |-> FALSE, sync |-> FALSE, auto |-> FALSE]
    <2>1. item.who \in Groups  BY <1>1, TabFacts
    <2>2. row \in ChatRows /\ ~row.selected /\ row.sync = row.selected  BY DEF ChatRows
    <2>3. CASE item.who \in DOMAIN chats
      BY <1>1, <2>3, NoStatement DEF CacheChat, tables
    <2>4. CASE item.who \notin DOMAIN chats
      <3>1. chats' = Put(chats, item.who, row) /\ UNCHANGED <<contacts, documents>>
        BY <1>1, <2>4 DEF CacheChat
      <3>2. item.who \notin SelKeys
        BY <1>1, <2>4 DEF SelKeys, TableTypes, OneTable
      <3> HIDE DEF row
      <3>3. QED  BY <1>1, <2>1, <2>2, <3>1, <3>2, ChatWritten
    <2>5. QED  BY <2>3, <2>4
  <1>2. CASE tab = "contact" /\ CacheContact(item)
    <2> DEFINE k == Key(item.who)
               row == [who |-> item.who, chat |-> ChatOrKept(item),
                       selected |-> k \in DOMAIN contacts /\ contacts[k].selected]
    <2>1. item.who \in Persons  BY <1>2, TabFacts
    <2>2. /\ row \in ContactRows /\ row.who = item.who /\ row.chat = ChatOrKept(item)
          /\ row.selected <=> k \in DOMAIN contacts /\ contacts[k].selected
      BY <2>1, ChatKept DEF ContactRows
    <2>3. contacts' = Put(contacts, k, row) /\ UNCHANGED <<chats, documents>>
      BY <1>2 DEF CacheContact
    <2>4. row.selected <=> k \in SelKeys
      BY <1>2, <2>2 DEF SelKeys, TableTypes, OneTable
    <2> HIDE DEF row
    <2>5. QED  BY <1>2, <2>2, <2>3, <2>4, ChatKept, ContactWritten
  <1>3. CASE tab = "document" /\ CacheDocument(item)
    <2> DEFINE row == [selected |-> FALSE, synced |-> FALSE, error |-> FALSE]
    <2>1. item.who \in Docs  BY <1>3, TabFacts
    <2>2. row \in DocumentRows /\ ~row.selected /\ ~row.synced  BY DEF DocumentRows
    <2>3. CASE item.who \in DOMAIN documents
      BY <1>3, <2>3, NoStatement DEF CacheDocument, tables
    <2>4. CASE item.who \notin DOMAIN documents
      <3>1. documents' = Put(documents, item.who, row) /\ UNCHANGED <<chats, contacts>>
        BY <1>3, <2>4 DEF CacheDocument
      <3>2. item.who \notin SelKeys
        BY <1>3, <2>4 DEF SelKeys, TableTypes, OneTable
      <3> HIDE DEF row
      <3>3. QED  BY <1>3, <2>1, <2>2, <3>1, <3>2, DocumentWritten
    <2>5. QED  BY <2>3, <2>4
  <1>4. QED  BY <1>1, <1>2, <1>3 DEF CacheItem

\* The chat id that a resolve or a round found.
LEMMA ChatIDEffect ==
  ASSUME TableTypes, UNCHANGED scenario, NEW p, NEW id \in ChatIDs, SaveContactChatID(p, id)
  PROVE  /\ Statement /\ SelKeys' = SelKeys /\ (InStep => InStep')
         /\ p \in HasOpenID /\ p \in DOMAIN contacts => Known(p)'
  <1>1. CASE p \in HasOpenID /\ p \in DOMAIN contacts
    <2>1. /\ contacts' = [contacts EXCEPT ![p].chat = id] /\ UNCHANGED <<chats, documents>>
          /\ DOMAIN contacts' = DOMAIN contacts
      BY <1>1 DEF SaveContactChatID
    <2>2. \A k \in DOMAIN contacts :
            /\ contacts'[k] \in ContactRows /\ contacts'[k].who = contacts[k].who
            /\ contacts'[k].selected = contacts[k].selected
            /\ contacts'[k].chat = IF k = p THEN id ELSE contacts[k].chat
      BY <1>1, <2>1 DEF TableTypes, ContactRows
    <2>3. contacts' \in [DOMAIN contacts' -> ContactRows]
      BY <2>1, <2>2
    <2>4. TableTypes'  BY <2>1, <2>2, <2>3 DEF TableTypes, OneTable, tab
    <2>5. SelKeys' = SelKeys  BY <2>1, <2>2 DEF SelKeys
    <2>6. InStep => InStep'  BY <2>1 DEF InStep
    <2>7. id # NoChat  BY SourcesAssumption
    <2>8. ChatIDsStay  BY <2>1, <2>2, <2>7 DEF ChatIDsStay
    <2>9. NoNewOutcome  BY <2>1 DEF NoNewOutcome
    <2>10. Known(p)'  BY <1>1, <2>1, <2>2, <2>7 DEF Known
    <2>11. QED  BY <2>4, <2>5, <2>6, <2>8, <2>9, <2>10 DEF Statement
  <1>2. CASE ~(p \in HasOpenID /\ p \in DOMAIN contacts)
    BY <1>2, NoStatement DEF SaveContactChatID, tables
  <1>3. QED  BY <1>1, <1>2

\* The outcome of a sync, the only statement that sets one.
LEMMA RecordEffect ==
  ASSUME TableTypes, UNCHANGED <<scenario, chats, contacts>>, NEW d, NEW failed \in BOOLEAN,
         SaveDocumentSyncResult(d, failed)
  PROVE  /\ TableTypes' /\ ChatIDsStay /\ SelKeys' = SelKeys /\ (InStep => InStep')
         /\ DOMAIN documents' = DOMAIN documents
         /\ \A e \in DOMAIN documents : e # d => documents'[e] = documents[e]
         /\ d \in DOMAIN documents => (documents'[d].error <=> failed)
  <1>1. /\ documents' = [documents EXCEPT ![d].synced = documents[d].synced \/ ~failed, ![d].error = failed]
        /\ DOMAIN documents' = DOMAIN documents
    BY DEF SaveDocumentSyncResult
  <1>2. \A e \in DOMAIN documents :
          /\ documents'[e] \in DocumentRows
          /\ documents'[e].selected = documents[e].selected
          /\ e # d => documents'[e] = documents[e]
          /\ e = d => (documents'[e].error <=> failed)
    <2>1. \A e \in DOMAIN documents : e # d => documents'[e] = documents[e]  BY <1>1
    <2>2. \A e \in DOMAIN documents : documents[e] \in DocumentRows  BY DEF TableTypes
    <2>3. ASSUME d \in DOMAIN documents
          PROVE  /\ documents'[d] \in DocumentRows
                 /\ documents'[d].selected = documents[d].selected
                 /\ documents'[d].error <=> failed
      <3> DEFINE row == [documents[d] EXCEPT !.synced = documents[d].synced \/ ~failed,
                                             !.error = failed]
      <3>1. documents'[d] = row  BY <1>1, <2>3
      <3>2. documents[d] \in DocumentRows  BY <2>2, <2>3
      <3>3. /\ row \in DocumentRows /\ row.selected = documents[d].selected
            /\ row.error <=> failed
        BY <3>2 DEF DocumentRows
      <3>4. QED  BY <3>1, <3>3
    <2>4. QED  BY <2>1, <2>2, <2>3
  <1>3. documents' \in [DOMAIN documents' -> DocumentRows]  BY <1>1, <1>2
  <1>4. TableTypes'  BY <1>1, <1>2, <1>3 DEF TableTypes, OneTable, tab
  <1>5. SelKeys' = SelKeys  BY <1>1, <1>2 DEF SelKeys
  <1>6. QED  BY <1>1, <1>2, <1>4, <1>5 DEF ChatIDsStay, InStep

-----------------------------------------------------------------------------
(* What a request can become *)

LEMMA SameTable ==
  ASSUME UNCHANGED scenario
  PROVE  Remote' = Remote /\ tab' = tab
  BY DEF Remote, tab

LEMMA RequestFacts ==
  ASSUME RequestTypes, NEW a \in Actors
  PROVE  req[a] \in Requests /\ RequestOK(req[a])
  BY DEF RequestTypes

LEMMA WhoMonotone ==
  ASSUME NEW rows, NEW more, rows \subseteq more
  PROVE  Who(rows) \subseteq Who(more)
  BY DEF Who

LEMMA GotoMove ==
  ASSUME RequestTypes, NEW a \in Actors, NEW label, Goto(a, label),
         \/ label = "upsert" /\ req[a].kind = "save"
         \/ label = "list" /\ req[a].kind = "load"
  PROVE  \E y \in Requests :
           /\ RequestOK(y) /\ req' = [req EXCEPT ![a] = y] /\ y.pc = label
           /\ y.kind = req[a].kind /\ y.alone = req[a].alone /\ y.todo = req[a].todo
           /\ y.posted = req[a].posted /\ y.answer = req[a].answer
  <1> DEFINE y == [req[a] EXCEPT !.pc = label]
  <1>1. req' = [req EXCEPT ![a] = y]  BY DEF Goto
  <1>2. req[a] \in Requests /\ RequestOK(req[a])  BY RequestFacts
  <1>3. /\ y \in Requests /\ y.kind = req[a].kind /\ y.alone = req[a].alone /\ y.pc = label
        /\ y.todo = req[a].todo /\ y.posted = req[a].posted /\ y.answer = req[a].answer
    BY <1>2 DEF Requests
  <1> HIDE DEF y
  <1>4. RequestOK(y)  BY <1>2, <1>3 DEF RequestOK
  <1>5. QED  BY <1>1, <1>3, <1>4

LEMMA AnswerMove ==
  ASSUME RequestTypes, NEW a \in Actors, NEW label \in {"ok", "failed"},
         NEW rows \in SUBSET Items, Who(rows) \subseteq Remote, Answer(a, label, rows),
         req[a].pc \notin {"idle", "match"}
  PROVE  \E y \in Requests :
           /\ RequestOK(y) /\ req' = [req EXCEPT ![a] = y] /\ y.pc = label
           /\ y.kind = req[a].kind /\ y.alone = req[a].alone /\ y.todo = {}
           /\ y.posted = req[a].posted /\ y.answer = rows
  <1> DEFINE y == [req[a] EXCEPT !.pc = label, !.answer = rows, !.todo = {}]
  <1>1. req' = [req EXCEPT ![a] = y]  BY DEF Answer
  <1>2. req[a] \in Requests /\ RequestOK(req[a])  BY RequestFacts
  <1>3. /\ y \in Requests /\ y.kind = req[a].kind /\ y.alone = req[a].alone /\ y.pc = label
        /\ y.todo = {} /\ y.posted = req[a].posted /\ y.answer = rows
    BY <1>2 DEF Requests
  <1> HIDE DEF y
  <1>4. Who({}) \subseteq Remote  BY DEF Who
  <1>5. RequestOK(y)  BY <1>2, <1>3, <1>4 DEF RequestOK
  <1>6. QED  BY <1>1, <1>3, <1>5

\* One of its items is done.
ItemDone(a, item) == req' = [req EXCEPT ![a].todo = @ \ {item}]

LEMMA TodoMove ==
  ASSUME RequestTypes, NEW a \in Actors, NEW item \in req[a].todo, ~At(a, "clear"),
         ItemDone(a, item)
  PROVE  \E y \in Requests :
           /\ RequestOK(y) /\ req' = [req EXCEPT ![a] = y] /\ y.pc = req[a].pc
           /\ y.kind = req[a].kind /\ y.alone = req[a].alone /\ y.todo = req[a].todo \ {item}
           /\ y.posted = req[a].posted /\ y.answer = req[a].answer
  <1> DEFINE y == [req[a] EXCEPT !.todo = req[a].todo \ {item}]
  <1>1. req' = [req EXCEPT ![a] = y]  BY DEF ItemDone
  <1>2. req[a] \in Requests /\ RequestOK(req[a])  BY RequestFacts
  <1>3. /\ y \in Requests /\ y.kind = req[a].kind /\ y.alone = req[a].alone /\ y.pc = req[a].pc
        /\ y.todo = req[a].todo \ {item} /\ y.posted = req[a].posted
        /\ y.answer = req[a].answer /\ y.unsettled = req[a].unsettled
    BY <1>2 DEF Requests
  <1> HIDE DEF y
  <1>4. Who(y.todo) \subseteq Who(req[a].todo)  BY <1>3, WhoMonotone
  <1>5. RequestOK(y)  BY <1>2, <1>3, <1>4 DEF RequestOK, At
  <1>6. QED  BY <1>1, <1>3, <1>5

\* It goes on with new items.
GoesOn(a, label, rows) == req' = [req EXCEPT ![a].pc = label, ![a].todo = rows]

LEMMA ListMove ==
  ASSUME RequestTypes, NEW a \in Actors, NEW label \in {"cache", "send", "match"}, NEW rows \in SUBSET Items,
         Who(rows) \subseteq Remote,
         GoesOn(a, label, rows),
         label = "cache" => req[a].kind = "load",
         label = "send" => req[a].kind = "resolve",
         label = "match" => req[a].kind = "match"
  PROVE  \E y \in Requests :
           /\ RequestOK(y) /\ req' = [req EXCEPT ![a] = y] /\ y.pc = label
           /\ y.kind = req[a].kind /\ y.alone = req[a].alone /\ y.todo = rows
           /\ y.posted = req[a].posted /\ y.answer = req[a].answer
  <1> DEFINE y == [req[a] EXCEPT !.pc = label, !.todo = rows]
  <1>1. req' = [req EXCEPT ![a] = y]  BY DEF GoesOn
  <1>2. req[a] \in Requests /\ RequestOK(req[a])  BY RequestFacts
  <1>3. /\ y \in Requests /\ y.kind = req[a].kind /\ y.alone = req[a].alone /\ y.pc = label
        /\ y.todo = rows /\ y.posted = req[a].posted /\ y.answer = req[a].answer
    BY <1>2 DEF Requests
  <1> HIDE DEF y
  <1>4. RequestOK(y)  BY <1>2, <1>3 DEF RequestOK
  <1>5. QED  BY <1>1, <1>3, <1>4

-----------------------------------------------------------------------------
(* The steps of the handlers and rounds *)

Keys(rows) == {Key(row.who) : row \in rows}

\* The selection is what save y has written so far.
SelectedBy(y) == SelKeys = Keys(y.posted \ y.todo) /\ InStep

\* What every step of a handler is: request a becomes y, by a statement or none.
Handled(a, y) ==
  /\ RequestOK(y) /\ req' = [req EXCEPT ![a] = y]
  /\ req[a].pc \notin {"idle", "sync", "ok", "failed"}
  /\ \/ y.kind = req[a].kind /\ y.alone = req[a].alone
     \/ y = NoRequest /\ req[a].kind = "match"
  /\ y.kind = "save" => y.posted = req[a].posted
  /\ y.answer \in {req[a].answer, {}, ListCached}
  /\ UNCHANGED <<scenario, requests>>
  /\ greeted' \in [Persons -> Nat] /\ excused \subseteq excused' /\ excused' \subseteq Persons
  /\ req[a].kind # "resolve" => UNCHANGED unseen
  /\ Statement
  /\ req[a].kind # "save" => SelKeys' = SelKeys /\ (InStep => InStep')
  /\ SelKeys' \subseteq SelKeys \cup Keys(req[a].posted)
  /\ y.kind = "save" /\ y.pc \in {"upsert", "ok"} =>
       ((req[a].pc = "clear" \/ SelectedBy(req[a])) => SelectedBy(y)')

LEMMA HandlerFacts ==
  ASSUME Shapes, NEW a \in Actors
  PROVE  /\ TableTypes /\ RequestTypes /\ scenario \in Scenarios
         /\ greeted \in [Persons -> Nat] /\ excused \subseteq Persons
         /\ req[a] \in Requests /\ RequestOK(req[a])
         /\ \A item \in req[a].todo \cup req[a].posted : item \in Items /\ item.who \in Remote
  <1>1. RequestTypes /\ req[a] \in Requests /\ RequestOK(req[a])
    BY RequestFacts DEF Shapes
  <1>2. \A item \in req[a].todo \cup req[a].posted : item \in Items /\ item.who \in Remote
    BY <1>1 DEF RequestOK, Requests, Who
  <1>3. QED  BY <1>1, <1>2 DEF Shapes, CountTypes

LEMMA ClearStep ==
  ASSUME Shapes, NEW a \in Actors, Clear(a)
  PROVE  \E y \in Requests : Handled(a, y)
  <1>1. /\ req[a].pc = "clear" /\ ClearSelected /\ Goto(a, "upsert")
        /\ UNCHANGED <<scenario, requests, unseen>>
    BY DEF Clear, At
  <1>2. req[a].kind = "save" /\ req[a].todo = req[a].posted
    BY <1>1, HandlerFacts DEF RequestOK
  <1>3. PICK y \in Requests :
           /\ RequestOK(y) /\ req' = [req EXCEPT ![a] = y] /\ y.pc = "upsert"
           /\ y.kind = req[a].kind /\ y.alone = req[a].alone /\ y.todo = req[a].todo
           /\ y.posted = req[a].posted /\ y.answer = req[a].answer
    BY <1>1, <1>2, HandlerFacts, GotoMove
  <1>4. Statement /\ SelKeys' = {} /\ InStep'  BY <1>1, HandlerFacts, ClearEffect
  <1>5. SelectedBy(y)'  BY <1>2, <1>3, <1>4 DEF SelectedBy, Keys
  <1>6. QED  BY <1>1, <1>2, <1>3, <1>4, <1>5, HandlerFacts DEF Handled, unseen

LEMMA SaveOneStep ==
  ASSUME Shapes, NEW a \in Actors, SaveOne(a)
  PROVE  \E y \in Requests : Handled(a, y)
  <1>1. PICK item \in req[a].todo :
          /\ req[a].pc = "upsert" /\ ~At(a, "clear") /\ SaveItem(item)
          /\ ItemDone(a, item)
          /\ UNCHANGED <<scenario, requests, unseen>>
    BY DEF SaveOne, At, ItemDone
  <1>2. req[a].kind = "save" /\ req[a].todo \subseteq req[a].posted
    BY <1>1, HandlerFacts DEF RequestOK
  <1>3. PICK y \in Requests :
           /\ RequestOK(y) /\ req' = [req EXCEPT ![a] = y] /\ y.pc = req[a].pc
           /\ y.kind = req[a].kind /\ y.alone = req[a].alone /\ y.todo = req[a].todo \ {item}
           /\ y.posted = req[a].posted /\ y.answer = req[a].answer
    BY <1>1, HandlerFacts, TodoMove
  <1>4. Statement /\ SelKeys' = SelKeys \cup {Key(item.who)} /\ (InStep => InStep')
    BY <1>1, HandlerFacts, SaveEffect
  <1>5. SelectedBy(req[a]) => SelectedBy(y)'
    <2>1. Keys(y.posted \ y.todo) = Keys(req[a].posted \ req[a].todo) \cup {Key(item.who)}
      BY <1>1, <1>2, <1>3 DEF Keys
    <2>2. QED  BY <1>4, <2>1 DEF SelectedBy
  <1>6. SelKeys' \subseteq SelKeys \cup Keys(req[a].posted)
    BY <1>1, <1>2, <1>4 DEF Keys
  <1>7. QED
    BY <1>1, <1>2, <1>3, <1>4, <1>5, <1>6, HandlerFacts DEF Handled, unseen

LEMMA SaveEndsStep ==
  ASSUME Shapes, NEW a \in Actors, SaveEnds(a)
  PROVE  \E y \in Requests : Handled(a, y)
  <1>1. /\ req[a].pc = "upsert" /\ req[a].todo = {} /\ Answer(a, "ok", {})
        /\ UNCHANGED <<scenario, tables, requests, unseen>>
    BY DEF SaveEnds, At
  <1>2. req[a].kind = "save"  BY <1>1, HandlerFacts DEF RequestOK
  <1>3. PICK y \in Requests :
           /\ RequestOK(y) /\ req' = [req EXCEPT ![a] = y] /\ y.pc = "ok"
           /\ y.kind = req[a].kind /\ y.alone = req[a].alone /\ y.todo = {}
           /\ y.posted = req[a].posted /\ y.answer = {}
    <2>1. Who({}) \subseteq Remote  BY DEF Who
    <2>2. QED  BY <1>1, <2>1, HandlerFacts, AnswerMove
  <1>4. Statement /\ SelKeys' = SelKeys /\ (InStep => InStep')
    BY <1>1, HandlerFacts, NoStatement
  <1>5. SelectedBy(req[a]) => SelectedBy(y)'
    BY <1>1, <1>3, <1>4 DEF SelectedBy
  <1>6. QED  BY <1>1, <1>2, <1>3, <1>4, <1>5, HandlerFacts DEF Handled, unseen

LEMMA SaveFailsStep ==
  ASSUME Shapes, NEW a \in Actors, SaveFails(a)
  PROVE  \E y \in Requests : Handled(a, y)
  <1>1. /\ req[a].pc \in {"clear", "upsert"} /\ Answer(a, "failed", {})
        /\ UNCHANGED <<scenario, requests, unseen>>
    BY DEF SaveFails, At
  <1>2. req[a].kind = "save" /\ req[a].todo \subseteq req[a].posted
    BY <1>1, HandlerFacts DEF RequestOK
  <1>3. PICK y \in Requests :
           /\ RequestOK(y) /\ req' = [req EXCEPT ![a] = y] /\ y.pc = "failed"
           /\ y.kind = req[a].kind /\ y.alone = req[a].alone /\ y.todo = {}
           /\ y.posted = req[a].posted /\ y.answer = {}
    <2>1. Who({}) \subseteq Remote  BY DEF Who
    <2>2. QED  BY <1>1, <2>1, HandlerFacts, AnswerMove
  <1>4. Statement /\ SelKeys' \subseteq SelKeys \cup Keys(req[a].posted)
    <2>1. CASE UNCHANGED tables
      BY <1>1, <2>1, HandlerFacts, NoStatement
    <2>2. CASE ClearSelected
      BY <1>1, <2>2, HandlerFacts, ClearEffect
    <2>3. CASE \E item \in req[a].todo : SaveItem(item)
      <3>1. PICK item \in req[a].todo : SaveItem(item)  BY <2>3
      <3>2. Statement /\ SelKeys' = SelKeys \cup {Key(item.who)}
        BY <1>1, <3>1, HandlerFacts, SaveEffect
      <3>3. QED  BY <1>2, <3>2 DEF Keys
    <2>4. QED  BY <2>1, <2>2, <2>3 DEF SaveFails
  <1>5. QED  BY <1>1, <1>2, <1>3, <1>4, HandlerFacts DEF Handled, unseen

\* What Feishu, or the table, hands to a listing.
LEMMA FoundTypes ==
  ASSUME scenario \in Scenarios, NEW found,
         found \in CASE tab = "chat" -> ListUserChats
                     [] tab = "contact" -> ListDepartmentUsers \cup SearchUsers
                     [] tab = "document" -> SearchDocuments
  PROVE  found \in SUBSET Items /\ Who(found) \subseteq Remote
  <1>1. \A things \in SUBSET Things : Rows(things) \subseteq Items /\ Who(Rows(things)) \subseteq things
    <2>1. TAKE things \in SUBSET Things
    <2>2. \A w \in things : Item(w, FALSE, NoChat) \in Items /\ Item(w, FALSE, NoChat).who = w
      BY ItemType
    <2>3. QED  BY <2>2 DEF Rows, Who
  <1>2. Groups \subseteq Things /\ Persons \subseteq Things /\ Docs \subseteq Things  BY DEF Things
  <1>3. CASE tab = "chat"
    <2>1. found \in ListUserChats  BY <1>3
    <2>2. PICK things \in SUBSET Groups : found = Rows(things)  BY <2>1 DEF ListUserChats
    <2>3. QED  BY <1>1, <1>2, <1>3, <2>2, TabFacts
  <1>4. CASE tab = "document"
    <2>1. found \in SearchDocuments  BY <1>4
    <2>2. PICK things \in SUBSET Docs : found = Rows(things)  BY <2>1 DEF SearchDocuments
    <2>3. QED  BY <1>1, <1>2, <1>4, <2>2, TabFacts
  <1>5. CASE tab = "contact"
    <2>1. found \in ListDepartmentUsers \cup SearchUsers  BY <1>5
    <2>2. CASE found \in ListDepartmentUsers
      <3>1. PICK things \in SUBSET Persons : found = Rows(things)  BY <2>2 DEF ListDepartmentUsers
      <3>2. QED  BY <1>1, <1>2, <1>5, <3>1, TabFacts
    <2>3. CASE found \in SearchUsers
      <3>1. PICK things \in SUBSET Persons, known \in SUBSET Persons :
              found = PersonRows(things, known)
        BY <2>3 DEF SearchUsers
      <3> DEFINE chat(p) == IF p \in known THEN ChatOf[p] ELSE NoChat
                 row(p) == Item(p, FALSE, chat(p))
      <3>2. \A p \in things : chat(p) \in ChatIDs \cup {NoChat}
        BY SourcesAssumption
      <3>3. found = {row(p) : p \in things}  BY <3>1 DEF PersonRows
      <3> HIDE DEF chat
      <3>4. \A p \in things : row(p) \in Items /\ row(p).who = p
        BY <1>2, <3>2, ItemType
      <3> HIDE DEF row
      <3>5. QED  BY <1>5, <3>3, <3>4, TabFacts DEF Who
    <2>4. QED  BY <2>1, <2>2, <2>3
  <1>6. QED  BY <1>3, <1>4, <1>5, TabFacts

\* A step that writes nothing, or only what the listings write.
LEMMA Harmless ==
  ASSUME Shapes, NEW a \in Actors, NEW y \in Requests, RequestOK(y), req' = [req EXCEPT ![a] = y],
         req[a].pc \notin {"idle", "sync", "ok", "failed"}, req[a].kind # "save",
         \/ y.kind = req[a].kind /\ y.alone = req[a].alone
         \/ y = NoRequest /\ req[a].kind = "match",
         y.answer \in {req[a].answer, {}, ListCached},
         UNCHANGED <<scenario, requests>>,
         greeted' \in [Persons -> Nat], excused \subseteq excused', excused' \subseteq Persons,
         req[a].kind # "resolve" => UNCHANGED unseen,
         Statement, SelKeys' = SelKeys, InStep => InStep'
  PROVE  Handled(a, y)
  <1>1. y.kind # "save"  BY DEF NoRequest
  <1>2. QED  BY <1>1 DEF Handled

LEMMA FetchStep ==
  ASSUME Shapes, NEW a \in Actors, Fetch(a) \/ FetchFails(a)
  PROVE  \E y \in Requests : Handled(a, y)
  <1>1. req[a].pc = "fetch" /\ UNCHANGED <<scenario, tables, requests, unseen>>
    BY DEF Fetch, FetchFails, At
  <1>2. req[a].kind = "load"  BY <1>1, HandlerFacts DEF RequestOK
  <1>3. Statement /\ SelKeys' = SelKeys /\ (InStep => InStep')
    BY <1>1, HandlerFacts, NoStatement
  <1>4. CASE \E found \in SUBSET Items : Who(found) \subseteq Remote
               /\ GoesOn(a, "cache", found)
    <2>1. PICK found \in SUBSET Items : Who(found) \subseteq Remote
                 /\ GoesOn(a, "cache", found)
      BY <1>4
    <2>2. PICK y \in Requests :
            /\ RequestOK(y) /\ req' = [req EXCEPT ![a] = y]
            /\ y.kind = req[a].kind /\ y.alone = req[a].alone /\ y.answer = req[a].answer
      BY <1>2, <2>1, HandlerFacts, ListMove
    <2>3. Handled(a, y)  BY <1>1, <1>2, <1>3, <2>2, HandlerFacts, Harmless DEF unseen
    <2>4. QED  BY <2>3
  <1>5. CASE Answer(a, "failed", {})
    <2>1. Who({}) \subseteq Remote  BY DEF Who
    <2>2. PICK y \in Requests :
            /\ RequestOK(y) /\ req' = [req EXCEPT ![a] = y]
            /\ y.kind = req[a].kind /\ y.alone = req[a].alone /\ y.answer = {}
      BY <1>1, <1>2, <1>5, <2>1, HandlerFacts, AnswerMove
    <2>3. Handled(a, y)  BY <1>1, <1>2, <1>3, <2>2, HandlerFacts, Harmless DEF unseen
    <2>4. QED  BY <2>3
  <1>6. CASE Fetch(a)
    <2>1. PICK found \in CASE tab = "chat" -> ListUserChats
                           [] tab = "contact" -> ListDepartmentUsers \cup SearchUsers
                           [] tab = "document" -> SearchDocuments :
            GoesOn(a, "cache", found)
      BY <1>6 DEF Fetch, GoesOn
    <2>2. found \in SUBSET Items /\ Who(found) \subseteq Remote
      BY HandlerFacts, FoundTypes
    <2>3. QED  BY <1>4, <2>1, <2>2
  <1>7. CASE FetchFails(a) /\ ~Answer(a, "failed", {})
    <2>1. PICK found \in SearchCachedContacts :
            tab = "contact" /\ GoesOn(a, "cache", found)
      BY <1>7 DEF FetchFails, GoesOn
    <2>2. found \in SUBSET ListCachedContacts  BY DEF SearchCachedContacts
    <2>3. found \in SUBSET Items /\ Who(found) \subseteq Remote
      BY <2>1, <2>2, HandlerFacts, ListTypes, TabFacts, WhoMonotone
    <2>4. QED  BY <1>4, <2>1, <2>3
  <1>8. QED  BY <1>5, <1>6, <1>7

LEMMA CacheOneStep ==
  ASSUME Shapes, NEW a \in Actors, CacheOne(a)
  PROVE  \E y \in Requests : Handled(a, y)
  <1>1. PICK item \in req[a].todo :
          /\ req[a].pc = "cache" /\ ~At(a, "clear") /\ CacheItem(item)
          /\ ItemDone(a, item)
          /\ UNCHANGED <<scenario, requests, unseen>>
    BY DEF CacheOne, At, ItemDone
  <1>2. req[a].kind = "load"  BY <1>1, HandlerFacts DEF RequestOK
  <1>3. PICK y \in Requests :
           /\ RequestOK(y) /\ req' = [req EXCEPT ![a] = y]
           /\ y.kind = req[a].kind /\ y.alone = req[a].alone /\ y.answer = req[a].answer
    BY <1>1, HandlerFacts, TodoMove
  <1>4. Statement /\ SelKeys' = SelKeys /\ (InStep => InStep')
    BY <1>1, HandlerFacts, CacheEffect
  <1>5. Handled(a, y)  BY <1>1, <1>2, <1>3, <1>4, HandlerFacts, Harmless DEF unseen
  <1>6. QED  BY <1>5

LEMMA CacheEndsStep ==
  ASSUME Shapes, NEW a \in Actors, CacheEnds(a)
  PROVE  \E y \in Requests : Handled(a, y)
  <1>1. /\ req[a].pc = "cache" /\ Goto(a, "list")
        /\ UNCHANGED <<scenario, tables, requests, unseen>>
    BY DEF CacheEnds, At
  <1>2. req[a].kind = "load"  BY <1>1, HandlerFacts DEF RequestOK
  <1>3. PICK y \in Requests :
           /\ RequestOK(y) /\ req' = [req EXCEPT ![a] = y]
           /\ y.kind = req[a].kind /\ y.alone = req[a].alone /\ y.answer = req[a].answer
    BY <1>1, <1>2, HandlerFacts, GotoMove
  <1>4. Statement /\ SelKeys' = SelKeys /\ (InStep => InStep')
    BY <1>1, HandlerFacts, NoStatement
  <1>5. Handled(a, y)  BY <1>1, <1>2, <1>3, <1>4, HandlerFacts, Harmless DEF unseen
  <1>6. QED  BY <1>5

LEMMA ListStep ==
  ASSUME Shapes, NEW a \in Actors, List(a)
  PROVE  \E y \in Requests : Handled(a, y)
  <1>1. /\ req[a].pc = "list" /\ Answer(a, "ok", ListCached)
        /\ UNCHANGED <<scenario, tables, requests, unseen>>
    BY DEF List, At
  <1>2. req[a].kind \in {"load", "local"}  BY <1>1, HandlerFacts DEF RequestOK
  <1>3. ListCached \in SUBSET Items /\ Who(ListCached) \subseteq Remote
    BY HandlerFacts, ListTypes
  <1>4. PICK y \in Requests :
           /\ RequestOK(y) /\ req' = [req EXCEPT ![a] = y]
           /\ y.kind = req[a].kind /\ y.alone = req[a].alone /\ y.answer = ListCached
    BY <1>1, <1>2, <1>3, HandlerFacts, AnswerMove
  <1>5. Statement /\ SelKeys' = SelKeys /\ (InStep => InStep')
    BY <1>1, HandlerFacts, NoStatement
  <1>6. Handled(a, y)  BY <1>1, <1>2, <1>4, <1>5, HandlerFacts, Harmless DEF unseen
  <1>7. QED  BY <1>6

LEMMA ListingFailsStep ==
  ASSUME Shapes, NEW a \in Actors, ListingFails(a)
  PROVE  \E y \in Requests : Handled(a, y)
  <1>1. /\ req[a].pc \in {"list", "cache"} /\ Answer(a, "failed", {})
        /\ UNCHANGED <<scenario, requests, unseen>>
    BY DEF ListingFails, At
  <1>2. req[a].kind \in {"load", "local"}  BY <1>1, HandlerFacts DEF RequestOK
  <1>3. PICK y \in Requests :
           /\ RequestOK(y) /\ req' = [req EXCEPT ![a] = y]
           /\ y.kind = req[a].kind /\ y.alone = req[a].alone /\ y.answer = {}
    <2>1. Who({}) \subseteq Remote  BY DEF Who
    <2>2. QED  BY <1>1, <1>2, <2>1, HandlerFacts, AnswerMove
  <1>4. Statement /\ SelKeys' = SelKeys /\ (InStep => InStep')
    <2>1. CASE UNCHANGED tables  BY <1>1, <2>1, HandlerFacts, NoStatement
    <2>2. CASE \E item \in req[a].todo : CacheItem(item)
      BY <1>1, <2>2, HandlerFacts, CacheEffect
    <2>3. QED  BY <2>1, <2>2 DEF ListingFails
  <1>5. Handled(a, y)  BY <1>1, <1>2, <1>3, <1>4, HandlerFacts, Harmless DEF unseen
  <1>6. QED  BY <1>5

\* The rows that a resolve or a round picks.
LEMMA SelectedContactTypes ==
  ASSUME scenario \in Scenarios, TableTypes, tab = "contact", NEW rows, rows \subseteq ListSelectedContacts
  PROVE  rows \in SUBSET Items /\ Who(rows) \subseteq Remote
  <1>1. rows \subseteq ListCachedContacts  BY DEF ListSelectedContacts, SelectedOf
  <1>2. Who(rows) \subseteq Who(ListCachedContacts)  BY <1>1, WhoMonotone
  <1>3. QED  BY <1>1, <1>2, ListTypes, TabFacts

LEMMA ResolveListStep ==
  ASSUME Shapes, NEW a \in Actors, ResolveList(a)
  PROVE  \E y \in Requests :
           /\ Handled(a, y) /\ req[a].kind = "resolve" /\ y.pc = "send" /\ y.kind = "resolve"
           /\ y.todo = {i \in ListSelectedContacts : i.chat = NoChat /\ i.who \in HasOpenID}
           /\ UNCHANGED <<tables, unseen>>
  <1> DEFINE rows == {i \in ListSelectedContacts : i.chat = NoChat /\ i.who \in HasOpenID}
  <1>1. /\ req[a].pc = "selected" /\ req[a].kind = "resolve"
        /\ GoesOn(a, "send", rows)
        /\ UNCHANGED <<scenario, tables, requests, unseen>>
    BY DEF ResolveList, At, GoesOn
  <1>2. rows \in SUBSET Items /\ Who(rows) \subseteq Remote
    BY <1>1, HandlerFacts, SelectedContactTypes DEF RequestOK
  <1> HIDE DEF rows
  <1>3. PICK y \in Requests :
          /\ RequestOK(y) /\ req' = [req EXCEPT ![a] = y] /\ y.pc = "send"
          /\ y.kind = req[a].kind /\ y.alone = req[a].alone /\ y.todo = rows
          /\ y.posted = req[a].posted /\ y.answer = req[a].answer
    <2>1. RequestTypes  BY HandlerFacts
    <2>2. rows \in SUBSET Items /\ Who(rows) \subseteq Remote /\ req[a].kind = "resolve"
          /\ GoesOn(a, "send", rows)
      BY <1>1, <1>2
    <2>3. QED  BY <2>1, <2>2, ListMove
  <1>4. Statement /\ SelKeys' = SelKeys /\ (InStep => InStep')
    BY <1>1, HandlerFacts, NoStatement
  <1>5. Handled(a, y)  BY <1>1, <1>3, <1>4, HandlerFacts, Harmless DEF unseen
  <1>6. QED  BY <1>1, <1>3, <1>5 DEF rows

LEMMA GreetedTypes ==
  ASSUME greeted \in [Persons -> Nat], NEW p \in Persons,
         greeted' = [greeted EXCEPT ![p] = @ + 1]
  PROVE  /\ greeted' \in [Persons -> Nat] /\ greeted'[p] = greeted[p] + 1
         /\ \A q \in Persons : q # p => greeted'[q] = greeted[q]
  OBVIOUS

LEMMA SendStep ==
  ASSUME Shapes, NEW a \in Actors, Send(a)
  PROVE  \E y \in Requests : \E item \in req[a].todo :
           /\ Handled(a, y) /\ req[a].pc = "send" /\ y.pc = "save" /\ y.kind = "resolve"
           /\ y.todo = req[a].todo \ {item} /\ y.posted = {item} /\ item.who \in Persons
           /\ greeted' = [greeted EXCEPT ![item.who] = @ + 1]
           /\ UNCHANGED <<tables, excused>>
  <1>1. PICK item \in req[a].todo :
          /\ req[a].pc = "send" /\ greeted' = [greeted EXCEPT ![item.who] = @ + 1]
          /\ req' = [req EXCEPT ![a].pc = "save", ![a].todo = @ \ {item},
                                ![a].posted = {item}, ![a].unsettled = ChatOf[item.who]]
          /\ UNCHANGED <<scenario, tables, requests, excused>>
    BY DEF Send, At
  <1>2. req[a].kind = "resolve" /\ tab = "contact"  BY <1>1, HandlerFacts DEF RequestOK
  <1>3. item \in Items /\ item.who \in Remote /\ item.who \in Persons
    BY <1>2, HandlerFacts, TabFacts
  <1>4. ChatOf[item.who] \in ChatIDs /\ ChatOf[item.who] # NoChat
    BY <1>3, SourcesAssumption
  <1> DEFINE y == [req[a] EXCEPT !.pc = "save", !.todo = req[a].todo \ {item},
                                 !.posted = {item}, !.unsettled = ChatOf[item.who]]
  <1>5. req' = [req EXCEPT ![a] = y]  BY <1>1
  <1>6. /\ y \in Requests /\ y.pc = "save" /\ y.kind = "resolve" /\ y.alone = req[a].alone
        /\ y.todo = req[a].todo \ {item} /\ y.posted = {item} /\ y.answer = req[a].answer
        /\ y.unsettled = ChatOf[item.who]
    BY <1>2, <1>3, <1>4, HandlerFacts DEF Requests
  <1> HIDE DEF y
  <1>7. RequestOK(y)
    <2>1. Who(y.todo) \subseteq Who(req[a].todo)  BY <1>6, WhoMonotone
    <2>2. Who(y.posted) \subseteq Remote  BY <1>3, <1>6 DEF Who
    <2>3. QED  BY <1>2, <1>3, <1>4, <1>6, <2>1, <2>2, HandlerFacts DEF RequestOK
  <1>8. Statement /\ SelKeys' = SelKeys /\ (InStep => InStep')
    BY <1>1, HandlerFacts, NoStatement
  <1>9. greeted' \in [Persons -> Nat]  BY <1>1, <1>3, HandlerFacts, GreetedTypes
  <1>10. Handled(a, y)
    BY <1>1, <1>2, <1>5, <1>6, <1>7, <1>8, <1>9, HandlerFacts, Harmless
  <1>11. QED  BY <1>1, <1>3, <1>6, <1>10

LEMMA SendFailsStep ==
  ASSUME Shapes, NEW a \in Actors, SendFails(a)
  PROVE  \E y \in Requests : \E item \in req[a].todo :
           /\ Handled(a, y) /\ req[a].pc = "send" /\ y.pc = "send" /\ y.kind = "resolve"
           /\ y.todo = req[a].todo \ {item} /\ item.who \in Persons
           /\ greeted' = [greeted EXCEPT ![item.who] = @ + 1] \/ UNCHANGED greeted
           /\ excused' = excused \cup {item.who}
           /\ UNCHANGED tables
  <1>1. PICK item \in req[a].todo :
          /\ req[a].pc = "send" /\ ~At(a, "clear")
          /\ greeted' = [greeted EXCEPT ![item.who] = @ + 1] \/ UNCHANGED greeted
          /\ excused' = excused \cup {item.who}
          /\ ItemDone(a, item)
          /\ UNCHANGED <<scenario, tables, requests>>
    BY DEF SendFails, At, ItemDone
  <1>2. req[a].kind = "resolve" /\ tab = "contact"  BY <1>1, HandlerFacts DEF RequestOK
  <1>3. item.who \in Persons  BY <1>2, HandlerFacts, TabFacts
  <1>4. PICK y \in Requests :
           /\ RequestOK(y) /\ req' = [req EXCEPT ![a] = y] /\ y.pc = req[a].pc
           /\ y.kind = req[a].kind /\ y.alone = req[a].alone /\ y.todo = req[a].todo \ {item}
           /\ y.answer = req[a].answer
    <2>1. RequestTypes  BY HandlerFacts
    <2>2. QED  BY <1>1, <2>1, TodoMove
  <1>5. Statement /\ SelKeys' = SelKeys /\ (InStep => InStep')
    BY <1>1, HandlerFacts, NoStatement
  <1>6. greeted' \in [Persons -> Nat]  BY <1>1, <1>3, HandlerFacts, GreetedTypes
  <1>7. excused \subseteq excused' /\ excused' \subseteq Persons  BY <1>1, <1>3, HandlerFacts
  <1>8. Handled(a, y)
    BY <1>1, <1>2, <1>4, <1>5, <1>6, <1>7, HandlerFacts, Harmless
  <1>9. QED  BY <1>1, <1>2, <1>3, <1>4, <1>8

\* The message has been seen to be sent: whether the chat id is saved or not, the loop goes on.
LEMMA SaveMove ==
  ASSUME RequestTypes, NEW a \in Actors, req[a].pc = "save",
         req' = [req EXCEPT ![a].pc = "send", ![a].posted = {}, ![a].unsettled = NoChat]
  PROVE  \E y \in Requests :
           /\ RequestOK(y) /\ req' = [req EXCEPT ![a] = y] /\ y.pc = "send"
           /\ y.kind = req[a].kind /\ y.alone = req[a].alone /\ y.todo = req[a].todo
           /\ y.posted = {} /\ y.answer = req[a].answer
  <1> DEFINE y == [req[a] EXCEPT !.pc = "send", !.posted = {}, !.unsettled = NoChat]
  <1>1. req' = [req EXCEPT ![a] = y]  OBVIOUS
  <1>2. req[a] \in Requests /\ RequestOK(req[a])  BY RequestFacts
  <1>3. /\ y \in Requests /\ y.kind = req[a].kind /\ y.alone = req[a].alone /\ y.pc = "send"
        /\ y.todo = req[a].todo /\ y.posted = {} /\ y.answer = req[a].answer
    BY <1>2 DEF Requests
  <1> HIDE DEF y
  <1>4. Who({}) \subseteq Remote  BY DEF Who
  <1>5. RequestOK(y)  BY <1>2, <1>3, <1>4 DEF RequestOK
  <1>6. QED  BY <1>1, <1>3, <1>5

LEMMA ResolveSaveStep ==
  ASSUME Shapes, NEW a \in Actors, ResolveSave(a)
  PROVE  \E y \in Requests :
           /\ Handled(a, y) /\ req[a].pc = "save" /\ y.pc = "send" /\ y.kind = "resolve"
           /\ y.todo = req[a].todo /\ UNCHANGED unseen
           /\ \A i \in req[a].posted :
                i.who \in HasOpenID /\ i.who \in DOMAIN contacts => Known(i.who)'
  <1>1. /\ req[a].pc = "save"
        /\ \A item \in req[a].posted : SaveContactChatID(item.who, req[a].unsettled)
        /\ req' = [req EXCEPT ![a].pc = "send", ![a].posted = {}, ![a].unsettled = NoChat]
        /\ UNCHANGED <<scenario, requests, unseen>>
    BY DEF ResolveSave, At
  <1>2. /\ req[a].kind = "resolve" /\ \E item \in Items : req[a].posted = {item}
        /\ req[a].unsettled \in ChatIDs
    BY <1>1, HandlerFacts DEF RequestOK, Requests
  <1>3. PICK item \in Items : req[a].posted = {item}  BY <1>2
  <1>4. SaveContactChatID(item.who, req[a].unsettled)  BY <1>1, <1>3
  <1>5. /\ Statement /\ SelKeys' = SelKeys /\ (InStep => InStep')
        /\ item.who \in HasOpenID /\ item.who \in DOMAIN contacts => Known(item.who)'
    BY <1>1, <1>2, <1>4, HandlerFacts, ChatIDEffect
  <1>6. PICK y \in Requests :
           /\ RequestOK(y) /\ req' = [req EXCEPT ![a] = y] /\ y.pc = "send"
           /\ y.kind = req[a].kind /\ y.alone = req[a].alone /\ y.todo = req[a].todo
           /\ y.posted = {} /\ y.answer = req[a].answer
    BY <1>1, HandlerFacts, SaveMove
  <1>7. Handled(a, y)
    BY <1>1, <1>2, <1>5, <1>6, HandlerFacts, Harmless DEF unseen
  <1>8. \A i \in req[a].posted :
          i.who \in HasOpenID /\ i.who \in DOMAIN contacts => Known(i.who)'
    BY <1>3, <1>5
  <1>9. QED  BY <1>1, <1>2, <1>6, <1>7, <1>8

LEMMA ResolveSaveFailsStep ==
  ASSUME Shapes, NEW a \in Actors, ResolveSaveFails(a)
  PROVE  \E y \in Requests :
           /\ Handled(a, y) /\ req[a].pc = "save" /\ y.pc = "send" /\ y.kind = "resolve"
           /\ y.todo = req[a].todo /\ excused' = excused \cup Who(req[a].posted)
           /\ UNCHANGED <<tables, greeted>>
  <1>1. /\ req[a].pc = "save"
        /\ excused' = excused \cup Who(req[a].posted)
        /\ req' = [req EXCEPT ![a].pc = "send", ![a].posted = {}, ![a].unsettled = NoChat]
        /\ UNCHANGED <<scenario, tables, requests, greeted>>
    BY DEF ResolveSaveFails, At, Who
  <1>2. req[a].kind = "resolve" /\ Who(req[a].posted) \subseteq Persons
    BY <1>1, HandlerFacts, TabFacts DEF RequestOK
  <1>3. PICK y \in Requests :
           /\ RequestOK(y) /\ req' = [req EXCEPT ![a] = y] /\ y.pc = "send"
           /\ y.kind = req[a].kind /\ y.alone = req[a].alone /\ y.todo = req[a].todo
           /\ y.posted = {} /\ y.answer = req[a].answer
    BY <1>1, HandlerFacts, SaveMove
  <1>4. Statement /\ SelKeys' = SelKeys /\ (InStep => InStep')
    BY <1>1, HandlerFacts, NoStatement
  <1>5. excused \subseteq excused' /\ excused' \subseteq Persons  BY <1>1, <1>2, HandlerFacts
  <1>6. Handled(a, y)
    BY <1>1, <1>2, <1>3, <1>4, <1>5, HandlerFacts, Harmless
  <1>7. QED  BY <1>1, <1>2, <1>3, <1>6

LEMMA ResolveAnswers ==
  ASSUME Shapes, NEW a \in Actors, ResolveEnds(a) \/ ResolveFails(a)
  PROVE  \E y \in Requests :
           /\ Handled(a, y) /\ req[a].kind = "resolve" /\ y.pc \in {"ok", "failed"}
           /\ y.todo = {} /\ UNCHANGED <<tables, unseen>>
  <1>1. /\ req[a].pc \in {"send", "selected"} /\ req[a].kind = "resolve"
        /\ Answer(a, "ok", {}) \/ Answer(a, "failed", {})
        /\ UNCHANGED <<scenario, tables, requests, unseen>>
    BY HandlerFacts DEF ResolveEnds, ResolveFails, At, RequestOK
  <1>2. Who({}) \subseteq Remote  BY DEF Who
  <1>3. PICK y \in Requests :
           /\ RequestOK(y) /\ req' = [req EXCEPT ![a] = y] /\ y.pc \in {"ok", "failed"}
           /\ y.kind = req[a].kind /\ y.alone = req[a].alone /\ y.todo = {} /\ y.answer = {}
    BY SMTT(60), <1>1, <1>2, HandlerFacts, AnswerMove
  <1>4. Statement /\ SelKeys' = SelKeys /\ (InStep => InStep')
    BY <1>1, HandlerFacts, NoStatement
  <1>5. Handled(a, y)
    BY <1>1, <1>3, <1>4, HandlerFacts, Harmless DEF unseen
  <1>6. QED  BY <1>1, <1>3, <1>5

LEMMA RoundEndsMove ==
  ASSUME Shapes, NEW a \in Actors, req[a].pc \in {"selected", "match"}, req[a].kind = "match",
         req' = [req EXCEPT ![a] = NoRequest], UNCHANGED <<scenario, tables, requests, unseen>>
  PROVE  \E y \in Requests : Handled(a, y)
  <1>1. Statement /\ SelKeys' = SelKeys /\ (InStep => InStep')
    BY HandlerFacts, NoStatement
  <1>2. NoRequest.answer = {}  BY DEF NoRequest
  <1>3. Handled(a, NoRequest)
    BY <1>1, <1>2, HandlerFacts, NoRequestType, Harmless DEF unseen
  <1>4. QED  BY <1>3, NoRequestType

LEMMA MatchStep ==
  ASSUME Shapes, NEW a \in Actors, MatchList(a) \/ MatchSave(a) \/ MatchEnds(a)
  PROVE  \E y \in Requests : Handled(a, y)
  <1>1. CASE MatchEnds(a)
    <2>1. req[a].pc = "match" /\ req[a].kind = "match"
      BY <1>1, HandlerFacts DEF MatchEnds, At, RequestOK
    <2>2. QED  BY <1>1, <2>1, RoundEndsMove DEF MatchEnds
  <1>2. CASE MatchList(a)
    <2> DEFINE rows == {i \in ListSelectedContacts : i.chat = NoChat /\ Matching[i.who] # {}}
    <2>1. /\ req[a].pc = "selected" /\ req[a].kind = "match"
          /\ UNCHANGED <<scenario, tables, requests, unseen>>
      BY <1>2 DEF MatchList, At, GoesOn
    <2>2. CASE req' = [req EXCEPT ![a] = NoRequest]  BY <2>1, <2>2, RoundEndsMove
    <2>3. CASE GoesOn(a, "match", rows)
      <3>1. rows \in SUBSET Items /\ Who(rows) \subseteq Remote
        BY <2>1, HandlerFacts, SelectedContactTypes DEF RequestOK
      <3> HIDE DEF rows
      <3>2. PICK y \in Requests :
              /\ RequestOK(y) /\ req' = [req EXCEPT ![a] = y]
              /\ y.kind = req[a].kind /\ y.alone = req[a].alone /\ y.answer = req[a].answer
        <4>1. RequestTypes  BY HandlerFacts
        <4>2. QED  BY <2>1, <2>3, <3>1, <4>1, ListMove
      <3>3. Statement /\ SelKeys' = SelKeys /\ (InStep => InStep')
        BY <2>1, HandlerFacts, NoStatement
      <3>4. Handled(a, y)
        BY <2>1, <3>2, <3>3, HandlerFacts, Harmless DEF unseen
      <3>5. QED  BY <3>4
    <2>4. QED  BY <1>2, <2>2, <2>3 DEF MatchList, GoesOn
  <1>3. CASE MatchSave(a)
    <2>1. PICK item \in req[a].todo :
            /\ req[a].pc = "match" /\ ~At(a, "clear")
            /\ (\E id \in Matching[item.who] : SaveContactChatID(item.who, id)) \/ UNCHANGED tables
            /\ ItemDone(a, item)
            /\ UNCHANGED <<scenario, requests, unseen>>
      BY <1>3 DEF MatchSave, At, ItemDone
    <2>2. req[a].kind = "match" /\ tab = "contact"  BY <2>1, HandlerFacts DEF RequestOK
    <2>3. Matching[item.who] \subseteq ChatIDs
      BY <2>2, HandlerFacts, TabFacts, SourcesAssumption
    <2>4. PICK y \in Requests :
             /\ RequestOK(y) /\ req' = [req EXCEPT ![a] = y]
             /\ y.kind = req[a].kind /\ y.alone = req[a].alone /\ y.answer = req[a].answer
      BY <2>1, HandlerFacts, TodoMove
    <2>5. Statement /\ SelKeys' = SelKeys /\ (InStep => InStep')
      <3>1. CASE UNCHANGED tables  BY <2>1, <3>1, HandlerFacts, NoStatement
      <3>2. CASE \E id \in Matching[item.who] : SaveContactChatID(item.who, id)
        <4>1. PICK id \in ChatIDs : SaveContactChatID(item.who, id)  BY <2>3, <3>2
        <4>2. QED  BY <2>1, <4>1, HandlerFacts, ChatIDEffect
      <3>3. QED  BY <2>1, <3>1, <3>2
    <2>6. Handled(a, y)
      BY <2>1, <2>2, <2>4, <2>5, HandlerFacts, Harmless DEF unseen
    <2>7. QED  BY <2>6
  <1>4. QED  BY <1>1, <1>2, <1>3

\* All of them together.
LEMMA HandlerStepIs ==
  ASSUME Shapes, NEW a \in Actors, HandlerStep(a)
  PROVE  \E y \in Requests : Handled(a, y)
  <1>1. CASE Clear(a) \/ SaveOne(a) \/ SaveEnds(a) \/ SaveFails(a)
    BY <1>1, ClearStep, SaveOneStep, SaveEndsStep, SaveFailsStep
  <1>2. CASE Fetch(a) \/ FetchFails(a) \/ CacheOne(a) \/ CacheEnds(a) \/ List(a) \/ ListingFails(a)
    BY <1>2, FetchStep, CacheOneStep, CacheEndsStep, ListStep, ListingFailsStep
  <1>3. CASE ResolveList(a)  BY <1>3, ResolveListStep
  <1>4. CASE Send(a)  BY <1>4, SendStep
  <1>5. CASE SendFails(a)  BY <1>5, SendFailsStep
  <1>6. CASE ResolveSave(a)  BY <1>6, ResolveSaveStep
  <1>7. CASE ResolveSaveFails(a)  BY <1>7, ResolveSaveFailsStep
  <1>8. CASE ResolveEnds(a) \/ ResolveFails(a)  BY <1>8, ResolveAnswers
  <1>9. CASE MatchList(a) \/ MatchSave(a) \/ MatchEnds(a)  BY <1>9, MatchStep
  <1>10. QED
    BY <1>1, <1>2, <1>3, <1>4, <1>5, <1>6, <1>7, <1>8, <1>9 DEF HandlerStep

-----------------------------------------------------------------------------
(* The shape of requests, pages and jobs is kept *)

LEMMA RequestMove ==
  ASSUME Shapes, NEW a \in Actors, NEW y \in Requests, RequestOK(y), req' = [req EXCEPT ![a] = y],
         UNCHANGED scenario
  PROVE  /\ RequestTypes' /\ req'[a] = y
         /\ \A b \in Actors : b # a => req'[b] = req[b]
         /\ req[a].pc # "sync" /\ UNCHANGED job => JobTypes'
  <1>1. RequestTypes /\ JobTypes  BY DEF Shapes
  <1>2. /\ req' \in [Actors -> Requests] /\ req'[a] = y
        /\ \A b \in Actors : b # a => req'[b] = req[b]
    BY <1>1 DEF RequestTypes
  <1>3. \A b \in Actors : RequestOK(req[b])'
    <2>1. \A b \in Actors : RequestOK(req'[b])  BY <1>1, <1>2 DEF RequestTypes
    <2>2. QED  BY <2>1, SameTable DEF RequestOK
  <1>4. ASSUME req[a].pc # "sync", UNCHANGED job  PROVE JobTypes'
    <2>1. \A p \in Pages : p \in Actors  BY PagesAssumption DEF Actors
    <2>2. \A p \in Pages : JobOK(p)'  BY <1>1, <1>2, <1>4, <2>1 DEF JobTypes, JobOK, Syncing
    <2>3. QED  BY <1>1, <1>4, <2>2 DEF JobTypes
  <1>5. QED  BY <1>2, <1>3, <1>4 DEF RequestTypes

LEMMA PagesKept ==
  ASSUME PageTypes, UNCHANGED <<scenario, pageVars>>
  PROVE  PageTypes'
  BY SameTable DEF PageTypes, pageVars

LEMMA IndexKept ==
  ASSUME IndexTypes, UNCHANGED <<remote, index, edits, muddled>>
  PROVE  IndexTypes'
  BY DEF IndexTypes, index

LEMMA HandlerShapes ==
  ASSUME Shapes, NEW a \in Actors, NEW y \in Requests, Handled(a, y),
         UNCHANGED <<pageVars, toggles, history, docVars>>
  PROVE  Shapes'
  <1>1. RequestTypes' /\ JobTypes'
    BY RequestMove DEF Handled, docVars
  <1>2. TableTypes'  BY DEF Handled, Statement
  <1>3. PageTypes'  BY PagesKept DEF Handled, Shapes
  <1>4. CountTypes'  BY DEF Shapes, CountTypes, Handled, history
  <1>5. IndexTypes'  BY IndexKept DEF Shapes, docVars, index
  <1>6. QED  BY <1>1, <1>2, <1>3, <1>4, <1>5 DEF Shapes

\* Two requests that are the same but for the solitude of a save.
AloneAside(y, z) ==
  /\ y.kind = z.kind /\ y.pc = z.pc /\ y.todo = z.todo /\ y.posted = z.posted
  /\ y.answer = z.answer /\ y.unsettled = z.unsettled

LEMMA AsideOK ==
  ASSUME NEW y, NEW z, AloneAside(y, z), RequestOK(z)
  PROVE  RequestOK(y)
  BY DEF AloneAside, RequestOK

Saving(a) == req[a].kind = "save" /\ Busy(a)

\* A request of a kind comes in, from a that has none.
Begun(a, request) ==
  /\ req[a].pc = "idle" /\ request.kind \in scenario.kinds
  /\ AloneAside(req'[a], request) /\ (req'[a].alone => \A b \in Actors : ~Saving(b))
  /\ \A b \in Actors : b # a =>
       /\ AloneAside(req'[b], req[b])
       /\ req'[b].alone => req[b].alone /\ (Saving(b) => request.kind # "save")

LEMMA BeginMove ==
  ASSUME Shapes, NEW a \in Actors, NEW request \in Requests, RequestOK(request),
         Begin(a, request), UNCHANGED scenario
  PROVE  /\ Begun(a, request) /\ RequestTypes' /\ requests' \in 0..scenario.starts
         /\ UNCHANGED job => JobTypes'
  <1>1. /\ RequestTypes /\ JobTypes /\ req \in [Actors -> Requests] /\ requests \in Nat
        /\ scenario.starts \in Nat
    BY ScenariosAssumption DEF Shapes, RequestTypes, CountTypes
  <1> DEFINE saves == {b \in DOMAIN req : req[b].kind = "save" /\ Busy(b)}
  <1>2. /\ req[a].pc = "idle" /\ request.kind \in scenario.kinds
        /\ requests < scenario.starts /\ requests' = requests + 1
        /\ req' = [b \in DOMAIN req |->
             CASE b = a -> [request EXCEPT !.alone = saves = {}]
               [] b \in saves -> [req[b] EXCEPT !.alone = @ /\ request.kind # "save"]
               [] OTHER -> req[b]]
    BY DEF Begin, Busy, At
  <1>3. saves = {b \in Actors : Saving(b)} /\ a \notin saves /\ DOMAIN req = Actors
    BY <1>1, <1>2 DEF Saving, Busy, At
  <1>4. \A b \in Actors : req[b] \in Requests  BY <1>1
  <1> HIDE DEF saves
  <1>5. /\ req'[a] \in Requests /\ AloneAside(req'[a], request)
        /\ req'[a].alone <=> saves = {}
    BY <1>2, <1>3 DEF Requests, AloneAside
  <1>6. \A b \in Actors : b # a =>
          /\ req'[b] \in Requests /\ AloneAside(req'[b], req[b])
          /\ req'[b].alone => req[b].alone /\ (b \in saves => request.kind # "save")
    <2>1. SUFFICES ASSUME NEW b \in Actors, b # a
                   PROVE  /\ req'[b] \in Requests /\ AloneAside(req'[b], req[b])
                          /\ req'[b].alone => req[b].alone /\ (b \in saves => request.kind # "save")
      OBVIOUS
    <2>2. CASE b \in saves
      <3>1. req'[b] = [req[b] EXCEPT !.alone = req[b].alone /\ request.kind # "save"]
        BY <1>2, <1>3, <2>1, <2>2
      <3>2. QED  BY <1>4, <3>1 DEF Requests, AloneAside
    <2>3. CASE b \notin saves
      <3>1. req'[b] = req[b]  BY <1>2, <1>3, <2>1, <2>3
      <3>2. QED  BY <1>4, <2>3, <3>1 DEF AloneAside
    <2>4. QED  BY <2>2, <2>3
  <1>7. \A b \in Actors : RequestOK(req[b])'
    <2>1. \A b \in Actors : RequestOK(req'[b])
      BY <1>1, <1>5, <1>6, AsideOK DEF RequestTypes
    <2>2. QED  BY <2>1, SameTable DEF RequestOK
  <1>8. RequestTypes'
    <2>1. req' \in [Actors -> Requests]  BY <1>2, <1>3, <1>5, <1>6
    <2>2. QED  BY <1>7, <2>1 DEF RequestTypes
  <1>9. Begun(a, request)  BY <1>2, <1>3, <1>5, <1>6 DEF Begun
  <1>10. ASSUME UNCHANGED job  PROVE JobTypes'
    <2>1. \A p \in Pages : p \in Actors  BY PagesAssumption DEF Actors
    <2>2. \A b \in Actors : b # a => req'[b].pc = req[b].pc  BY <1>6 DEF AloneAside
    <2>3. \A p \in Pages : JobOK(p)'
      BY <1>1, <1>2, <1>10, <2>1, <2>2 DEF JobTypes, JobOK, Syncing
    <2>4. QED  BY <1>1, <1>10, <2>3 DEF JobTypes
  <1>11. requests' \in 0..scenario.starts  BY <1>1, <1>2
  <1>12. QED  BY <1>8, <1>9, <1>10, <1>11

\* The requests other than a save, as they come in.
New(kind, pc) == [NoRequest EXCEPT !.kind = kind, !.pc = pc]

LEMMA NewFacts ==
  ASSUME NEW kind \in {"load", "local", "resolve", "match", "sync"},
         NEW pc \in {"fetch", "list", "selected", "sync"}
  PROVE  /\ New(kind, pc) \in Requests
         /\ New(kind, pc).kind = kind /\ New(kind, pc).pc = pc /\ New(kind, pc).todo = {}
         /\ New(kind, pc).posted = {} /\ New(kind, pc).answer = {}
  BY DEF New, NoRequest, Requests

LEMMA NewOK ==
  ASSUME scenario \in Scenarios, NEW kind, NEW pc,
         \/ kind = "load" /\ pc = "fetch"
         \/ kind = "local" /\ pc = "list"
         \/ kind \in {"resolve", "match"} /\ pc = "selected"
         \/ kind = "sync" /\ pc = "sync",
         kind = "local" \/ kind \in scenario.kinds
  PROVE  RequestOK(New(kind, pc))
  <1>1. Who({}) \subseteq Remote  BY DEF Who
  <1>2. /\ kind \in {"resolve", "match"} => tab = "contact"
        /\ kind = "sync" => tab = "document"
    BY ScenariosAssumption DEF tab
  <1> DEFINE y == New(kind, pc)
  <1>3. /\ y.kind = kind /\ y.pc = pc /\ y.todo = {} /\ y.posted = {} /\ y.answer = {}
    BY DEF New, NoRequest
  <1> HIDE DEF y
  <1>4. RequestOK(y)  BY <1>1, <1>2, <1>3 DEF RequestOK
  <1>5. QED  BY <1>4 DEF y

LEMMA BeginShapes ==
  ASSUME Shapes, NEW a \in Actors, NEW request \in Requests, RequestOK(request),
         Begin(a, request), UNCHANGED <<scenario, tables, greeted, toggles, history, docVars>>,
         excused' \subseteq Persons, PageTypes'
  PROVE  Shapes' /\ Begun(a, request) /\ Statement /\ SelKeys' = SelKeys
         /\ (InStep => InStep')
  <1>1. Begun(a, request) /\ RequestTypes' /\ requests' \in 0..scenario.starts /\ JobTypes'
    BY BeginMove DEF docVars
  <1>2. Statement /\ SelKeys' = SelKeys /\ (InStep => InStep')
    BY HandlerFacts, NoStatement DEF Shapes
  <1>3. TableTypes'  BY <1>2 DEF Statement
  <1>4. CountTypes'  BY <1>1 DEF Shapes, CountTypes, history
  <1>5. IndexTypes'  BY IndexKept DEF Shapes, docVars, index
  <1>6. QED  BY <1>1, <1>2, <1>3, <1>4, <1>5 DEF Shapes

\* What a click or a round sends; the posted rows are of the page.
LEMMA SelectedItemTypes ==
  ASSUME Shapes, NEW p \in Pages
  PROVE  SelectedItems(p) \in SUBSET Items /\ Who(SelectedItems(p)) \subseteq Remote
         /\ Who(SelectedItems(p)) \subseteq ticks[p]
  <1>1. /\ items[p] \subseteq Items /\ joined[p] \subseteq Items
        /\ Who(items[p]) \subseteq Remote /\ Who(joined[p]) \subseteq Remote
    BY DEF Shapes, PageTypes, SelectedOf
  <1>2. QED  BY <1>1 DEF SelectedItems, Who

SaveOf(rows) == [NoRequest EXCEPT !.kind = "save", !.pc = "clear", !.todo = rows, !.posted = rows]

LEMMA SaveOfFacts ==
  ASSUME NEW rows \in SUBSET Items, Who(rows) \subseteq Remote
  PROVE  /\ SaveOf(rows) \in Requests /\ RequestOK(SaveOf(rows))
         /\ SaveOf(rows).kind = "save" /\ SaveOf(rows).pc = "clear" /\ SaveOf(rows).todo = rows
         /\ SaveOf(rows).posted = rows /\ SaveOf(rows).answer = {}
  <1>1. /\ SaveOf(rows) \in Requests
        /\ SaveOf(rows).kind = "save" /\ SaveOf(rows).pc = "clear" /\ SaveOf(rows).todo = rows
        /\ SaveOf(rows).posted = rows /\ SaveOf(rows).answer = {}
    BY DEF SaveOf, NoRequest, Requests
  <1>2. Who({}) \subseteq Remote  BY DEF Who
  <1>3. QED  BY <1>1, <1>2 DEF RequestOK

LEMMA PageActors == Pages \subseteq Actors
  BY PagesAssumption DEF Actors

\* A request comes in: what the clicks and the rounds share.
Incoming(a, request) ==
  /\ Begun(a, request) /\ request.answer = {}
  /\ request.kind = "save" =>
       request.pc = "clear" /\ \E p \in Pages : Who(request.posted) \subseteq ticks[p]
  /\ request.kind # "save" => request.pc \in {"fetch", "list", "selected", "sync"}
  /\ IF request.kind = "resolve"
       THEN (\E b \in Actors : Resolving(b)) => Persons \subseteq excused'
       ELSE UNCHANGED excused
  /\ excused \subseteq excused'
  /\ UNCHANGED <<scenario, tables, greeted, chosen>>
  /\ \A p \in Pages :
       items'[p] \subseteq items[p] /\ joined'[p] \subseteq joined[p] /\ ticks'[p] \subseteq ticks[p]

LEMMA OpenStep ==
  ASSUME Shapes, NEW p \in Pages, Open(p), UNCHANGED docVars
  PROVE  \E request \in Requests : Incoming(p, request) /\ Shapes'
  <1> DEFINE request == New("local", "list")
  <1>1. /\ Begin(p, request)
        /\ UNCHANGED <<scenario, tables, greeted, excused, toggles, history>>
        /\ items' = [items EXCEPT ![p] = {}] /\ joined' = [joined EXCEPT ![p] = {}]
        /\ ticks' = [ticks EXCEPT ![p] = {}]
    BY DEF Open, LocalRequest, New, unseen
  <1>2. /\ request \in Requests /\ RequestOK(request) /\ request.kind = "local"
        /\ request.pc = "list" /\ request.answer = {}
    BY HandlerFacts, PageActors, NewFacts, NewOK
  <1> HIDE DEF request
  <1>3. PageTypes /\ excused \subseteq Persons  BY HandlerFacts, PageActors DEF Shapes
  <1>4. PageTypes'
    <2>1. Who({}) \subseteq Remote  BY DEF Who
    <2>2. QED  BY <1>1, <1>3, <2>1, SameTable DEF PageTypes
  <1>5. Shapes' /\ Begun(p, request)
    BY <1>1, <1>2, <1>3, <1>4, PageActors, BeginShapes
  <1>6. \A q \in Pages :
          items'[q] \subseteq items[q] /\ joined'[q] \subseteq joined[q] /\ ticks'[q] \subseteq ticks[q]
    BY <1>1, <1>3 DEF PageTypes
  <1>7. Incoming(p, request)
    BY <1>1, <1>2, <1>5, <1>6 DEF Incoming, history
  <1>8. QED  BY <1>2, <1>5, <1>7

\* A click that leaves the page as it is, or a round.
LEMMA ClickStep ==
  ASSUME Shapes, NEW a \in Actors, NEW request \in Requests, RequestOK(request),
         Begin(a, request), request.answer = {}, request.kind \notin {"save", "resolve"},
         request.pc \in {"fetch", "list", "selected", "sync"},
         UNCHANGED <<scenario, tables, unseen, pageVars, toggles, history, docVars>>
  PROVE  \E r \in Requests : Incoming(a, r) /\ Shapes'
  <1>1. UNCHANGED <<greeted, excused, history>>  BY DEF unseen
  <1>2. PageTypes' /\ excused \subseteq Persons  BY HandlerFacts, PagesKept DEF Shapes
  <1>3. Shapes' /\ Begun(a, request)  BY <1>1, <1>2, BeginShapes
  <1>4. Incoming(a, request)  BY <1>1, <1>3 DEF Incoming, pageVars, history
  <1>5. QED  BY <1>3, <1>4

LEMMA ClickLoadStep ==
  ASSUME Shapes, NEW p \in Pages, ClickLoad(p), UNCHANGED docVars
  PROVE  \E request \in Requests : Incoming(p, request) /\ Shapes'
  <1>1. /\ Begin(p, New("load", "fetch"))
        /\ UNCHANGED <<scenario, tables, unseen, pageVars, toggles, history>>
    BY DEF ClickLoad, LoadRequest, New
  <1>2. "load" \in scenario.kinds  BY <1>1, NewFacts DEF Begin
  <1>3. /\ New("load", "fetch") \in Requests /\ RequestOK(New("load", "fetch"))
        /\ New("load", "fetch").kind = "load" /\ New("load", "fetch").pc = "fetch"
        /\ New("load", "fetch").answer = {}
    BY <1>2, HandlerFacts, PageActors, NewFacts, NewOK
  <1>4. QED  BY <1>1, <1>3, PageActors, ClickStep

LEMMA MatchRoundStep ==
  ASSUME Shapes, NEW a \in Runners, MatchRound(a), UNCHANGED <<pageVars, toggles, history, docVars>>
  PROVE  \E request \in Requests : Incoming(a, request) /\ Shapes'
  <1>1. /\ Begin(a, New("match", "selected"))
        /\ UNCHANGED <<scenario, tables, unseen>>
    BY DEF MatchRound, New
  <1>2. a \in Actors /\ "match" \in scenario.kinds  BY <1>1, NewFacts DEF Begin, Actors
  <1>3. /\ New("match", "selected") \in Requests /\ RequestOK(New("match", "selected"))
        /\ New("match", "selected").kind = "match" /\ New("match", "selected").pc = "selected"
        /\ New("match", "selected").answer = {}
    BY <1>2, HandlerFacts, NewFacts, NewOK
  <1>4. QED  BY <1>1, <1>2, <1>3, ClickStep

LEMMA ClickResolveStep ==
  ASSUME Shapes, NEW p \in Pages, ClickResolve(p), UNCHANGED docVars
  PROVE  \E request \in Requests : Incoming(p, request) /\ Shapes'
  <1> DEFINE request == New("resolve", "selected")
  <1>1. /\ Begin(p, request)
        /\ excused' = IF \E b \in DOMAIN req : Resolving(b) THEN excused \cup Persons ELSE excused
        /\ UNCHANGED <<scenario, tables, greeted, pageVars, toggles, history>>
    BY DEF ClickResolve, ResolveRequest, New
  <1>2. "resolve" \in scenario.kinds  BY <1>1, NewFacts DEF Begin
  <1>3. /\ request \in Requests /\ RequestOK(request) /\ request.kind = "resolve"
        /\ request.pc = "selected" /\ request.answer = {}
    BY <1>2, HandlerFacts, PageActors, NewFacts, NewOK
  <1> HIDE DEF request
  <1>4. PageTypes' /\ excused \subseteq Persons /\ DOMAIN req = Actors
    BY <1>1, HandlerFacts, PageActors, PagesKept DEF Shapes, RequestTypes
  <1>5. excused \subseteq excused' /\ excused' \subseteq Persons  BY <1>1, <1>4
  <1>6. Shapes' /\ Begun(p, request)
    BY <1>1, <1>3, <1>4, <1>5, PageActors, BeginShapes
  <1>7. (\E b \in Actors : Resolving(b)) => Persons \subseteq excused'  BY <1>1, <1>4
  <1>8. Incoming(p, request)
    BY <1>1, <1>3, <1>5, <1>6, <1>7 DEF Incoming, pageVars, history
  <1>9. QED  BY <1>3, <1>6, <1>8

LEMMA ClickSaveStep ==
  ASSUME Shapes, NEW p \in Pages, ClickSave(p), UNCHANGED docVars
  PROVE  \E request \in Requests : Incoming(p, request) /\ Shapes'
  <1> DEFINE rows == SelectedItems(p)
             request == SaveOf(rows)
  <1>1. /\ Begin(p, request)
        /\ UNCHANGED <<scenario, tables, greeted, excused, pageVars, toggles, history>>
    BY DEF ClickSave, SaveRequest, SaveOf, unseen
  <1>2. rows \in SUBSET Items /\ Who(rows) \subseteq Remote /\ Who(rows) \subseteq ticks[p]
    BY SelectedItemTypes
  <1> HIDE DEF rows
  <1>3. /\ request \in Requests /\ RequestOK(request) /\ request.kind = "save"
        /\ request.pc = "clear" /\ request.answer = {} /\ request.posted = rows
    BY <1>2, SaveOfFacts
  <1> HIDE DEF request
  <1>4. PageTypes' /\ excused \subseteq Persons
    BY <1>1, HandlerFacts, PageActors, PagesKept DEF Shapes
  <1>5. Shapes' /\ Begun(p, request)  BY <1>1, <1>3, <1>4, PageActors, BeginShapes
  <1>6. Incoming(p, request)
    BY <1>1, <1>2, <1>3, <1>5 DEF Incoming, pageVars, history
  <1>7. QED  BY <1>3, <1>5, <1>6

-----------------------------------------------------------------------------
(* What a page does with an answer, and the boxes *)

\* A page reads its answer and goes on as y; its rows are those it had, or those it read.
Reads(p, y) ==
  /\ req[p].pc \in {"ok", "failed"} /\ req' = [req EXCEPT ![p] = y]
  /\ y.kind \in {"none", "local"} /\ y.pc \in {"idle", "list"} /\ y.answer = {}
  /\ UNCHANGED <<scenario, tables, unseen, chosen>>
  /\ \A q \in Pages :
       /\ items'[q] \subseteq items[q] \cup req[p].answer
       /\ joined'[q] \subseteq joined[q] \cup req[p].answer
       /\ ticks'[q] \subseteq ticks[q] \cup Who(SelectedOf(items[q] \cup joined[q] \cup req[p].answer))

LEMMA ReadShapes ==
  ASSUME Shapes, NEW p \in Pages, NEW y \in Requests, RequestOK(y), Reads(p, y),
         PageTypes', UNCHANGED <<requests, toggles, docVars>>, takenOut' \subseteq Things
  PROVE  Shapes'
  <1>1. /\ req[p].pc \in {"ok", "failed"} /\ req' = [req EXCEPT ![p] = y]
        /\ UNCHANGED <<scenario, tables, unseen, chosen>>
    BY DEF Reads
  <1>2. p \in Actors /\ req[p].pc # "sync"  BY <1>1, PageActors
  <1>3. RequestTypes' /\ JobTypes'
    BY <1>1, <1>2, RequestMove DEF docVars
  <1>4. TableTypes'  BY <1>1, <1>2, HandlerFacts, NoStatement DEF Statement
  <1>5. CountTypes'  BY <1>1 DEF Shapes, CountTypes, unseen
  <1>6. IndexTypes'  BY IndexKept DEF Shapes, docVars, index
  <1>7. QED  BY <1>3, <1>4, <1>5, <1>6 DEF Shapes

\* restoreSelected after the rows of a page were replaced.
Shows(p, shown, join) ==
  /\ items' = [items EXCEPT ![p] = shown] /\ joined' = [joined EXCEPT ![p] = join]
  /\ ticks' = [ticks EXCEPT ![p] = RestoreSelected(join, shown)]

LEMMA PageRead ==
  ASSUME Shapes, UNCHANGED scenario, NEW p \in Pages,
         NEW shown \in SUBSET Items, Who(shown) \subseteq Remote,
         NEW join \in SUBSET SelectedOf(Items), Who(join) \subseteq Remote,
         Shows(p, shown, join),
         shown \subseteq items[p] \cup req[p].answer, join \subseteq joined[p] \cup req[p].answer
  PROVE  /\ PageTypes'
         /\ \A q \in Pages :
              /\ items'[q] \subseteq items[q] \cup req[p].answer
              /\ joined'[q] \subseteq joined[q] \cup req[p].answer
              /\ ticks'[q] \subseteq ticks[q] \cup Who(SelectedOf(items[q] \cup joined[q] \cup req[p].answer))
  <1>1. PageTypes /\ Remote \subseteq Things  BY TabFacts DEF Shapes, CountTypes
  <1>2. Who(SelectedOf(shown)) \subseteq Who(shown)  BY WhoMonotone DEF SelectedOf
  <1>3. /\ RestoreSelected(join, shown) \subseteq Remote
        /\ RestoreSelected(join, shown) \subseteq Who(SelectedOf(items[p] \cup joined[p] \cup req[p].answer))
    <2>1. \A row \in join : row.selected  BY DEF SelectedOf
    <2>2. Who(join) \subseteq Who(SelectedOf(items[p] \cup joined[p] \cup req[p].answer))
      BY <2>1 DEF Who, SelectedOf
    <2>3. Who(SelectedOf(shown)) \subseteq Who(SelectedOf(items[p] \cup joined[p] \cup req[p].answer))
      BY DEF Who, SelectedOf
    <2>4. QED  BY <1>2, <2>2, <2>3 DEF RestoreSelected
  <1> DEFINE t == RestoreSelected(join, shown)
  <1>4. \A q \in Pages :
          /\ items'[q] = IF q = p THEN shown ELSE items[q]
          /\ joined'[q] = IF q = p THEN join ELSE joined[q]
          /\ ticks'[q] = IF q = p THEN t ELSE ticks[q]
    BY <1>1 DEF PageTypes, Shows
  <1>5. /\ items' \in [Pages -> SUBSET Items] /\ joined' \in [Pages -> SUBSET SelectedOf(Items)]
        /\ ticks' \in [Pages -> SUBSET Things]
    <2>1. t \in SUBSET Things  BY <1>1, <1>3
    <2> HIDE DEF t
    <2>2. ticks' = [ticks EXCEPT ![p] = t]  BY DEF t, Shows
    <2>3. QED  BY <1>1, <2>1, <2>2 DEF PageTypes, Shows
  <1> HIDE DEF t
  <1>6. PageTypes'
    <2>1. \A q \in Pages :
            Who(items'[q]) \subseteq Remote /\ Who(joined'[q]) \subseteq Remote /\ ticks'[q] \subseteq Remote
      BY <1>1, <1>3, <1>4 DEF PageTypes, t
    <2>2. \A q \in Pages :
            Who(items[q])' \subseteq Remote /\ Who(joined[q])' \subseteq Remote /\ ticks'[q] \subseteq Remote
      BY <2>1 DEF Who
    <2>3. QED  BY <1>5, <2>2, SameTable DEF PageTypes
  <1>7. QED
    BY <1>3, <1>4, <1>6 DEF t

\* What a page is answered.
LEMMA AnswerTypes ==
  ASSUME Shapes, NEW p \in Pages
  PROVE  /\ req[p].answer \in SUBSET Items /\ Who(req[p].answer) \subseteq Remote
         /\ items[p] \in SUBSET Items /\ Who(items[p]) \subseteq Remote
         /\ joined[p] \in SUBSET SelectedOf(Items) /\ Who(joined[p]) \subseteq Remote
         /\ items = [items EXCEPT ![p] = items[p]] /\ joined = [joined EXCEPT ![p] = joined[p]]
         /\ Joined(req[p].answer) \in SUBSET SelectedOf(Items)
         /\ Joined(req[p].answer) \subseteq req[p].answer
         /\ Who(Joined(req[p].answer)) \subseteq Remote
  <1>1. req[p].answer \in SUBSET Items /\ Who(req[p].answer) \subseteq Remote
    BY HandlerFacts, PageActors DEF RequestOK, Requests
  <1>2. /\ Joined(req[p].answer) \in SUBSET SelectedOf(Items)
        /\ Joined(req[p].answer) \subseteq req[p].answer
    BY <1>1 DEF Joined, SelectedOf
  <1>3. Who(Joined(req[p].answer)) \subseteq Remote  BY <1>1, <1>2 DEF Who
  <1>4. /\ items[p] \in SUBSET Items /\ Who(items[p]) \subseteq Remote
        /\ joined[p] \in SUBSET SelectedOf(Items) /\ Who(joined[p]) \subseteq Remote
        /\ items = [items EXCEPT ![p] = items[p]] /\ joined = [joined EXCEPT ![p] = joined[p]]
    BY DEF Shapes, PageTypes
  <1>5. QED  BY <1>1, <1>2, <1>3, <1>4

LEMMA ReadLoadStep ==
  ASSUME Shapes, NEW p \in Pages, ReadLoad(p), UNCHANGED docVars
  PROVE  \E y \in Requests : Reads(p, y) /\ Shapes'
  <1>1. /\ req[p].pc = "ok" /\ req' = [req EXCEPT ![p] = NoRequest]
        /\ items' = [items EXCEPT ![p] = req[p].answer] /\ joined' = joined
        /\ ticks' = [ticks EXCEPT ![p] = RestoreSelected(joined[p], req[p].answer)]
        /\ UNCHANGED <<scenario, tables, requests, unseen, toggles, chosen, takenOut>>
    BY DEF ReadLoad, At, history
  <1>2. joined' = [joined EXCEPT ![p] = joined[p]]  BY <1>1, AnswerTypes
  <1>3. /\ PageTypes'
        /\ \A q \in Pages :
              /\ items'[q] \subseteq items[q] \cup req[p].answer
              /\ joined'[q] \subseteq joined[q] \cup req[p].answer
              /\ ticks'[q] \subseteq ticks[q] \cup Who(SelectedOf(items[q] \cup joined[q] \cup req[p].answer))
    <2>1. Shows(p, req[p].answer, joined[p])  BY <1>1, <1>2 DEF Shows
    <2>2. UNCHANGED scenario  BY <1>1
    <2>3. QED  BY <2>1, <2>2, AnswerTypes, PageRead
  <1>4. Reads(p, NoRequest)  BY <1>1, <1>3 DEF Reads, NoRequest
  <1>5. takenOut' \subseteq Things  BY <1>1 DEF Shapes, CountTypes
  <1>6. QED  BY <1>1, <1>3, <1>4, <1>5, NoRequestType, ReadShapes

LEMMA ReadLocalStep ==
  ASSUME Shapes, NEW p \in Pages, ReadLocal(p), UNCHANGED docVars
  PROVE  \E y \in Requests : Reads(p, y) /\ Shapes'
  <1> DEFINE shown == IF items[p] = {} THEN req[p].answer ELSE items[p]
             join == Joined(req[p].answer)
  <1>1. /\ req[p].pc = "ok" /\ req' = [req EXCEPT ![p] = NoRequest]
        /\ items' = [items EXCEPT ![p] = shown] /\ joined' = [joined EXCEPT ![p] = join]
        /\ ticks' = [ticks EXCEPT ![p] = RestoreSelected(join, shown)]
        /\ UNCHANGED <<scenario, tables, requests, unseen, toggles, chosen, takenOut>>
    BY DEF ReadLocal, At, history
  <1>2. /\ shown \in SUBSET Items /\ Who(shown) \subseteq Remote /\ shown \subseteq items[p] \cup req[p].answer
        /\ join \in SUBSET SelectedOf(Items) /\ Who(join) \subseteq Remote
        /\ join \subseteq joined[p] \cup req[p].answer
    BY AnswerTypes
  <1> HIDE DEF shown, join
  <1>3. /\ PageTypes'
        /\ \A q \in Pages :
              /\ items'[q] \subseteq items[q] \cup req[p].answer
              /\ joined'[q] \subseteq joined[q] \cup req[p].answer
              /\ ticks'[q] \subseteq ticks[q] \cup Who(SelectedOf(items[q] \cup joined[q] \cup req[p].answer))
    <2>1. Shows(p, shown, join)  BY <1>1 DEF Shows
    <2>2. UNCHANGED scenario  BY <1>1
    <2>3. QED  BY <1>2, <2>1, <2>2, AnswerTypes, PageRead
  <1>4. Reads(p, NoRequest)  BY <1>1, <1>3 DEF Reads, NoRequest
  <1>5. takenOut' \subseteq Things  BY <1>1 DEF Shapes, CountTypes
  <1>6. QED  BY <1>1, <1>3, <1>4, <1>5, NoRequestType, ReadShapes

LEMMA ReadOtherStep ==
  ASSUME Shapes, NEW p \in Pages, ReadDone(p) \/ ReadError(p), UNCHANGED docVars
  PROVE  \E y \in Requests : Reads(p, y) /\ Shapes'
  <1>1. PICK y \in {NoRequest, New("local", "list")} :
          /\ req[p].pc \in {"ok", "failed"} /\ req' = [req EXCEPT ![p] = y]
          /\ UNCHANGED <<scenario, tables, requests, unseen, pageVars, toggles, chosen>>
    BY DEF ReadDone, ReadError, At, New, history
  <1>2. /\ y \in Requests /\ RequestOK(y) /\ y.kind \in {"none", "local"}
        /\ y.pc \in {"idle", "list"} /\ y.answer = {}
    <2>1. /\ NoRequest.kind = "none" /\ NoRequest.pc = "idle" /\ NoRequest.answer = {}
      BY DEF NoRequest
    <2>2. scenario \in Scenarios  BY DEF Shapes, CountTypes
    <2>3. /\ New("local", "list") \in Requests /\ RequestOK(New("local", "list"))
          /\ New("local", "list").kind = "local" /\ New("local", "list").pc = "list"
          /\ New("local", "list").answer = {}
      BY <2>2, NewFacts, NewOK
    <2>4. QED  BY <2>1, <2>3, NoRequestType
  <1>3. Reads(p, y)  BY <1>1, <1>2 DEF Reads, pageVars
  <1>4. PageTypes'  BY <1>1, PagesKept DEF Shapes
  <1>5. takenOut' \subseteq Things
    <2>1. takenOut \subseteq Things /\ Remote \subseteq Things  BY TabFacts DEF Shapes, CountTypes
    <2>2. QED  BY <2>1 DEF ReadDone, ReadError, history
  <1>6. QED  BY <1>1, <1>2, <1>3, <1>4, <1>5, ReadShapes

\* A box is clicked.
LEMMA ToggleShapes ==
  ASSUME Shapes, NEW p \in Pages, NEW things \in SUBSET Things, NEW checked \in BOOLEAN,
         Toggle(p, things, checked), UNCHANGED docVars
  PROVE  /\ Shapes' /\ chosen \subseteq chosen'
         /\ \A q \in Pages : ticks'[q] \subseteq ticks[q] \cup chosen'
  <1>1. /\ things \subseteq Who(items[p]) /\ toggles < MaxToggles /\ toggles' = toggles + 1
        /\ ticks' = [ticks EXCEPT ![p] = IF checked THEN ticks[p] \cup things ELSE ticks[p] \ things]
        /\ chosen' = IF checked THEN chosen \cup things ELSE chosen
        /\ takenOut' = IF checked THEN takenOut \ things ELSE takenOut
        /\ UNCHANGED <<sourceVars, items, joined>>
    BY DEF Toggle
  <1>2. PageTypes /\ Remote' = Remote /\ MaxToggles \in Nat
    BY <1>1, SameTable, PagesAssumption DEF Shapes, sourceVars
  <1>3. PageTypes' /\ \A q \in Pages : ticks'[q] \subseteq ticks[q] \cup chosen'
    <2>1. things \subseteq Remote  BY <1>1, <1>2 DEF PageTypes
    <2>2. /\ ticks' \in [Pages -> SUBSET Things]
          /\ \A q \in Pages : ticks'[q] \subseteq Remote /\ ticks'[q] \subseteq ticks[q] \cup chosen'
      BY <1>1, <1>2, <2>1 DEF PageTypes
    <2>3. QED  BY <1>1, <1>2, <2>2 DEF PageTypes
  <1>4. TableTypes'  BY <1>1 DEF Shapes, TableTypes, sourceVars, tables, OneTable, tab
  <1>5. RequestTypes'
    <2>1. \A a \in Actors : RequestOK(req'[a])  BY <1>1 DEF Shapes, RequestTypes, sourceVars
    <2>2. \A a \in Actors : RequestOK(req[a])'
      BY <1>1, <2>1, SameTable DEF RequestOK, sourceVars
    <2>3. QED  BY <1>1, <2>2 DEF Shapes, RequestTypes, sourceVars
  <1>6. JobTypes'  BY <1>1 DEF Shapes, JobTypes, JobOK, Syncing, docVars, sourceVars
  <1>7. CountTypes'  BY <1>1, <1>2 DEF Shapes, CountTypes, sourceVars
  <1>8. IndexTypes'  BY IndexKept DEF Shapes, docVars, index
  <1>9. QED  BY <1>1, <1>3, <1>4, <1>5, <1>6, <1>7, <1>8 DEF Shapes

-----------------------------------------------------------------------------
(* Callers without the page, and edits at Feishu *)

\* What Curl is: g is written, and every save under way loses its solitude.
Curled(g, selected) ==
  /\ UNCHANGED <<scenario, unseen, pageVars>>
  /\ \A b \in Actors :
       AloneAside(req'[b], req[b]) /\ (req'[b].alone => req[b].alone /\ req[b].kind # "save")
  /\ Statement /\ SelKeys' = IF selected THEN SelKeys \cup {g} ELSE SelKeys \ {g}
  /\ chosen' = IF selected THEN chosen \cup {g} ELSE chosen

LEMMA CurlStep ==
  ASSUME Shapes, Curl, UNCHANGED docVars
  PROVE  Shapes' /\ \E g \in Groups, selected \in BOOLEAN : Curled(g, selected)
  <1>1. PICK g \in Groups, selected \in BOOLEAN, sync \in BOOLEAN, auto \in BOOLEAN :
          /\ "post" \in scenario.kinds /\ requests < scenario.starts /\ requests' = requests + 1
          /\ chats' = Put(chats, g, [selected |-> selected, sync |-> sync, auto |-> auto])
          /\ UNCHANGED <<contacts, documents>>
          /\ req' = [b \in DOMAIN req |-> [req[b] EXCEPT !.alone = @ /\ req[b].kind # "save"]]
          /\ chosen' = IF selected THEN chosen \cup {g} ELSE chosen
          /\ takenOut' = IF selected THEN takenOut \ {g} ELSE takenOut
          /\ UNCHANGED <<scenario, unseen, pageVars, toggles>>
    BY DEF Curl, PostChat, UpsertChat
  <1>2. /\ scenario \in Scenarios /\ TableTypes /\ RequestTypes /\ JobTypes
        /\ requests \in Nat /\ scenario.starts \in Nat
    BY ScenariosAssumption DEF Shapes, CountTypes
  <1>3. tab = "chat"  BY <1>1, <1>2, ScenariosAssumption DEF tab
  <1> DEFINE row == [selected |-> selected, sync |-> sync, auto |-> auto]
  <1>4. row \in ChatRows /\ row.selected = selected /\ chats' = Put(chats, g, row)
    BY <1>1 DEF ChatRows
  <1> HIDE DEF row
  <1>5. Statement /\ SelKeys' = IF selected THEN SelKeys \cup {g} ELSE SelKeys \ {g}
    BY <1>1, <1>2, <1>3, <1>4, ChatWritten
  <1>6. \A b \in Actors :
          /\ req'[b] \in Requests /\ AloneAside(req'[b], req[b])
          /\ req'[b].alone => req[b].alone /\ req[b].kind # "save"
    <2>1. TAKE b \in Actors
    <2>2. /\ req[b] \in Requests /\ DOMAIN req = Actors
      BY <1>2 DEF RequestTypes
    <2>3. req'[b] = [req[b] EXCEPT !.alone = req[b].alone /\ req[b].kind # "save"]
      BY <1>1, <2>2
    <2>4. QED  BY <2>2, <2>3 DEF Requests, AloneAside
  <1>7. RequestTypes' /\ JobTypes'
    <2>1. req' \in [Actors -> Requests]  BY <1>1, <1>2, <1>6 DEF RequestTypes
    <2>2. \A b \in Actors : RequestOK(req'[b])  BY <1>2, <1>6, AsideOK DEF RequestTypes
    <2>3. \A b \in Actors : RequestOK(req[b])'
      BY <1>1, <2>2, SameTable DEF RequestOK
    <2>4. \A b \in Actors : req'[b].pc = req[b].pc  BY <1>6 DEF AloneAside
    <2>5. \A p \in Pages : JobOK(p)'
      BY <1>2, <2>4, PageActors DEF JobTypes, JobOK, Syncing, docVars
    <2>6. QED  BY <1>2, <2>1, <2>3, <2>5 DEF RequestTypes, JobTypes, docVars
  <1>8. PageTypes'  BY <1>1, PagesKept DEF Shapes
  <1>9. IndexTypes'  BY IndexKept DEF Shapes, docVars, index
  <1>10. CountTypes'
    <2>1. requests' \in 0..scenario.starts  BY <1>1, <1>2
    <2>2. chosen' \subseteq Things /\ takenOut' \subseteq Things
      BY <1>1 DEF Shapes, CountTypes, Things
    <2>3. QED  BY <1>1, <2>1, <2>2 DEF Shapes, CountTypes, unseen
  <1>11. Shapes'  BY <1>5, <1>7, <1>8, <1>9, <1>10 DEF Shapes, Statement
  <1>12. Curled(g, selected)  BY <1>1, <1>5, <1>6 DEF Curled
  <1>13. QED  BY <1>11, <1>12

\* Nothing of the sources or the pages changes.
LEMMA SourcesKept ==
  ASSUME Shapes, UNCHANGED vars
  PROVE  /\ TableTypes' /\ RequestTypes' /\ PageTypes' /\ CountTypes'
         /\ Statement /\ SelKeys' = SelKeys /\ (InStep => InStep')
  <1>1. UNCHANGED <<scenario, chats, contacts, documents, req, requests, greeted, excused,
                    items, joined, ticks, toggles, chosen, takenOut>>
    BY DEF vars, sourceVars, tables, pageVars, history
  <1>2. Statement /\ SelKeys' = SelKeys /\ (InStep => InStep')
    BY <1>1, NoStatement DEF Shapes, tables
  <1>3. RequestTypes'
    <2>1. \A a \in Actors : RequestOK(req'[a])  BY <1>1 DEF Shapes, RequestTypes
    <2>2. \A a \in Actors : RequestOK(req[a])'  BY <1>1, <2>1, SameTable DEF RequestOK
    <2>3. QED  BY <1>1, <2>2 DEF Shapes, RequestTypes
  <1>4. PageTypes'  BY <1>1, PagesKept DEF Shapes, pageVars
  <1>5. CountTypes'  BY <1>1 DEF Shapes, CountTypes
  <1>6. QED  BY <1>2, <1>3, <1>4, <1>5 DEF Statement

LEMMA EditStep ==
  ASSUME Shapes, NEW d \in Docx, Edit(d)
  PROVE  Shapes'
  <1>1. PICK v \in Versions : edits < MaxEdits /\ edits' = edits + 1 /\ remote' = [remote EXCEPT ![d] = v]
    BY DEF Edit
  <1>2. UNCHANGED vars /\ UNCHANGED <<index, job, muddled>>  BY DEF Edit
  <1>3. IndexTypes'
    BY <1>1, <1>2, DocumentsAssumption DEF Shapes, IndexTypes, index
  <1>4. JobTypes'
    BY <1>2 DEF Shapes, JobTypes, JobOK, Syncing, vars, sourceVars
  <1>5. QED  BY <1>2, <1>3, <1>4, SourcesKept DEF Shapes

-----------------------------------------------------------------------------
(* The steps of a sync *)

\* Job p becomes z, and nothing of the sources or the pages changes.
JobMove(p, z) == job' = [job EXCEPT ![p] = z] /\ UNCHANGED others

\* What JobOK says of the job alone.
JobShape(z) ==
  /\ z \in Jobs
  /\ z.pc \in {"idle", "list", "next"} <=> z.doc = NoDoc
  /\ z.pc = "unit" => z.text \in Versions /\ 0 < Pieces[z.text]
  /\ z.pc = "chunk" => z.text \in Versions /\ z.idx < Pieces[z.text]

LEMMA JobFacts ==
  ASSUME Shapes, NEW p \in Pages
  PROVE  /\ job \in [Pages -> Jobs] /\ job[p] \in Jobs /\ JobOK(p) /\ JobShape(job[p])
         /\ job[p].todo \subseteq Docs /\ job[p].idx \in Nat
         /\ job[p].failed \in BOOLEAN /\ job[p].alone \in BOOLEAN
         /\ job[p].pc \in {"unit", "chunk", "result"} => job[p].doc \in Docs
  BY DEF Shapes, JobTypes, JobOK, JobShape, Jobs

LEMMA JobShapes ==
  ASSUME Shapes, NEW p \in Pages, NEW z, JobShape(z), Syncing(p), JobMove(p, z), IndexTypes'
  PROVE  Shapes'
  <1>1. job' = [job EXCEPT ![p] = z] /\ UNCHANGED others  BY DEF JobMove
  <1>2. job \in [Pages -> Jobs] /\ z \in Jobs /\ UNCHANGED vars /\ UNCHANGED req
    BY <1>1, JobFacts DEF JobShape, others, vars, sourceVars
  <1>3. job' \in [Pages -> Jobs] /\ job'[p] = z /\ \A q \in Pages : q # p => job'[q] = job[q]
    BY <1>1, <1>2
  <1>4. \A q \in Pages : JobOK(q)'
    <2>1. TAKE q \in Pages
    <2>2. CASE q = p
      <3>1. req[p].pc = "sync"  BY JobFacts DEF JobOK
      <3>2. QED  BY <1>2, <1>3, <2>2, <3>1 DEF JobOK, JobShape, Syncing
    <2>3. CASE q # p
      BY <1>2, <1>3, <2>3, JobFacts DEF JobOK, Syncing
    <2>4. QED  BY <2>2, <2>3
  <1>5. QED  BY <1>2, <1>3, <1>4, SourcesKept DEF Shapes, JobTypes

\* A sync goes on as z.
Works(p, z) ==
  /\ JobMove(p, z) /\ JobShape(z) /\ Syncing(p) /\ z.pc # "idle" /\ z.alone = job[p].alone

\* It goes on without touching the index.
LEMMA WorksShapes ==
  ASSUME Shapes, NEW p \in Pages, NEW z, Works(p, z), UNCHANGED <<index, muddled>>
  PROVE  Shapes'
  <1>1. IndexTypes'
    BY IndexKept DEF Shapes, Works, JobMove, others, index
  <1>2. QED  BY <1>1, JobShapes DEF Works

LEMMA SyncListStep ==
  ASSUME Shapes, NEW p \in Pages, SyncList(p)
  PROVE  \E z \in Jobs : Works(p, z) /\ z.pc = "next" /\ UNCHANGED <<index, muddled>> /\ Shapes'
  <1> DEFINE z == [job[p] EXCEPT !.pc = "next", !.todo = Who(ListSelectedDocuments)]
  <1>1. /\ job[p].pc = "list" /\ job' = [job EXCEPT ![p] = z]
        /\ UNCHANGED <<others, index, muddled>>
    BY DEF SyncList, JobAt
  <1>2. Who(ListSelectedDocuments) \subseteq Docs
    <2>1. ListSelectedDocuments \subseteq ListCachedDocuments  BY DEF ListSelectedDocuments, SelectedOf
    <2>2. scenario \in Scenarios /\ TableTypes /\ DOMAIN documents \subseteq Docs
      BY DEF Shapes, CountTypes, TableTypes
    <2>3. Who(ListCachedDocuments) \subseteq Docs  BY <2>2, ListTypes
    <2>4. QED  BY <2>1, <2>3, WhoMonotone
  <1>3. /\ z \in Jobs /\ z.pc = "next" /\ z.doc = job[p].doc /\ z.alone = job[p].alone
    BY <1>2, JobFacts DEF Jobs
  <1> HIDE DEF z
  <1>4. Works(p, z)
    BY <1>1, <1>3, JobFacts DEF Works, JobMove, JobShape, Syncing
  <1>5. QED  BY <1>1, <1>3, <1>4, WorksShapes

\* A document that cannot be had.
LEMMA NoTextStep ==
  ASSUME Shapes, NEW p \in Pages, Unsupported(p) \/ FetchTextFails(p)
  PROVE  \E z \in Jobs :
           /\ Works(p, z) /\ z.pc = "result" /\ z.failed /\ UNCHANGED <<index, muddled>> /\ Shapes'
  <1>1. PICK d \in job[p].todo :
          /\ job[p].pc = "next"
          /\ job' = [job EXCEPT ![p].pc = "result", ![p].todo = @ \ {d},
                                ![p].doc = d, ![p].failed = TRUE]
          /\ UNCHANGED <<others, index, muddled>>
    BY DEF Unsupported, FetchTextFails, JobAt
  <1> DEFINE z == [job[p] EXCEPT !.pc = "result", !.todo = job[p].todo \ {d},
                                 !.doc = d, !.failed = TRUE]
  <1>2. job' = [job EXCEPT ![p] = z]  BY <1>1
  <1>3. d \in Docs /\ NoDoc \notin Docs  BY JobFacts, DocumentsAssumption
  <1>4. /\ z \in Jobs /\ z.pc = "result" /\ z.failed /\ z.doc = d /\ z.alone = job[p].alone
    BY <1>3, JobFacts DEF Jobs
  <1> HIDE DEF z
  <1>5. Works(p, z)
    BY <1>1, <1>2, <1>3, <1>4 DEF Works, JobMove, JobShape, Syncing
  <1>6. QED  BY <1>1, <1>4, <1>5, WorksShapes

LEMMA FetchTextStep ==
  ASSUME Shapes, NEW p \in Pages, FetchText(p)
  PROVE  \E z \in Jobs : Works(p, z) /\ z.pc = "unit" /\ UNCHANGED <<index, muddled>> /\ Shapes'
  <1>1. PICK d \in job[p].todo \cap Docx :
          /\ job[p].pc = "next" /\ Pieces[remote[d]] > 0
          /\ job' = [job EXCEPT ![p].pc = "unit", ![p].todo = @ \ {d}, ![p].doc = d,
                                ![p].text = remote[d], ![p].failed = FALSE]
          /\ UNCHANGED <<others, index, muddled>>
    BY DEF FetchText, JobAt
  <1> DEFINE z == [job[p] EXCEPT !.pc = "unit", !.todo = job[p].todo \ {d}, !.doc = d,
                                 !.text = remote[d], !.failed = FALSE]
  <1>2. job' = [job EXCEPT ![p] = z]  BY <1>1
  <1>3. d \in Docs /\ d # NoDoc /\ remote[d] \in Versions
    BY JobFacts, DocumentsAssumption DEF Shapes, IndexTypes
  <1>4. /\ z \in Jobs /\ z.pc = "unit" /\ z.text = remote[d] /\ z.doc = d
        /\ z.alone = job[p].alone
    BY <1>3, JobFacts DEF Jobs
  <1>5. 0 < Pieces[z.text]  BY <1>1, <1>3, <1>4, DocumentsAssumption
  <1> HIDE DEF z
  <1>6. Works(p, z)
    BY <1>1, <1>2, <1>3, <1>4, <1>5 DEF Works, JobMove, JobShape, Syncing
  <1>7. QED  BY <1>1, <1>4, <1>6, WorksShapes

-----------------------------------------------------------------------------
(* IndexDocument *)

\* A job that is at a document and its text.
JobFactsOf(p) == job[p].doc \in Docs /\ job[p].text \in Versions /\ job[p].idx \in Nat

LEMMA UnitWritten ==
  ASSUME IndexTypes, NEW p \in Pages, JobFactsOf(p), WriteUnit(p)
  PROVE  /\ DOMAIN units' = DOMAIN units \cup {job[p].doc} /\ units'[job[p].doc] = job[p].text
         /\ \A d \in DOMAIN units : d # job[p].doc => units'[d] = units[d]
         /\ DOMAIN units' \subseteq Docs /\ units' \in [DOMAIN units' -> Versions]
  BY DEF JobFactsOf, WriteUnit, Put, IndexTypes

LEMMA ChunkWritten ==
  ASSUME IndexTypes, NEW p \in Pages, JobFactsOf(p), WriteChunk(p)
  PROVE  /\ DOMAIN chunks' = DOMAIN chunks \cup {<<job[p].doc, job[p].idx>>}
         /\ chunks'[<<job[p].doc, job[p].idx>>] = job[p].text
         /\ \A c \in DOMAIN chunks : c # <<job[p].doc, job[p].idx>> => chunks'[c] = chunks[c]
         /\ DOMAIN chunks' \subseteq Docs \X Nat /\ chunks' \in [DOMAIN chunks' -> Versions]
  <1> DEFINE c == <<job[p].doc, job[p].idx>>
  <1>1. c \in Docs \X Nat  BY DEF JobFactsOf
  <1>2. chunks' = Put(chunks, c, job[p].text)  BY DEF WriteChunk
  <1> HIDE DEF c
  <1>3. QED  BY <1>1, <1>2 DEF JobFactsOf, Put, IndexTypes, c

LEMMA AtIndex ==
  ASSUME Shapes, NEW p \in Pages, job[p].pc \in {"unit", "chunk"}
  PROVE  JobFactsOf(p) /\ Syncing(p) /\ job[p].doc # NoDoc
  BY JobFacts, DocumentsAssumption DEF JobFactsOf, JobShape, Syncing

LEMMA UpsertUnitStep ==
  ASSUME Shapes, NEW p \in Pages, UpsertUnit(p)
  PROVE  \E z \in Jobs :
           /\ Works(p, z) /\ job[p].pc = "unit" /\ z.pc = "chunk" /\ z.idx = 0
           /\ z.doc = job[p].doc /\ z.text = job[p].text
           /\ WriteUnit(p) /\ UNCHANGED <<chunks, muddled>> /\ Shapes'
  <1> DEFINE z == [job[p] EXCEPT !.pc = "chunk", !.idx = 0]
  <1>1. /\ job[p].pc = "unit" /\ WriteUnit(p) /\ job' = [job EXCEPT ![p] = z]
        /\ UNCHANGED <<others, chunks, muddled>>
    BY DEF UpsertUnit, JobAt
  <1>2. /\ z \in Jobs /\ z.pc = "chunk" /\ z.idx = 0 /\ z.doc = job[p].doc
        /\ z.text = job[p].text /\ z.alone = job[p].alone
    BY JobFacts DEF Jobs
  <1> HIDE DEF z
  <1>3. Works(p, z)
    BY <1>1, <1>2, JobFacts, AtIndex DEF Works, JobMove, JobShape
  <1>4. IndexTypes'
    BY <1>1, AtIndex, UnitWritten DEF Shapes, IndexTypes, others
  <1>5. QED  BY <1>1, <1>2, <1>3, <1>4, JobShapes DEF Works

LEMMA UpsertChunkStep ==
  ASSUME Shapes, NEW p \in Pages, UpsertChunk(p)
  PROVE  \E z \in Jobs :
           /\ Works(p, z) /\ job[p].pc = "chunk" /\ z.idx = job[p].idx + 1
           /\ z.pc = IF z.idx < Pieces[job[p].text] THEN "chunk" ELSE "result"
           /\ z.doc = job[p].doc /\ z.text = job[p].text
           /\ WriteChunk(p) /\ UNCHANGED <<units, muddled>> /\ Shapes'
  <1> DEFINE last == Pieces[job[p].text] - 1
             label == IF job[p].idx < last THEN "chunk" ELSE "result"
             z == [job[p] EXCEPT !.idx = job[p].idx + 1, !.pc = label]
  <1>1. /\ job[p].pc = "chunk" /\ WriteChunk(p) /\ job' = [job EXCEPT ![p] = z]
        /\ UNCHANGED <<others, units, muddled>>
    BY DEF UpsertChunk, JobAt
  <1>2. /\ z \in Jobs /\ z.pc = label /\ z.idx = job[p].idx + 1 /\ z.doc = job[p].doc
        /\ z.text = job[p].text /\ z.alone = job[p].alone
    <2>1. label \in {"chunk", "result"} /\ job[p] \in Jobs /\ job[p].idx + 1 \in Nat
      BY JobFacts
    <2> HIDE DEF label
    <2>2. QED  BY <2>1 DEF Jobs
  <1>3. job[p].text \in Versions /\ Pieces[job[p].text] \in Nat /\ job[p].idx \in Nat
    BY <1>1, JobFacts, AtIndex, DocumentsAssumption DEF JobFactsOf
  <1> HIDE DEF z
  <1>4. z.pc = IF z.idx < Pieces[job[p].text] THEN "chunk" ELSE "result"
    BY <1>2, <1>3
  <1>5. Works(p, z)
    BY <1>1, <1>2, <1>3, <1>4, AtIndex DEF Works, JobMove, JobShape
  <1>6. IndexTypes'
    BY <1>1, AtIndex, ChunkWritten DEF Shapes, IndexTypes, others
  <1>7. QED  BY <1>1, <1>2, <1>4, <1>5, <1>6, JobShapes DEF Works

LEMMA IndexFailsStep ==
  ASSUME Shapes, NEW p \in Pages, IndexFails(p)
  PROVE  \E z \in Jobs :
           /\ Works(p, z) /\ job[p].pc \in {"unit", "chunk"} /\ z.pc = "result" /\ z.failed
           /\ z.doc = job[p].doc
           /\ \/ WriteUnit(p) /\ UNCHANGED chunks
              \/ WriteChunk(p) /\ UNCHANGED units
              \/ UNCHANGED index
           /\ UNCHANGED muddled /\ Shapes'
  <1> DEFINE z == [job[p] EXCEPT !.pc = "result", !.failed = TRUE]
  <1>1. /\ job[p].pc \in {"unit", "chunk"} /\ job' = [job EXCEPT ![p] = z]
        /\ UNCHANGED <<others, muddled>>
        /\ \/ WriteUnit(p) /\ UNCHANGED chunks
           \/ WriteChunk(p) /\ UNCHANGED units
           \/ UNCHANGED index
    BY DEF IndexFails, JobAt
  <1>2. z \in Jobs /\ z.pc = "result" /\ z.failed /\ z.doc = job[p].doc /\ z.alone = job[p].alone
    BY JobFacts DEF Jobs
  <1> HIDE DEF z
  <1>3. Works(p, z)
    BY <1>1, <1>2, JobFacts, AtIndex DEF Works, JobMove, JobShape
  <1>4. IndexTypes'
    <2>1. IndexTypes /\ JobFactsOf(p)  BY <1>1, AtIndex DEF Shapes
    <2>2. CASE WriteUnit(p) /\ UNCHANGED chunks
      BY <1>1, <2>1, <2>2, UnitWritten DEF IndexTypes, others
    <2>3. CASE WriteChunk(p) /\ UNCHANGED units
      BY <1>1, <2>1, <2>3, ChunkWritten DEF IndexTypes, others
    <2>4. CASE UNCHANGED index  BY <1>1, <2>1, <2>4, IndexKept DEF others
    <2>5. QED  BY <1>1, <2>2, <2>3, <2>4
  <1>5. QED  BY <1>1, <1>2, <1>3, <1>4, JobShapes DEF Works

-----------------------------------------------------------------------------
(* The outcome, the answer and the click *)

LEMMA NextJob ==
  ASSUME Shapes, NEW p \in Pages, job[p].pc = "result", NextDocument(p)
  PROVE  \E z \in Jobs :
           /\ job' = [job EXCEPT ![p] = z] /\ JobShape(z) /\ Syncing(p)
           /\ z.pc = "next" /\ z.alone = job[p].alone
  <1> DEFINE z == [NoJob EXCEPT !.pc = "next", !.todo = job[p].todo, !.alone = job[p].alone]
  <1>1. job' = [job EXCEPT ![p] = z]  BY DEF NextDocument
  <1>2. z \in Jobs /\ z.pc = "next" /\ z.doc = NoDoc /\ z.alone = job[p].alone
    BY JobFacts DEF Jobs, NoJob
  <1> HIDE DEF z
  <1>3. JobShape(z) /\ Syncing(p)  BY <1>2 DEF JobShape, Syncing
  <1>4. QED  BY <1>1, <1>2, <1>3

LEMMA SaveResultStep ==
  ASSUME Shapes, NEW p \in Pages, SaveResult(p)
  PROVE  \E z \in Jobs :
           /\ job' = [job EXCEPT ![p] = z] /\ Syncing(p) /\ z.pc = "next" /\ z.alone = job[p].alone
           /\ job[p].pc = "result"
           /\ SaveDocumentSyncResult(job[p].doc, job[p].failed)
           /\ muddled' = IF job[p].alone THEN muddled \ {job[p].doc} ELSE muddled
           /\ UNCHANGED <<scenario, chats, contacts, req, unseen, pageVars, history, remote, index>>
           /\ TableTypes' /\ ChatIDsStay /\ SelKeys' = SelKeys /\ (InStep => InStep')
           /\ Shapes'
  <1>1. /\ job[p].pc = "result" /\ SaveDocumentSyncResult(job[p].doc, job[p].failed)
        /\ NextDocument(p)
        /\ muddled' = IF job[p].alone THEN muddled \ {job[p].doc} ELSE muddled
        /\ UNCHANGED <<scenario, chats, contacts, req, requests, unseen, pageVars, toggles, history,
                       remote, index, edits>>
    BY DEF SaveResult, JobAt
  <1>2. PICK z \in Jobs :
           /\ job' = [job EXCEPT ![p] = z] /\ JobShape(z) /\ Syncing(p)
           /\ z.pc = "next" /\ z.alone = job[p].alone
    BY <1>1, NextJob
  <1>3. TableTypes' /\ ChatIDsStay /\ SelKeys' = SelKeys /\ (InStep => InStep')
    BY <1>1, JobFacts, RecordEffect DEF Shapes
  <1>4. RequestTypes'
    <2>1. \A a \in Actors : RequestOK(req'[a])  BY <1>1 DEF Shapes, RequestTypes
    <2>2. \A a \in Actors : RequestOK(req[a])'  BY <1>1, <2>1, SameTable DEF RequestOK
    <2>3. QED  BY <1>1, <2>2 DEF Shapes, RequestTypes
  <1>5. PageTypes'  BY <1>1, PagesKept DEF Shapes
  <1>6. CountTypes'  BY <1>1 DEF Shapes, CountTypes, unseen, history
  <1>7. IndexTypes'  BY <1>1 DEF Shapes, IndexTypes, index
  <1>8. JobTypes'
    <2>1. job' \in [Pages -> Jobs] /\ job'[p] = z /\ \A q \in Pages : q # p => job'[q] = job[q]
      BY <1>2, JobFacts
    <2>2. req[p].pc = "sync"  BY <1>2, JobFacts DEF JobOK
    <2>3. \A q \in Pages : JobOK(q)'
      <3>1. TAKE q \in Pages
      <3>2. CASE q = p  BY <1>1, <1>2, <2>1, <2>2, <3>2 DEF JobOK, JobShape, Syncing
      <3>3. CASE q # p  BY <1>1, <2>1, <3>3, JobFacts DEF JobOK, Syncing
      <3>4. QED  BY <3>2, <3>3
    <2>4. QED  BY <2>1, <2>3 DEF JobTypes
  <1>9. Shapes'  BY <1>3, <1>4, <1>5, <1>6, <1>7, <1>8 DEF Shapes
  <1>10. QED  BY <1>1, <1>2, <1>3, <1>9

LEMMA SaveResultFailsStep ==
  ASSUME Shapes, NEW p \in Pages, SaveResultFails(p)
  PROVE  \E z \in Jobs :
           /\ Works(p, z) /\ z.pc = "next" /\ muddled' = muddled \cup {job[p].doc}
           /\ UNCHANGED index /\ Shapes'
  <1>1. /\ job[p].pc = "result" /\ NextDocument(p) /\ muddled' = muddled \cup {job[p].doc}
        /\ UNCHANGED <<others, index>>
    BY DEF SaveResultFails, JobAt
  <1>2. PICK z \in Jobs :
           /\ job' = [job EXCEPT ![p] = z] /\ JobShape(z) /\ Syncing(p)
           /\ z.pc = "next" /\ z.alone = job[p].alone
    BY <1>1, NextJob
  <1>3. Works(p, z)  BY <1>1, <1>2 DEF Works, JobMove
  <1>4. IndexTypes'  BY <1>1, JobFacts DEF Shapes, IndexTypes, others, index
  <1>5. QED  BY <1>1, <1>2, <1>3, <1>4, JobShapes DEF Works

\* The answer: request p becomes y, and its job ends.
LEMMA SyncAnswersStep ==
  ASSUME Shapes, NEW p \in Pages, SyncListFails(p) \/ SyncEnds(p)
  PROVE  \E y \in Requests :
           /\ req' = [req EXCEPT ![p] = y] /\ req[p].pc = "sync"
           /\ y.pc \in {"ok", "failed"} /\ y.kind = "sync" /\ y.kind = req[p].kind
           /\ y.answer = req[p].answer /\ y.alone = req[p].alone
           /\ job' = [job EXCEPT ![p] = NoJob]
           /\ UNCHANGED <<scenario, tables, unseen, pageVars, history, remote, index, edits, muddled>>
           /\ Shapes'
  <1>1. PICK label \in {"ok", "failed"} :
          /\ Syncing(p) /\ req' = [req EXCEPT ![p].pc = label] /\ job' = [job EXCEPT ![p] = NoJob]
          /\ UNCHANGED <<scenario, tables, requests, unseen, pageVars, toggles, history,
                         remote, index, edits, muddled>>
    BY DEF SyncListFails, SyncEnds, SyncAnswers, JobAt, Syncing
  <1>2. /\ p \in Actors /\ req[p].pc = "sync" /\ req[p].kind = "sync"
        /\ req[p] \in Requests /\ RequestOK(req[p])
    BY <1>1, PageActors, JobFacts, HandlerFacts DEF JobOK, RequestOK
  <1> DEFINE y == [req[p] EXCEPT !.pc = label]
  <1>3. req' = [req EXCEPT ![p] = y]  BY <1>1
  <1>4. /\ y \in Requests /\ y.kind = req[p].kind /\ y.pc = label /\ y.alone = req[p].alone
        /\ y.todo = req[p].todo /\ y.posted = req[p].posted /\ y.answer = req[p].answer
    BY <1>2 DEF Requests
  <1> HIDE DEF y
  <1>5. RequestOK(y)  BY <1>2, <1>4 DEF RequestOK
  <1>6. /\ RequestTypes' /\ req'[p] = y /\ \A b \in Actors : b # p => req'[b] = req[b]
    BY <1>1, <1>2, <1>3, <1>4, <1>5, RequestMove
  <1>7. JobTypes'
    <2>1. NoJob \in Jobs /\ NoJob.pc = "idle" /\ NoJob.doc = NoDoc  BY DEF NoJob, Jobs
    <2>2. job' \in [Pages -> Jobs] /\ job'[p] = NoJob /\ \A q \in Pages : q # p => job'[q] = job[q]
      BY <1>1, <2>1, JobFacts
    <2>3. \A q \in Pages : JobOK(q)'
      <3>1. TAKE q \in Pages
      <3>2. CASE q = p  BY <2>1, <2>2, <3>2 DEF JobOK, Syncing
      <3>3. CASE q # p  BY <1>6, <2>2, <3>3, JobFacts, PageActors DEF JobOK, Syncing
      <3>4. QED  BY <3>2, <3>3
    <2>4. QED  BY <2>2, <2>3 DEF JobTypes
  <1>8. TableTypes'  BY <1>1, <1>2, HandlerFacts, NoStatement DEF Statement
  <1>9. PageTypes'  BY <1>1, PagesKept DEF Shapes
  <1>10. CountTypes'  BY <1>1 DEF Shapes, CountTypes, unseen, history
  <1>11. IndexTypes'  BY <1>1, IndexKept DEF Shapes, index
  <1>12. Shapes'  BY <1>6, <1>7, <1>8, <1>9, <1>10, <1>11 DEF Shapes
  <1>13. QED  BY <1>1, <1>2, <1>3, <1>4, <1>12

LEMMA ClickSyncStep ==
  ASSUME Shapes, NEW p \in Pages, ClickSync(p)
  PROVE  /\ \E request \in Requests : Incoming(p, request)
         /\ \A q \in Pages : q # p =>
              /\ job'[q].pc = job[q].pc /\ job'[q].doc = job[q].doc /\ job'[q].text = job[q].text
              /\ job'[q].idx = job[q].idx /\ job'[q].failed = job[q].failed
              /\ Syncing(q) => ~job'[q].alone
              /\ ~Syncing(q) => job'[q].pc = "idle"
         /\ job'[p].pc = "list" /\ (job'[p].alone <=> \A q \in Pages : ~Syncing(q))
         /\ ~Syncing(p) /\ muddled' = IF \A q \in Pages : ~Syncing(q) THEN muddled ELSE Docs
         /\ UNCHANGED <<remote, index>>
         /\ Shapes'
  <1> DEFINE request == New("sync", "sync")
             syncs == {q \in Pages : Syncing(q)}
             mine == [NoJob EXCEPT !.pc = "list", !.alone = syncs = {}]
             other(q) == [job[q] EXCEPT !.alone = q \notin syncs]
  <1>1. /\ Begin(p, request)
        /\ job' = [q \in Pages |-> IF q = p THEN mine ELSE other(q)]
        /\ muddled' = IF syncs = {} THEN muddled ELSE Docs
        /\ UNCHANGED <<scenario, tables, unseen, pageVars, toggles, history, remote, index, edits>>
    BY DEF ClickSync, New
  <1>2. p \in Actors /\ scenario \in Scenarios /\ "sync" \in scenario.kinds
    BY <1>1, PageActors, HandlerFacts, NewFacts DEF Begin
  <1>3. /\ request \in Requests /\ RequestOK(request) /\ request.kind = "sync"
        /\ request.pc = "sync" /\ request.answer = {}
    BY <1>2, NewFacts, NewOK
  <1> HIDE DEF request
  <1>4. Begun(p, request) /\ RequestTypes' /\ requests' \in 0..scenario.starts
    BY <1>1, <1>2, <1>3, BeginMove
  <1>5. /\ mine \in Jobs /\ mine.pc = "list" /\ mine.doc = NoDoc /\ (mine.alone <=> syncs = {})
    BY DEF NoJob, Jobs
  <1>6. \A q \in Pages :
          /\ other(q) \in Jobs /\ other(q).pc = job[q].pc /\ other(q).doc = job[q].doc
          /\ other(q).text = job[q].text /\ other(q).idx = job[q].idx
          /\ other(q).failed = job[q].failed /\ (other(q).alone <=> q \notin syncs)
    <2>1. TAKE q \in Pages
    <2>2. job[q] \in Jobs  BY JobFacts
    <2>3. QED  BY <2>2 DEF Jobs
  <1> HIDE DEF mine, other, syncs
  <1>7. /\ job' \in [Pages -> Jobs] /\ job'[p] = mine
        /\ \A q \in Pages : q # p => job'[q] = other(q)
    BY <1>1, <1>5, <1>6
  <1>8. req[p].pc = "idle" /\ req'[p].pc = "sync"
        /\ \A q \in Pages : q # p => req'[q].pc = req[q].pc
    BY <1>3, <1>4, PageActors DEF Begun, AloneAside
  <1>9. ~Syncing(p)  BY <1>8, JobFacts DEF JobOK
  <1>10. JobTypes'
    <2>1. \A q \in Pages : JobOK(q)'
      <3>1. TAKE q \in Pages
      <3>2. CASE q = p  BY <1>5, <1>7, <1>8, <3>2 DEF JobOK, Syncing
      <3>3. CASE q # p  BY <1>6, <1>7, <1>8, <3>3, JobFacts DEF JobOK, Syncing
      <3>4. QED  BY <3>2, <3>3
    <2>2. QED  BY <1>7, <2>1 DEF JobTypes
  <1>11. Statement /\ UNCHANGED <<greeted, excused, chosen, takenOut, items, joined, ticks, toggles>>
    BY <1>1, <1>2, HandlerFacts, NoStatement DEF unseen, history, pageVars
  <1>12. Shapes'
    <2>1. PageTypes'  BY <1>1, PagesKept DEF Shapes
    <2>2. CountTypes'  BY <1>1, <1>4, <1>11 DEF Shapes, CountTypes
    <2>3. IndexTypes'  BY <1>1 DEF Shapes, IndexTypes, index
    <2>4. QED  BY <1>4, <1>10, <1>11, <2>1, <2>2, <2>3 DEF Shapes, Statement
  <1>13. Incoming(p, request)
    BY <1>1, <1>3, <1>4, <1>11 DEF Incoming
  <1>14. syncs = {} <=> \A q \in Pages : ~Syncing(q)  BY DEF syncs
  <1>15. \A q \in Pages : q \in syncs <=> Syncing(q)  BY DEF syncs
  <1>16. \A q \in Pages : q # p =>
              /\ job'[q].pc = job[q].pc /\ job'[q].doc = job[q].doc /\ job'[q].text = job[q].text
              /\ job'[q].idx = job[q].idx /\ job'[q].failed = job[q].failed
              /\ Syncing(q) => ~job'[q].alone
              /\ ~Syncing(q) => job'[q].pc = "idle"
    BY <1>6, <1>7, <1>15 DEF Syncing
  <1>17. QED
    BY <1>1, <1>3, <1>5, <1>7, <1>9, <1>12, <1>13, <1>14, <1>16

-----------------------------------------------------------------------------
(* The initial states *)

LEMMA FreshTables ==
  ASSUME scenario \in Scenarios, NEW saved \in SUBSET Remote,
         chats = [g \in Groups \cap Remote |->
                   [selected |-> g \in saved, sync |-> g \in saved, auto |-> FALSE]],
         contacts = [p \in HasOpenID \cap Remote |->
                      [who |-> p, selected |-> p \in saved, chat |-> NoChat]],
         documents = [d \in Docs \cap Remote |->
                       [selected |-> d \in saved, synced |-> FALSE, error |-> FALSE]]
  PROVE  /\ TableTypes
         /\ \A k \in DOMAIN contacts : contacts[k].chat = NoChat
         /\ \A d \in DOMAIN documents : documents[d].synced = FALSE
  <1>1. /\ Groups \cap Persons = {} /\ Groups \cap Docs = {} /\ Persons \cap Docs = {}
        /\ HasOpenID \subseteq Persons
    BY SourcesAssumption
  <1>2. OneTable
    <2>1. /\ tab # "chat" => Groups \cap Remote = {}
          /\ tab # "contact" => HasOpenID \cap Remote = {}
          /\ tab # "document" => Docs \cap Remote = {}
      BY <1>1, TabFacts
    <2>2. QED  BY <2>1 DEF OneTable
  <1>3. DOMAIN chats \subseteq Groups /\ chats \in [DOMAIN chats -> ChatRows]
    BY DEF ChatRows
  <1>4. /\ contacts \in [DOMAIN contacts -> ContactRows]
        /\ \A k \in DOMAIN contacts : Key(contacts[k].who) = k /\ contacts[k].chat = NoChat
    BY <1>1 DEF ContactRows, Key
  <1>5. /\ DOMAIN documents \subseteq Docs /\ documents \in [DOMAIN documents -> DocumentRows]
        /\ \A d \in DOMAIN documents : documents[d].synced = FALSE
    BY DEF DocumentRows
  <1>6. QED  BY <1>2, <1>3, <1>4, <1>5 DEF TableTypes

LEMMA InitFacts ==
  ASSUME DocInit
  PROVE  /\ TableTypes /\ scenario \in Scenarios /\ greeted = [p \in Persons |-> 0]
         /\ \A k \in DOMAIN contacts : contacts[k].chat = NoChat
         /\ \A d \in DOMAIN documents : documents[d].synced = FALSE
         /\ req = [a \in Actors |-> NoRequest] /\ requests = 0 /\ excused = {}
         /\ job = [p \in Pages |-> NoJob]
  BY FreshTables DEF DocInit, Init, SourceInit, Actors

LEMMA InitShapes == DocInit => Shapes
  <1> SUFFICES ASSUME DocInit  PROVE Shapes
    OBVIOUS
  <1>1. RequestTypes
    BY InitFacts, NoRequestType DEF RequestTypes
  <1> DEFINE L == ListCached
  <1>2. L \subseteq Items /\ Who(L) \subseteq Remote /\ Remote \subseteq Things
    BY InitFacts, ListTypes, TabFacts
  <1>3. /\ items = [p \in Pages |-> L] /\ joined = [p \in Pages |-> SelectedOf(L)]
        /\ ticks = [p \in Pages |-> Who(SelectedOf(L))] /\ chosen = Who(SelectedOf(L))
        /\ toggles = 0 /\ takenOut = {}
    BY DEF DocInit, Init
  <1> HIDE DEF L
  <1>4. SelectedOf(L) \subseteq SelectedOf(Items) /\ Who(SelectedOf(L)) \subseteq Who(L)
    BY <1>2, WhoMonotone DEF SelectedOf
  <1>5. PageTypes
    BY <1>2, <1>3, <1>4 DEF PageTypes
  <1>6. CountTypes
    BY <1>2, <1>3, <1>4, InitFacts, ScenariosAssumption, PagesAssumption DEF CountTypes
  <1>7. IndexTypes
    BY DocumentsAssumption DEF DocInit, IndexTypes
  <1>8. JobTypes
    <2>1. NoJob \in Jobs /\ NoJob.pc = "idle" /\ NoJob.doc = NoDoc  BY DEF NoJob, Jobs
    <2>2. job \in [Pages -> Jobs] /\ \A p \in Pages : job[p] = NoJob  BY <2>1, InitFacts
    <2>3. QED  BY <2>1, <2>2 DEF JobTypes, JobOK, Syncing
  <1>9. QED  BY <1>1, <1>5, <1>6, <1>7, <1>8, InitFacts DEF Shapes

-----------------------------------------------------------------------------
(* What every step is *)

\* Boxes are clicked.
Toggled ==
  /\ UNCHANGED <<sourceVars, items, joined>> /\ chosen \subseteq chosen'
  /\ \A q \in Pages : ticks'[q] \subseteq ticks[q] \cup chosen'

\* A sync is answered.
Answered(p, y) ==
  /\ req' = [req EXCEPT ![p] = y] /\ req[p].kind = "sync" /\ req[p].pc = "sync"
  /\ y.kind = "sync" /\ y.pc \in {"ok", "failed"} /\ y.answer = req[p].answer
  /\ UNCHANGED <<scenario, tables, unseen, pageVars, history>>

\* An outcome is recorded.
Recorded ==
  /\ UNCHANGED <<scenario, chats, contacts, req, unseen, pageVars, history>>
  /\ ChatIDsStay /\ SelKeys' = SelKeys /\ (InStep => InStep')

Stepped ==
  \/ \E a \in Actors, y \in Requests :
       HandlerStep(a) /\ Handled(a, y) /\ UNCHANGED <<pageVars, history>>
  \/ \E a \in Actors, request \in Requests : Incoming(a, request)
  \/ \E p \in Pages, y \in Requests : Reads(p, y)
  \/ Toggled
  \/ \E g \in Groups, selected \in BOOLEAN : Curled(g, selected)
  \/ UNCHANGED vars
  \/ \E p \in Pages, y \in Requests : Answered(p, y)
  \/ Recorded

LEMMA PageStepIs ==
  ASSUME Shapes, NEW p \in Pages, PageStep(p), UNCHANGED docVars
  PROVE  Shapes' /\ Stepped
  <1>1. CASE Open(p) \/ ClickLoad(p) \/ ClickSave(p) \/ ClickResolve(p)
    BY <1>1, OpenStep, ClickLoadStep, ClickSaveStep, ClickResolveStep, PageActors DEF Stepped
  <1>2. CASE ReadLoad(p) \/ ReadLocal(p) \/ ReadDone(p) \/ ReadError(p)
    BY <1>2, ReadLoadStep, ReadLocalStep, ReadOtherStep DEF Stepped
  <1>3. CASE \E things \in SUBSET Things, checked \in BOOLEAN : Toggle(p, things, checked)
    <2>1. PICK things \in SUBSET Things, checked \in BOOLEAN : Toggle(p, things, checked)  BY <1>3
    <2>2. UNCHANGED <<sourceVars, items, joined>>  BY <2>1 DEF Toggle
    <2>3. QED  BY <2>1, <2>2, ToggleShapes DEF Stepped, Toggled
  <1>4. QED  BY <1>1, <1>2, <1>3 DEF PageStep

LEMMA SyncStepIs ==
  ASSUME Shapes, NEW p \in Pages, SyncStep(p)
  PROVE  Shapes' /\ Stepped
  <1>1. CASE ClickSync(p)  BY <1>1, ClickSyncStep, PageActors DEF Stepped
  <1>2. CASE \/ SyncList(p) \/ Unsupported(p) \/ FetchText(p) \/ FetchTextFails(p) \/ UpsertUnit(p)
             \/ UpsertChunk(p) \/ IndexFails(p) \/ SaveResultFails(p)
    <2>1. Shapes'
      BY <1>2, SyncListStep, NoTextStep, FetchTextStep, UpsertUnitStep, UpsertChunkStep,
         IndexFailsStep, SaveResultFailsStep
    <2>2. UNCHANGED vars
      BY <1>2 DEF SyncList, Unsupported, FetchText, FetchTextFails, UpsertUnit, UpsertChunk,
                  IndexFails, SaveResultFails, others
    <2>3. QED  BY <2>1, <2>2 DEF Stepped
  <1>3. CASE SyncListFails(p) \/ SyncEnds(p)
    <2>1. Shapes' /\ \E y \in Requests : Answered(p, y)
      BY <1>3, SyncAnswersStep DEF Answered
    <2>2. QED  BY <2>1 DEF Stepped
  <1>4. CASE SaveResult(p)
    <2>1. Shapes' /\ Recorded  BY <1>4, SaveResultStep DEF Recorded
    <2>2. QED  BY <2>1 DEF Stepped
  <1>5. QED  BY <1>1, <1>2, <1>3, <1>4 DEF SyncStep

LEMMA StepIs ==
  ASSUME Shapes, DocNext
  PROVE  Shapes' /\ Stepped
  <1>1. CASE Next /\ UNCHANGED docVars
    <2>1. CASE \E p \in Pages : PageStep(p)  BY <1>1, <2>1, PageStepIs
    <2>2. CASE \E a \in Clients \cup Runners :
                 HandlerStep(a) /\ UNCHANGED <<pageVars, toggles, history>>
      <3>1. PICK a \in Actors : HandlerStep(a) /\ UNCHANGED <<pageVars, toggles, history>>
        BY <2>2 DEF Actors
      <3>2. PICK y \in Requests : Handled(a, y)  BY <3>1, HandlerStepIs
      <3>3. Shapes'  BY <1>1, <3>1, <3>2, HandlerShapes
      <3>4. QED  BY <3>1, <3>2, <3>3 DEF Stepped
    <2>3. CASE \E a \in Runners : MatchRound(a) /\ UNCHANGED <<pageVars, toggles, history>>
      <3>1. PICK a \in Runners : MatchRound(a) /\ UNCHANGED <<pageVars, toggles, history>>  BY <2>3
      <3>2. a \in Actors  BY DEF Actors
      <3>3. QED  BY <1>1, <3>1, <3>2, MatchRoundStep DEF Stepped
    <2>4. CASE Curl  BY <1>1, <2>4, CurlStep DEF Stepped
    <2>5. QED  BY <1>1, <2>1, <2>2, <2>3, <2>4 DEF Next
  <1>2. CASE \E d \in Docx : Edit(d)
    <2>1. PICK d \in Docx : Edit(d)  BY <1>2
    <2>2. UNCHANGED vars  BY <2>1 DEF Edit
    <2>3. QED  BY <2>1, <2>2, EditStep DEF Stepped
  <1>3. CASE \E p \in Pages : SyncStep(p)  BY <1>3, SyncStepIs
  <1>4. QED  BY <1>1, <1>2, <1>3 DEF DocNext

LEMMA StutterIs ==
  ASSUME Shapes, UNCHANGED allVars
  PROVE  Shapes' /\ Stepped
  <1>1. UNCHANGED vars /\ UNCHANGED docVars  BY DEF allVars
  <1>2. IndexTypes'  BY <1>1, IndexKept DEF Shapes, docVars, index
  <1>3. JobTypes'
    BY <1>1 DEF Shapes, JobTypes, JobOK, Syncing, docVars, vars, sourceVars
  <1>4. QED  BY <1>1, <1>2, <1>3, SourcesKept DEF Shapes, Stepped

\* Requests, pages, jobs and rows keep their shape: an unfinished save still holds what it was
\* posted, a sync is the request its page waits for, and only the behaviour's table has rows.
THEOREM ShapesHold == DocSpec => []Shapes
  <1>1. Shapes /\ [DocNext]_allVars => Shapes'  BY StepIs, StutterIs
  <1>2. QED  BY <1>1, InitShapes, PTL DEF DocSpec

\* The types of the sources, the pages and the syncs.
THEOREM TypesHold == DocSpec => []DocTypeOK
  BY ShapesHold, ShapesTyped, PTL

-----------------------------------------------------------------------------
(* Chat ids are kept *)

LEMMA SteppedKeeps ==
  ASSUME Shapes, Stepped
  PROVE  ChatIDsStay
  <1>1. CASE \/ \E a \in Actors, y \in Requests : Handled(a, y)
             \/ \E g \in Groups, selected \in BOOLEAN : Curled(g, selected)
             \/ Recorded
    BY <1>1 DEF Handled, Curled, Statement, Recorded
  <1>2. CASE UNCHANGED contacts
    BY <1>2 DEF ChatIDsStay
  <1>3. CASE \/ \E a \in Actors, request \in Requests : Incoming(a, request)
             \/ \E p \in Pages, y \in Requests : Reads(p, y)
             \/ Toggled \/ UNCHANGED vars
             \/ \E p \in Pages, y \in Requests : Answered(p, y)
    <2>1. UNCHANGED contacts
      BY <1>3 DEF Incoming, Reads, Toggled, Answered, tables, vars, sourceVars
    <2>2. QED  BY <1>2, <2>1
  <1>4. QED  BY <1>1, <1>3 DEF Stepped

\* ChatIDKept: no step of a save, a listing, a resolve, a round or a sync empties the chat id
\* of a contact, whatever rows pages post and Feishu sends.
THEOREM ChatIDsAreKept == DocSpec => ChatIDKept
  <1>1. Shapes /\ [DocNext]_allVars => ChatIDsStay
    BY StepIs, StutterIs, SteppedKeeps
  <1>2. Shapes /\ [DocNext]_allVars =>
          [\A k \in DOMAIN contacts : contacts[k].chat # NoChat =>
             k \in DOMAIN contacts' /\ contacts'[k].chat # NoChat]_vars
    BY <1>1 DEF ChatIDsStay
  <1>3. QED  BY <1>2, ShapesHold, PTL DEF DocSpec, ChatIDKept

-----------------------------------------------------------------------------
(* A save is exact *)

\* A save that has been alone so far is the only one, and what is selected is what it wrote.
ExactOK(a) ==
  Saving(a) /\ req[a].alone =>
    /\ \A b \in Actors : Saving(b) => b = a
    /\ req[a].pc \in {"upsert", "ok"} => SelectedBy(req[a])

Exact == \A a \in Actors : ExactOK(a)

\* Requests may have changed but for what they are about.
LEMMA ExactKept ==
  ASSUME Exact, SelKeys' = SelKeys, InStep => InStep',
         \A b \in Actors : Saving(b)' => Saving(b) /\ req'[b].posted = req[b].posted
           /\ req'[b].todo = req[b].todo /\ req'[b].pc = req[b].pc /\ (req'[b].alone => req[b].alone)
  PROVE  Exact'
  <1>1. \A b \in Actors : Saving(b)' => (SelectedBy(req[b]) => SelectedBy(req[b])')
    BY DEF SelectedBy
  <1>2. SUFFICES ASSUME NEW a \in Actors  PROVE ExactOK(a)'
    BY DEF Exact
  <1>3. QED  BY <1>1 DEF Exact, ExactOK

LEMMA ExactHandled ==
  ASSUME Shapes, Exact, NEW a \in Actors, NEW y \in Requests, Handled(a, y)
  PROVE  Exact'
  <1>1. req' = [req EXCEPT ![a] = y] /\ UNCHANGED scenario /\ y.kind = "save" => y.pc # "idle"
    BY DEF Handled, RequestOK
  <1>2. req'[a] = y /\ \A b \in Actors : b # a => req'[b] = req[b]
    BY <1>1, RequestMove DEF Handled
  <1>3. req[a].pc # "idle"  BY DEF Handled
  <1>4. CASE req[a].kind # "save"
    <2>1. y.kind # "save"  BY <1>4 DEF Handled, NoRequest
    <2>2. SelKeys' = SelKeys /\ (InStep => InStep')  BY <1>4 DEF Handled
    <2>3. QED  BY <1>2, <2>1, <2>2, ExactKept DEF Saving, Busy, At
  <1>5. CASE req[a].kind = "save"
    <2>1. y.kind = "save" /\ y.alone = req[a].alone /\ Saving(a)
      BY <1>3, <1>5 DEF Handled, Saving, Busy, At
    <2>2. \A b \in Actors : Saving(b)' => Saving(b)
      BY <1>2, <2>1 DEF Saving, Busy, At
    <2>3. SUFFICES ASSUME NEW b \in Actors, Saving(b)', req'[b].alone  PROVE ExactOK(b)'
      BY DEF Exact, ExactOK
    <2>4. b = a
      <3>1. CASE b # a
        <4>1. req'[b] = req[b] /\ Saving(b)  BY <1>2, <2>2, <2>3, <3>1
        <4>2. QED  BY <2>1, <2>3, <3>1, <4>1 DEF Exact, ExactOK
      <3>2. QED  BY <3>1
    <2>5. /\ \A c \in Actors : Saving(c) => c = a
          /\ req[a].pc = "upsert" => SelectedBy(req[a])
      BY <1>2, <2>1, <2>3, <2>4 DEF Exact, ExactOK
    <2>6. req[a].pc \in {"clear", "upsert"}
      BY <1>5, HandlerFacts DEF Handled, RequestOK, Requests
    <2>7. y.pc \in {"upsert", "ok"} => SelectedBy(y)'
      BY <2>1, <2>5, <2>6 DEF Handled
    <2>8. SelectedBy(y)' => SelectedBy(req[a])'  BY <1>2 DEF SelectedBy
    <2>9. QED  BY <1>2, <2>2, <2>4, <2>5, <2>7, <2>8 DEF ExactOK
  <1>6. QED  BY <1>4, <1>5

LEMMA ExactIncoming ==
  ASSUME Shapes, Exact, NEW a \in Actors, NEW request \in Requests, Incoming(a, request)
  PROVE  Exact'
  <1>1. /\ Begun(a, request) /\ UNCHANGED <<scenario, tables>>
        /\ request.kind = "save" => request.pc = "clear"
    BY DEF Incoming
  <1>2. SelKeys' = SelKeys /\ (InStep => InStep')  BY <1>1, HandlerFacts, NoStatement
  <1>3. /\ ~Saving(a) /\ (Saving(a)' <=> request.kind = "save" /\ request.pc # "idle")
        /\ Saving(a)' /\ req'[a].alone => \A b \in Actors : ~Saving(b)
        /\ Saving(a)' => req'[a].pc = "clear"
        /\ \A b \in Actors : b # a =>
             /\ Saving(b)' <=> Saving(b)
             /\ Saving(b)' /\ req'[b].alone => request.kind # "save"
    BY <1>1 DEF Begun, AloneAside, Saving, Busy, At
  <1>4. \A b \in Actors : b # a =>
           /\ req'[b].posted = req[b].posted /\ req'[b].todo = req[b].todo
           /\ req'[b].pc = req[b].pc /\ (req'[b].alone => req[b].alone)
    BY <1>1 DEF Begun, AloneAside
  <1>5. CASE request.kind # "save"  BY <1>2, <1>3, <1>4, <1>5, ExactKept
  <1>6. CASE request.kind = "save"
    <2>1. SUFFICES ASSUME NEW b \in Actors, Saving(b)', req'[b].alone  PROVE ExactOK(b)'
      BY DEF Exact, ExactOK
    <2>2. b = a  BY <1>3, <1>6, <2>1
    <2>3. QED  BY <1>3, <2>1, <2>2 DEF ExactOK
  <1>7. QED  BY <1>5, <1>6

LEMMA ExactOthers ==
  ASSUME Shapes, Exact,
         \/ \E p \in Pages, y \in Requests : Reads(p, y)
         \/ \E p \in Pages, y \in Requests : Answered(p, y)
         \/ Toggled \/ UNCHANGED vars \/ Recorded
  PROVE  Exact'
  <1>1. SelKeys' = SelKeys /\ (InStep => InStep')
    <2>1. CASE Recorded  BY <2>1 DEF Recorded
    <2>2. CASE ~Recorded
      <3>1. UNCHANGED <<scenario, tables>>
        BY <2>2 DEF Reads, Toggled, Answered, vars, sourceVars
      <3>2. QED  BY <3>1, NoStatement DEF Shapes
    <2>3. QED  BY <2>1, <2>2
  <1>2. \A b \in Actors : req'[b] = req[b] \/ req'[b].kind # "save"
    <2>1. req \in [Actors -> Requests]  BY DEF Shapes, RequestTypes
    <2>2. ASSUME NEW p \in Pages, NEW y \in Requests, Reads(p, y) \/ Answered(p, y)
          PROVE  \A b \in Actors : req'[b] = req[b] \/ req'[b].kind # "save"
      <3>1. req' = [req EXCEPT ![p] = y] /\ y.kind # "save"  BY <2>2 DEF Reads, Answered
      <3>2. QED  BY <2>1, <3>1
    <2>3. CASE Toggled \/ UNCHANGED vars \/ Recorded
      BY <2>3 DEF Toggled, vars, sourceVars, Recorded
    <2>4. QED  BY <2>2, <2>3
  <1>3. QED  BY <1>1, <1>2, ExactKept DEF Saving, Busy, At

LEMMA ExactCurled ==
  ASSUME Exact, NEW g \in Groups, NEW selected \in BOOLEAN, Curled(g, selected)
  PROVE  Exact'
  BY DEF Curled, Exact, ExactOK, Saving, AloneAside

LEMMA ExactInit == DocInit => Exact
  BY InitFacts DEF Exact, ExactOK, Saving, Busy, At, NoRequest

LEMMA ExactSteps == Shapes /\ Exact /\ Stepped => Exact'
  BY ExactHandled, ExactIncoming, ExactOthers, ExactCurled DEF Stepped

LEMMA SelectedKeysAre ==
  ASSUME Shapes
  PROVE  SelectedKeys = SelKeys
  <1>1. /\ TableTypes /\ OneTable /\ scenario \in Scenarios
        /\ DOMAIN chats \subseteq Groups /\ DOMAIN documents \subseteq Docs
        /\ \A k \in DOMAIN contacts : Key(contacts[k].who) = k
    BY DEF Shapes, TableTypes, CountTypes
  <1>2. tab \in {"chat", "contact", "document"}  BY <1>1, TabFacts
  <1>3. CASE tab = "chat"
    <2>1. DOMAIN contacts = {} /\ DOMAIN documents = {} /\ ListCached = ListCachedChats
      BY <1>1, <1>3, TabFacts DEF OneTable
    <2>2. \A g \in DOMAIN chats : Key(g) = g  BY <1>1, KeyFacts
    <2>3. /\ \A row \in ListCachedChats : \E g \in DOMAIN chats :
                row.who = g /\ row.selected = chats[g].selected
          /\ \A g \in DOMAIN chats : \E row \in ListCachedChats :
                row.who = g /\ row.selected = chats[g].selected
      <3>1. ListCachedChats = {Item(g, chats[g].selected, NoChat) : g \in DOMAIN chats}
        BY DEF ListCachedChats
      <3>2. \A g \in DOMAIN chats :
              LET row == Item(g, chats[g].selected, NoChat)
              IN  row.who = g /\ row.selected = chats[g].selected
        BY DEF Item
      <3>3. QED  BY <3>1, <3>2
    <2>4. QED  BY <2>1, <2>2, <2>3 DEF SelectedKeys, SelKeys, SelectedOf
  <1>4. CASE tab = "contact"
    <2>1. DOMAIN chats = {} /\ DOMAIN documents = {} /\ ListCached = ListCachedContacts
      BY <1>1, <1>4, TabFacts DEF OneTable
    <2>2. /\ \A row \in ListCachedContacts : \E k \in DOMAIN contacts :
                row.who = contacts[k].who /\ row.selected = contacts[k].selected
          /\ \A k \in DOMAIN contacts : \E row \in ListCachedContacts :
                row.who = contacts[k].who /\ row.selected = contacts[k].selected
      <3>1. ListCachedContacts = {Item(contacts[k].who, contacts[k].selected, contacts[k].chat) : k \in DOMAIN contacts}
        BY DEF ListCachedContacts
      <3>2. \A k \in DOMAIN contacts :
              LET row == Item(contacts[k].who, contacts[k].selected, contacts[k].chat)
              IN  row.who = contacts[k].who /\ row.selected = contacts[k].selected
        BY DEF Item
      <3>3. QED  BY <3>1, <3>2
    <2>3. QED  BY <1>1, <2>1, <2>2 DEF SelectedKeys, SelKeys, SelectedOf
  <1>5. CASE tab = "document"
    <2>1. DOMAIN chats = {} /\ DOMAIN contacts = {} /\ ListCached = ListCachedDocuments
      BY <1>1, <1>5, TabFacts DEF OneTable
    <2>2. \A d \in DOMAIN documents : Key(d) = d  BY <1>1, KeyFacts
    <2>3. /\ \A row \in ListCachedDocuments : \E d \in DOMAIN documents :
                row.who = d /\ row.selected = documents[d].selected
          /\ \A d \in DOMAIN documents : \E row \in ListCachedDocuments :
                row.who = d /\ row.selected = documents[d].selected
      <3>1. ListCachedDocuments = {Item(d, documents[d].selected, NoChat) : d \in DOMAIN documents}
        BY DEF ListCachedDocuments
      <3>2. \A d \in DOMAIN documents :
              LET row == Item(d, documents[d].selected, NoChat)
              IN  row.who = d /\ row.selected = documents[d].selected
        BY DEF Item
      <3>3. QED  BY <3>1, <3>2
    <2>4. QED  BY <2>1, <2>2, <2>3 DEF SelectedKeys, SelKeys, SelectedOf
  <1>6. QED  BY <1>2, <1>3, <1>4, <1>5

LEMMA ExactIsExact == Shapes /\ Exact => SaveIsExact
  <1> SUFFICES ASSUME Shapes, Exact, NEW p \in Pages, At(p, "ok"), req[p].kind = "save", req[p].alone
               PROVE  /\ SelectedKeys = {Key(row.who) : row \in req[p].posted}
                      /\ \A g \in DOMAIN chats : chats[g].sync = chats[g].selected
    BY DEF SaveIsExact
  <1>1. SelectedBy(req[p]) /\ req[p].todo = {}
    BY PageActors, HandlerFacts DEF Exact, ExactOK, Saving, Busy, At, RequestOK
  <1>2. req[p].posted \ req[p].todo = req[p].posted  BY <1>1
  <1>3. QED  BY <1>1, <1>2, SelectedKeysAre DEF SelectedBy, Keys, InStep

\* SaveIsExact: whatever listings, resolves, rounds and syncs write between the statements of a
\* save, and wherever another one stopped, a save that was alone leaves exactly what was posted.
THEOREM SavesAreExact == DocSpec => []SaveIsExact
  <1>1. Shapes /\ Exact /\ [DocNext]_allVars => Shapes' /\ Exact'
    BY StepIs, StutterIs, ExactSteps
  <1>2. DocSpec => [](Shapes /\ Exact)  BY <1>1, InitShapes, ExactInit, PTL DEF DocSpec
  <1>3. QED  BY <1>2, ExactIsExact, PTL

-----------------------------------------------------------------------------
(* Only what was chosen *)

\* Somebody chose it, if it has a row of its own.
May(who) == who \in HasOpenID \cup Groups \cup Docs => who \in chosen
MayRows(rows) == \A row \in rows : row.selected => May(row.who)

\* Whatever may yet become selected has been chosen: the tables' rows, the copies that
\* requests and pages hold of them, the ticks, and what a save was posted.
Choices ==
  /\ \A k \in SelKeys : May(k)
  /\ \A a \in Actors :
       /\ MayRows(req[a].answer)
       /\ req[a].kind = "save" => \A row \in req[a].posted : May(row.who)
  /\ \A p \in Pages :
       MayRows(items[p]) /\ MayRows(joined[p]) /\ \A who \in ticks[p] : May(who)

LEMMA MayKey ==
  ASSUME NEW who \in Things, May(who)
  PROVE  May(Key(who))
  BY SourcesAssumption DEF Things, Key, May

LEMMA MayGrows ==
  ASSUME chosen \subseteq chosen'
  PROVE  /\ \A who : May(who) => May(who)'
         /\ \A rows : MayRows(rows) => MayRows(rows)'
  BY DEF May, MayRows

LEMMA MayList ==
  ASSUME TableTypes, scenario \in Scenarios, \A k \in SelKeys : May(k)
  PROVE  MayRows(ListCached)
  <1>1. CASE tab = "chat"
    <2>1. ListCached = ListCachedChats  BY <1>1, TabFacts
    <2>2. QED  BY <2>1 DEF MayRows, ListCachedChats, Item, SelKeys
  <1>2. CASE tab = "contact"
    <2>1. ListCached = ListCachedContacts  BY <1>2, TabFacts
    <2>2. ASSUME NEW row \in ListCachedContacts, row.selected  PROVE May(row.who)
      <3>1. PICK k \in DOMAIN contacts : row.who = contacts[k].who /\ row.selected = contacts[k].selected
        BY ListTypes
      <3>2. k \in SelKeys /\ Key(row.who) = k /\ row.who \in Persons
        BY <2>2, <3>1 DEF SelKeys, TableTypes, ContactRows
      <3>3. CASE row.who \in HasOpenID
        BY <3>2, <3>3, KeyFacts DEF May
      <3>4. CASE row.who \notin HasOpenID
        BY <3>2, <3>4, SourcesAssumption DEF May
      <3>5. QED  BY <3>3, <3>4
    <2>3. QED  BY <2>1, <2>2 DEF MayRows
  <1>3. CASE tab = "document"
    <2>1. ListCached = ListCachedDocuments  BY <1>3, TabFacts
    <2>2. QED  BY <2>1 DEF MayRows, ListCachedDocuments, Item, SelKeys
  <1>4. QED  BY <1>1, <1>2, <1>3, TabFacts

LEMMA MayPosted ==
  ASSUME Shapes, Choices, NEW a \in Actors, req[a].kind = "save"
  PROVE  \A k \in Keys(req[a].posted) : May(k)
  <1>1. \A row \in req[a].posted : row.who \in Things /\ May(row.who)
    BY HandlerFacts DEF Choices, Items
  <1>2. QED  BY <1>1, MayKey DEF Keys

\* Pages, ticks and choices stay as they are, but for more choices.
LEMMA ChoicesKept ==
  ASSUME Choices, chosen \subseteq chosen', \A k \in SelKeys' : May(k)',
         \A a \in Actors :
           /\ MayRows(req'[a].answer)
           /\ req'[a].kind = "save" => \A row \in req'[a].posted : May(row.who),
         \A p \in Pages :
           /\ MayRows(items'[p]) /\ MayRows(joined'[p])
           /\ \A who \in ticks'[p] : May(who) \/ who \in chosen'
  PROVE  Choices'
  <1>1. \A a \in Actors :
           /\ MayRows(req[a].answer)'
           /\ req'[a].kind = "save" => \A row \in req'[a].posted : May(row.who)'
    BY DEF May, MayRows
  <1>2. \A p \in Pages :
           /\ MayRows(items[p])' /\ MayRows(joined[p])'
           /\ \A who \in ticks'[p] : May(who)'
    BY DEF May, MayRows
  <1>3. QED  BY <1>1, <1>2 DEF Choices

LEMMA ChoicesHandled ==
  ASSUME Shapes, Choices, NEW a \in Actors, NEW y \in Requests, Handled(a, y),
         UNCHANGED <<pageVars, history>>
  PROVE  Choices'
  <1>1. req' = [req EXCEPT ![a] = y] /\ RequestOK(y) /\ UNCHANGED scenario  BY DEF Handled
  <1>2. req'[a] = y /\ \A b \in Actors : b # a => req'[b] = req[b]
    BY <1>1, RequestMove
  <1>3. \A k \in SelKeys' : May(k)
    <2>1. CASE req[a].kind = "save"
      BY <2>1, MayPosted DEF Handled, Choices
    <2>2. CASE req[a].kind # "save"  BY <2>2 DEF Handled, Choices
    <2>3. QED  BY <2>1, <2>2
  <1>4. MayRows(y.answer)
    <2>1. MayRows(ListCached) /\ MayRows({}) /\ MayRows(req[a].answer)
      BY HandlerFacts, MayList DEF Choices, MayRows
    <2>2. QED  BY <2>1 DEF Handled
  <1>5. y.kind = "save" => \A row \in y.posted : May(row.who)
    BY DEF Handled, NoRequest, Choices
  <1>6. QED
    BY <1>2, <1>3, <1>4, <1>5, ChoicesKept, MayGrows DEF history, pageVars, Choices

LEMMA ChoicesIncoming ==
  ASSUME Shapes, Choices, NEW a \in Actors, NEW request \in Requests, Incoming(a, request)
  PROVE  Choices'
  <1>1. SelKeys' = SelKeys /\ chosen' = chosen
    BY HandlerFacts, NoStatement DEF Incoming
  <1>2. \A b \in Actors : b # a =>
          req'[b].kind = req[b].kind /\ req'[b].posted = req[b].posted /\ req'[b].answer = req[b].answer
    BY DEF Incoming, Begun, AloneAside
  <1>3. /\ req'[a].answer = {} /\ req'[a].kind = request.kind /\ req'[a].posted = request.posted
        /\ request.kind = "save" => \E p \in Pages : Who(request.posted) \subseteq ticks[p]
    BY DEF Incoming, Begun, AloneAside
  <1>4. request.kind = "save" => \A row \in request.posted : May(row.who)
    BY <1>3 DEF Choices, Who
  <1>5. \A b \in Actors :
           /\ MayRows(req'[b].answer)
           /\ req'[b].kind = "save" => \A row \in req'[b].posted : May(row.who)
    BY <1>2, <1>3, <1>4 DEF Choices, MayRows
  <1>6. \A p \in Pages :
           MayRows(items'[p]) /\ MayRows(joined'[p]) /\ \A who \in ticks'[p] : May(who)
    BY DEF Incoming, Choices, MayRows
  <1>7. \A k \in SelKeys' : May(k)'  BY <1>1 DEF Choices, May
  <1>8. QED  BY <1>1, <1>5, <1>6, <1>7, ChoicesKept

LEMMA ChoicesReads ==
  ASSUME Shapes, Choices, NEW p \in Pages, NEW y \in Requests, Reads(p, y)
  PROVE  Choices'
  <1>1. /\ UNCHANGED <<scenario, tables, chosen>> /\ req' = [req EXCEPT ![p] = y]
        /\ y.answer = {} /\ y.kind # "save"
    BY DEF Reads
  <1>2. req'[p] = y /\ \A b \in Actors : b # p => req'[b] = req[b]
    BY <1>1, PageActors DEF Shapes, RequestTypes
  <1>3. SelKeys' = SelKeys  BY <1>1, NoStatement DEF Shapes
  <1>4. \A k \in SelKeys' : May(k)'  BY <1>1, <1>3 DEF Choices, May
  <1>5. \A b \in Actors :
           /\ MayRows(req'[b].answer)
           /\ req'[b].kind = "save" => \A row \in req'[b].posted : May(row.who)
    BY <1>1, <1>2 DEF Choices, MayRows
  <1>6. MayRows(req[p].answer)  BY PageActors DEF Choices
  <1>7. \A q \in Pages : MayRows(items[q] \cup joined[q] \cup req[p].answer)
    BY <1>6 DEF Choices, MayRows
  <1>8. \A q \in Pages : \A who \in Who(SelectedOf(items[q] \cup joined[q] \cup req[p].answer)) : May(who)
    BY <1>7 DEF Who, SelectedOf, MayRows
  <1>9. \A q \in Pages :
           MayRows(items'[q]) /\ MayRows(joined'[q]) /\ \A who \in ticks'[q] : May(who)
    <2>1. TAKE q \in Pages
    <2>2. MayRows(items'[q]) /\ MayRows(joined'[q])  BY <1>7 DEF Reads, MayRows
    <2>3. \A who \in ticks'[q] : May(who)  BY <1>8 DEF Reads, Choices
    <2>4. QED  BY <2>2, <2>3
  <1>10. QED  BY <1>1, <1>4, <1>5, <1>9, ChoicesKept

LEMMA ChoicesCurled ==
  ASSUME Shapes, Choices, NEW g \in Groups, NEW selected \in BOOLEAN, Curled(g, selected)
  PROVE  Choices'
  <1>1. chosen \subseteq chosen' /\ UNCHANGED pageVars  BY DEF Curled
  <1>2. \A k \in SelKeys' : May(k)'
    <2>1. \A k \in SelKeys : May(k)'  BY <1>1, MayGrows DEF Choices
    <2>2. selected => May(g)'  BY DEF Curled, May
    <2>3. QED  BY <2>1, <2>2 DEF Curled
  <1>3. \A b \in Actors :
           /\ MayRows(req'[b].answer)
           /\ req'[b].kind = "save" => \A row \in req'[b].posted : May(row.who)
    BY DEF Curled, AloneAside, Choices
  <1>4. QED  BY <1>1, <1>2, <1>3, ChoicesKept DEF Choices, pageVars

LEMMA ChoicesOthers ==
  ASSUME Shapes, Choices,
         \/ \E p \in Pages, y \in Requests : Answered(p, y)
         \/ Toggled \/ UNCHANGED vars \/ Recorded
  PROVE  Choices'
  <1>1. SelKeys' = SelKeys
    <2>1. CASE Recorded  BY <2>1 DEF Recorded
    <2>2. CASE ~Recorded
      <3>1. UNCHANGED <<scenario, tables>>  BY <2>2 DEF Toggled, Answered, vars, sourceVars
      <3>2. QED  BY <3>1, NoStatement DEF Shapes
    <2>3. QED  BY <2>1, <2>2
  <1>2. chosen \subseteq chosen'
    BY DEF Toggled, Answered, vars, Recorded, history
  <1>3. \A b \in Actors : req'[b] = req[b] \/ (req'[b].kind # "save" /\ req'[b].answer = req[b].answer)
    <2>1. req \in [Actors -> Requests]  BY DEF Shapes, RequestTypes
    <2>2. ASSUME NEW p \in Pages, NEW y \in Requests, Answered(p, y)
          PROVE  \A b \in Actors :
                   req'[b] = req[b] \/ (req'[b].kind # "save" /\ req'[b].answer = req[b].answer)
      <3>1. req' = [req EXCEPT ![p] = y] /\ y.kind # "save" /\ y.answer = req[p].answer
        BY <2>2 DEF Answered
      <3>2. QED  BY <2>1, <3>1
    <2>3. CASE Toggled \/ UNCHANGED vars \/ Recorded
      BY <2>3 DEF Toggled, vars, sourceVars, Recorded
    <2>4. QED  BY <2>2, <2>3
  <1>4. \A p \in Pages :
          /\ items'[p] = items[p] /\ joined'[p] = joined[p] /\ ticks'[p] \subseteq ticks[p] \cup chosen'
    BY DEF Toggled, Answered, vars, Recorded, pageVars
  <1>5. \A k \in SelKeys' : May(k)'  BY <1>1, <1>2, MayGrows DEF Choices
  <1>6. \A b \in Actors :
           /\ MayRows(req'[b].answer)
           /\ req'[b].kind = "save" => \A row \in req'[b].posted : May(row.who)
    BY <1>3 DEF Choices
  <1>7. QED  BY <1>2, <1>4, <1>5, <1>6, ChoicesKept DEF Choices

LEMMA ChoicesInit == DocInit => Choices
  <1> SUFFICES ASSUME DocInit  PROVE Choices
    OBVIOUS
  <1> DEFINE L == ListCached
  <1>1. /\ items = [p \in Pages |-> L] /\ joined = [p \in Pages |-> SelectedOf(L)]
        /\ ticks = [p \in Pages |-> Who(SelectedOf(L))] /\ chosen = Who(SelectedOf(L))
    BY DEF DocInit, Init
  <1>2. \A k \in SelKeys : May(k)
    <2>1. SelKeys = Keys(SelectedOf(L))  BY InitShapes, SelectedKeysAre DEF SelectedKeys, Keys
    <2>2. \A row \in SelectedOf(L) : row.who \in Things /\ May(row.who)
      <3>1. L \subseteq Items  BY InitFacts, ListTypes
      <3> HIDE DEF L
      <3>2. QED  BY <1>1, <3>1 DEF SelectedOf, May, Who, Items
    <2> HIDE DEF L
    <2>3. QED  BY <2>1, <2>2, MayKey DEF Keys
  <1> HIDE DEF L
  <1>3. MayRows(L)  BY <1>1 DEF MayRows, May, Who, SelectedOf
  <1>4. \A p \in Pages : MayRows(items[p]) /\ MayRows(joined[p]) /\ \A who \in ticks[p] : May(who)
    BY <1>1, <1>3 DEF MayRows, SelectedOf, May
  <1>5. NoRequest.answer = {} /\ NoRequest.kind = "none"  BY DEF NoRequest
  <1>6. QED  BY <1>2, <1>4, <1>5, InitFacts DEF Choices, MayRows

LEMMA ChoicesSteps == Shapes /\ Choices /\ Stepped => Choices'
  BY ChoicesHandled, ChoicesIncoming, ChoicesReads, ChoicesCurled, ChoicesOthers DEF Stepped

\* OnlyChosen: no stale row that a page posts, no row that Feishu sends and no failed or
\* interrupted save selects a source that nobody ticked or posted.
THEOREM OnlyChosenAreSelected == DocSpec => []OnlyChosen
  <1>1. Shapes /\ Choices /\ [DocNext]_allVars => Shapes' /\ Choices'
    BY StepIs, StutterIs, ChoicesSteps
  <1>2. DocSpec => [](Shapes /\ Choices)  BY <1>1, InitShapes, ChoicesInit, PTL DEF DocSpec
  <1>3. Shapes /\ Choices => OnlyChosen
    <2>1. Shapes /\ Choices => MayRows(ListCached)
      BY MayList DEF Shapes, Choices, CountTypes
    <2>2. QED  BY <2>1 DEF OnlyChosen, MayRows, May, SelectedOf
  <1>4. QED  BY <1>2, <1>3, PTL

-----------------------------------------------------------------------------
(* Greetings *)

\* Another resolve running excuses everybody; what is still to be resolved has not been
\* greeted, and comes once; what was greeted last is none of it.
ResolveOK(a) ==
  Resolving(a) =>
    /\ \A b \in Actors : Resolving(b) /\ b # a => Persons \subseteq excused
    /\ req[a].pc \in {"send", "save"} =>
         \A i \in req[a].todo :
           /\ i.who \in HasOpenID /\ i.who \in DOMAIN contacts
           /\ i.who \notin excused => greeted[i.who] = 0
           /\ \A j \in req[a].todo : j.who = i.who => j = i
    /\ req[a].pc = "save" =>
         \A i \in req[a].posted :
           i.who \in HasOpenID /\ i.who \in DOMAIN contacts /\ i.who \notin Who(req[a].todo)

\* Who was greeted has a chat id, or one that is about to be saved.
GreetOK(p) ==
  p \notin excused =>
    /\ greeted[p] <= 1
    /\ greeted[p] = 1 =>
         Known(p) \/ \E a \in Actors : req[a].pc = "save" /\ p \in Who(req[a].posted)

Greetings == (\A a \in Actors : ResolveOK(a)) /\ (\A p \in Persons : GreetOK(p))

\* A request that is as it was, or none that greets.
Alike(b) ==
  /\ req'[b].kind = req[b].kind /\ req'[b].pc = req[b].pc
  /\ req'[b].todo = req[b].todo /\ req'[b].posted = req[b].posted

Silent(b) == req'[b].kind # "resolve" /\ req[b].pc # "save"

LEMMA ResolveKept ==
  ASSUME Greetings, NEW b \in Actors, Alike(b), ChatIDsStay, excused \subseteq excused',
         \A c \in Actors : Resolving(c)' => Resolving(c) \/ Persons \subseteq excused',
         UNCHANGED greeted \/ Persons \subseteq excused
  PROVE  ResolveOK(b)'
  <1>1. SUFFICES ASSUME Resolving(b)'  PROVE ResolveOK(b)'
    BY DEF ResolveOK
  <1>2. Resolving(b) /\ ResolveOK(b)
    BY <1>1 DEF Resolving, Busy, At, Alike, Greetings
  <1>3. \A c \in Actors : Resolving(c)' /\ c # b => Persons \subseteq excused'
    BY <1>2 DEF ResolveOK
  <1>4. DOMAIN contacts \subseteq DOMAIN contacts'  BY DEF ChatIDsStay
  <1>5. \A i \in req[b].todo :
          i.who \in HasOpenID /\ i.who \notin excused' => greeted'[i.who] = greeted[i.who]
    BY SourcesAssumption
  <1>6. req[b].pc \in {"send", "save"} =>
         \A i \in req[b].todo :
           /\ i.who \in HasOpenID /\ i.who \in DOMAIN contacts'
           /\ i.who \notin excused' => greeted'[i.who] = 0
           /\ \A j \in req[b].todo : j.who = i.who => j = i
    BY <1>2, <1>4, <1>5 DEF ResolveOK
  <1>7. req[b].pc = "save" =>
         \A i \in req[b].posted :
           i.who \in HasOpenID /\ i.who \in DOMAIN contacts' /\ i.who \notin Who(req[b].todo)
    BY <1>2, <1>4 DEF ResolveOK
  <1>8. QED  BY <1>3, <1>6, <1>7 DEF ResolveOK, Alike, Who

LEMMA KnownStays ==
  ASSUME ChatIDsStay, NEW p, Known(p)
  PROVE  Known(p)'
  BY DEF ChatIDsStay, Known

LEMMA GreetKept ==
  ASSUME Greetings, NEW p \in Persons, ChatIDsStay, excused \subseteq excused',
         greeted'[p] = greeted[p],
         \A b \in Actors : req[b].pc = "save" /\ p \in Who(req[b].posted) =>
           \/ req'[b].pc = "save" /\ p \in Who(req'[b].posted)
           \/ Known(p)' \/ p \in excused'
  PROVE  GreetOK(p)'
  <1>1. GreetOK(p) /\ (Known(p) => Known(p)')  BY KnownStays DEF Greetings
  <1>2. SUFFICES ASSUME p \notin excused'
                 PROVE  /\ greeted'[p] <= 1
                        /\ greeted'[p] = 1 =>
                             Known(p)' \/ \E b \in Actors : req'[b].pc = "save" /\ p \in Who(req'[b].posted)
    BY DEF GreetOK, Who
  <1>3. QED  BY <1>1, <1>2 DEF GreetOK

\* Nobody is greeted, and no resolve goes on.
LEMMA GreetingsSame ==
  ASSUME Greetings, ChatIDsStay, UNCHANGED greeted, excused \subseteq excused',
         \A b \in Actors : Alike(b) \/ Silent(b)
  PROVE  Greetings'
  <1>1. \A b \in Actors : Silent(b) => ~Resolving(b)'
    BY DEF Silent, Resolving
  <1>2. \A b \in Actors : Resolving(b)' => Resolving(b)
    BY <1>1 DEF Alike, Resolving, Busy, At
  <1>3. \A b \in Actors : ResolveOK(b)'
    <2>1. TAKE b \in Actors
    <2>2. CASE Alike(b)  BY <1>2, <2>2, ResolveKept
    <2>3. CASE Silent(b)  BY <1>1, <2>3 DEF ResolveOK
    <2>4. QED  BY <2>2, <2>3
  <1>4. \A p \in Persons : GreetOK(p)'
    <2>1. TAKE p \in Persons
    <2>2. \A b \in Actors : req[b].pc = "save" /\ p \in Who(req[b].posted) =>
             req'[b].pc = "save" /\ p \in Who(req'[b].posted)
      BY DEF Alike, Silent
    <2>3. QED  BY <2>2, GreetKept
  <1>5. QED  BY <1>3, <1>4 DEF Greetings

\* The steps of a resolve.  Its own part, and that of the others.
LEMMA ResolveMoves ==
  ASSUME Shapes, Greetings, NEW a \in Actors, NEW y \in Requests, Handled(a, y),
         req[a].kind = "resolve", ResolveOK(a)', \A p \in Persons : GreetOK(p)'
  PROVE  Greetings'
  <1>1. /\ req' = [req EXCEPT ![a] = y] /\ RequestOK(y) /\ UNCHANGED scenario
        /\ ChatIDsStay /\ excused \subseteq excused' /\ req[a].pc # "idle"
    BY DEF Handled, Statement
  <1>2. req'[a] = y /\ \A b \in Actors : b # a => req'[b] = req[b]
    BY <1>1, RequestMove
  <1>3. Resolving(a)  BY <1>1 DEF Resolving, Busy, At
  <1>4. \A b \in Actors : ResolveOK(b)'
    <2>1. SUFFICES ASSUME NEW b \in Actors, b # a, Resolving(b)  PROVE ResolveOK(b)'
      BY <1>2 DEF ResolveOK, Resolving, Busy, At
    <2>2. Persons \subseteq excused  BY <1>3, <2>1 DEF Greetings, ResolveOK
    <2>3. Alike(b)  BY <1>2, <2>1 DEF Alike
    <2>4. QED  BY <1>1, <2>2, <2>3, ResolveKept
  <1>5. QED  BY <1>4 DEF Greetings

\* Greetings of those that the step does not touch.
LEMMA ResolveGreets ==
  ASSUME Shapes, Greetings, NEW a \in Actors, NEW y \in Requests, Handled(a, y),
         NEW p \in Persons, greeted'[p] = greeted[p],
         req[a].pc = "save" /\ p \in Who(req[a].posted) => Known(p)' \/ p \in excused'
  PROVE  GreetOK(p)'
  <1>1. /\ req' = [req EXCEPT ![a] = y] /\ RequestOK(y) /\ UNCHANGED scenario
        /\ ChatIDsStay /\ excused \subseteq excused'
    BY DEF Handled, Statement
  <1>2. \A b \in Actors : b # a => req'[b] = req[b]  BY <1>1, RequestMove
  <1>3. QED  BY <1>1, <1>2, GreetKept

LEMMA ResolveOnly ==
  ASSUME Shapes, NEW a \in Actors, HandlerStep(a), req[a].kind = "resolve"
  PROVE  \/ ResolveList(a) \/ Send(a) \/ SendFails(a) \/ ResolveSave(a) \/ ResolveSaveFails(a)
         \/ ResolveEnds(a) \/ ResolveFails(a)
  <1>1. req[a].pc \notin {"clear", "upsert", "fetch", "cache", "list", "match"}
    BY HandlerFacts DEF RequestOK
  <1>2. QED
    BY <1>1 DEF HandlerStep, Clear, SaveOne, SaveEnds, SaveFails, Fetch, FetchFails, CacheOne,
                CacheEnds, List, ListingFails, MatchList, MatchSave, MatchEnds, At

LEMMA ResolveOwn ==
  ASSUME Shapes, Greetings, NEW a \in Actors, NEW y \in Requests, Handled(a, y),
         req[a].kind = "resolve"
  PROVE  /\ Resolving(a) /\ ResolveOK(a) /\ req'[a] = y
         /\ DOMAIN contacts \subseteq DOMAIN contacts' /\ excused \subseteq excused'
         /\ \A b \in Actors : Resolving(b)' /\ b # a => Persons \subseteq excused'
         /\ \A b \in Actors : b # a => req'[b] = req[b]
  <1>1. /\ req' = [req EXCEPT ![a] = y] /\ RequestOK(y) /\ UNCHANGED scenario
        /\ ChatIDsStay /\ excused \subseteq excused' /\ req[a].pc # "idle"
    BY DEF Handled, Statement
  <1>2. req'[a] = y /\ \A b \in Actors : b # a => req'[b] = req[b]
    BY <1>1, RequestMove
  <1>3. Resolving(a) /\ ResolveOK(a)  BY <1>1 DEF Resolving, Busy, At, Greetings
  <1>4. \A b \in Actors : Resolving(b)' /\ b # a => Resolving(b)
    BY <1>2 DEF Resolving, Busy, At
  <1>5. QED  BY <1>1, <1>2, <1>3, <1>4 DEF ResolveOK, ChatIDsStay

LEMMA GreetList ==
  ASSUME Shapes, Greetings, NEW a \in Actors, ResolveList(a)
  PROVE  Greetings'
  <1> DEFINE rows == {i \in ListSelectedContacts : i.chat = NoChat /\ i.who \in HasOpenID}
  <1>1. PICK y \in Requests :
          /\ Handled(a, y) /\ req[a].kind = "resolve" /\ y.pc = "send" /\ y.kind = "resolve"
          /\ y.todo = rows /\ UNCHANGED <<tables, unseen>>
    BY ResolveListStep
  <1>2. \A i \in rows :
          /\ i.who \in HasOpenID /\ i.who \in Persons /\ i.who \in DOMAIN contacts
          /\ ~Known(i.who) /\ i \in Items /\ i.chat = NoChat /\ i.selected = TRUE
    <2>1. SUFFICES ASSUME NEW i \in rows
                   PROVE  /\ i.who \in HasOpenID /\ i.who \in Persons /\ i.who \in DOMAIN contacts
                          /\ ~Known(i.who) /\ i \in Items /\ i.chat = NoChat /\ i.selected = TRUE
      OBVIOUS
    <2>2. /\ i \in ListCachedContacts /\ i.selected /\ i.chat = NoChat /\ i.who \in HasOpenID
      BY DEF ListSelectedContacts, SelectedOf
    <2>3. TableTypes /\ scenario \in Scenarios  BY HandlerFacts
    <2>4. i \in Items  BY <2>2, <2>3, ListTypes
    <2>5. PICK k \in DOMAIN contacts : i.who = contacts[k].who /\ i.chat = contacts[k].chat
      BY <2>2, <2>3, ListTypes
    <2>6. Key(i.who) = k  BY <2>3, <2>5 DEF TableTypes
    <2>7. i.who = k /\ i.who \in Persons
      BY <2>2, <2>6, KeyFacts, SourcesAssumption
    <2>8. QED  BY <2>2, <2>4, <2>5, <2>7 DEF Known, Items
  <1>3. \A i, j \in rows : i.who = j.who => i = j
    BY <1>2 DEF Items
  <1>4. /\ Resolving(a) /\ ResolveOK(a) /\ req'[a] = y
        /\ DOMAIN contacts \subseteq DOMAIN contacts' /\ excused \subseteq excused'
        /\ \A b \in Actors : Resolving(b)' /\ b # a => Persons \subseteq excused'
    BY <1>1, ResolveOwn
  <1>5. req[a].pc # "save"  BY DEF ResolveList, At
  <1>6. \A i \in rows : i.who \notin excused => greeted[i.who] = 0
    <2>1. SUFFICES ASSUME NEW i \in rows, i.who \notin excused  PROVE greeted[i.who] = 0
      OBVIOUS
    <2>2. GreetOK(i.who) /\ greeted[i.who] \in Nat
      BY <1>2, HandlerFacts DEF Greetings
    <2>3. greeted[i.who] # 1
      <3>1. SUFFICES ASSUME greeted[i.who] = 1  PROVE FALSE
        OBVIOUS
      <3>2. PICK b \in Actors : req[b].pc = "save" /\ i.who \in Who(req[b].posted)
        BY <1>2, <2>1, <2>2, <3>1 DEF GreetOK
      <3>3. b # a /\ Resolving(b)
        BY <1>5, <3>2, HandlerFacts DEF RequestOK, Resolving, Busy, At
      <3>4. QED  BY <1>2, <1>4, <2>1, <3>3 DEF ResolveOK
    <2>4. QED  BY <2>1, <2>2, <2>3 DEF GreetOK
  <1> HIDE DEF rows
  <1>7. ResolveOK(a)'
    BY <1>1, <1>2, <1>3, <1>4, <1>6 DEF ResolveOK, unseen, tables
  <1>8. \A p \in Persons : GreetOK(p)'
    BY <1>1, <1>5, ResolveGreets DEF unseen
  <1>9. QED  BY <1>1, <1>7, <1>8, ResolveMoves

\* What is done of the items takes nothing from the others.
LEMMA OthersLeft ==
  ASSUME NEW a \in Actors, ResolveOK(a), Resolving(a), req[a].pc \in {"send", "save"},
         NEW item \in req[a].todo
  PROVE  /\ item.who \in HasOpenID /\ item.who \in Persons /\ item.who \in DOMAIN contacts
         /\ item.who \notin excused => greeted[item.who] = 0
         /\ item.who \notin Who(req[a].todo \ {item})
         /\ \A i \in req[a].todo \ {item} :
              /\ i.who # item.who /\ i.who \in HasOpenID /\ i.who \in Persons
              /\ i.who \in DOMAIN contacts /\ (i.who \notin excused => greeted[i.who] = 0)
              /\ \A j \in req[a].todo \ {item} : j.who = i.who => j = i
  <1>1. HasOpenID \subseteq Persons  BY SourcesAssumption
  <1>2. \A i \in req[a].todo :
           /\ i.who \in HasOpenID /\ i.who \in DOMAIN contacts
           /\ i.who \notin excused => greeted[i.who] = 0
           /\ \A j \in req[a].todo : j.who = i.who => j = i
    BY DEF ResolveOK
  <1>3. QED  BY <1>1, <1>2 DEF Who

LEMMA GreetSend ==
  ASSUME Shapes, Greetings, NEW a \in Actors, Send(a)
  PROVE  Greetings'
  <1>1. PICK y \in Requests : \E item \in req[a].todo :
          /\ Handled(a, y) /\ req[a].pc = "send" /\ y.pc = "save" /\ y.kind = "resolve"
          /\ y.todo = req[a].todo \ {item} /\ y.posted = {item} /\ item.who \in Persons
          /\ greeted' = [greeted EXCEPT ![item.who] = @ + 1]
          /\ UNCHANGED <<tables, excused>>
    BY SendStep
  <1>2. PICK item \in req[a].todo :
          /\ Handled(a, y) /\ req[a].pc = "send" /\ y.pc = "save" /\ y.kind = "resolve"
          /\ y.todo = req[a].todo \ {item} /\ y.posted = {item} /\ item.who \in Persons
          /\ greeted' = [greeted EXCEPT ![item.who] = @ + 1]
          /\ UNCHANGED <<tables, excused>>
    BY <1>1
  <1>3. req[a].kind = "resolve"  BY <1>2, HandlerFacts DEF RequestOK
  <1>4. /\ Resolving(a) /\ ResolveOK(a) /\ req'[a] = y
        /\ DOMAIN contacts \subseteq DOMAIN contacts' /\ excused \subseteq excused'
        /\ \A b \in Actors : Resolving(b)' /\ b # a => Persons \subseteq excused'
    BY <1>2, <1>3, ResolveOwn
  <1>5. /\ greeted \in [Persons -> Nat] /\ greeted'[item.who] = greeted[item.who] + 1
        /\ \A q \in Persons : q # item.who => greeted'[q] = greeted[q]
    BY <1>2, HandlerFacts, GreetedTypes
  <1>6. ResolveOK(a)'
    <2>1. \A i \in y.todo :
           /\ i.who \in HasOpenID /\ i.who \in DOMAIN contacts'
           /\ i.who \notin excused' => greeted'[i.who] = 0
           /\ \A j \in y.todo : j.who = i.who => j = i
      <3>1. \A i \in req[a].todo \ {item} :
              /\ i.who # item.who /\ i.who \in HasOpenID /\ i.who \in Persons
              /\ i.who \in DOMAIN contacts /\ (i.who \notin excused => greeted[i.who] = 0)
              /\ \A j \in req[a].todo \ {item} : j.who = i.who => j = i
        <4>1. item \in req[a].todo /\ req[a].pc \in {"send", "save"}  BY <1>2
        <4>2. QED  BY <1>4, <4>1, OthersLeft
      <3>2. TAKE i \in y.todo
      <3>3. /\ i \in req[a].todo \ {item} /\ y.todo = req[a].todo \ {item}
            /\ item \in req[a].todo /\ req[a].pc \in {"send", "save"}
        BY <1>2
      <3>4. /\ i.who # item.who /\ i.who \in HasOpenID /\ i.who \in Persons
            /\ i.who \in DOMAIN contacts /\ (i.who \notin excused => greeted[i.who] = 0)
            /\ \A j \in y.todo : j.who = i.who => j = i
        BY <3>1, <3>3
      <3>5. greeted'[i.who] = greeted[i.who]  BY <1>5, <3>4
      <3>6. QED  BY <1>4, <3>4, <3>5
    <2>2. \A i \in y.posted :
           i.who \in HasOpenID /\ i.who \in DOMAIN contacts' /\ i.who \notin Who(y.todo)
      BY <1>2, <1>4, OthersLeft
    <2>3. \A i \in y.posted : i.who \notin Who(req[a].todo)'
      BY <1>4, <2>2 DEF Who
    <2>4. QED  BY <1>2, <1>4, <2>1, <2>2, <2>3 DEF ResolveOK
  <1>7. \A p \in Persons : GreetOK(p)'
    <2>1. TAKE p \in Persons
    <2>2. CASE p = item.who
      <3>1. p \notin excused => greeted[p] = 0  BY <1>2, <1>4, <2>2, OthersLeft
      <3>2. req'[a].pc = "save" /\ p \in Who(req[a].posted)'
        BY <1>2, <1>4, <2>2 DEF Who
      <3>3. QED  BY <1>2, <1>5, <2>2, <3>1, <3>2 DEF GreetOK
    <2>3. CASE p # item.who
      BY <1>2, <1>5, <2>3, ResolveGreets
    <2>4. QED  BY <2>2, <2>3
  <1>8. QED  BY <1>2, <1>3, <1>6, <1>7, ResolveMoves

LEMMA GreetSendFails ==
  ASSUME Shapes, Greetings, NEW a \in Actors, SendFails(a)
  PROVE  Greetings'
  <1>1. PICK y \in Requests : \E item \in req[a].todo :
          /\ Handled(a, y) /\ req[a].pc = "send" /\ y.pc = "send" /\ y.kind = "resolve"
          /\ y.todo = req[a].todo \ {item} /\ item.who \in Persons
          /\ greeted' = [greeted EXCEPT ![item.who] = @ + 1] \/ UNCHANGED greeted
          /\ excused' = excused \cup {item.who}
          /\ UNCHANGED tables
    BY SendFailsStep
  <1>2. PICK item \in req[a].todo :
          /\ Handled(a, y) /\ req[a].pc = "send" /\ y.pc = "send" /\ y.kind = "resolve"
          /\ y.todo = req[a].todo \ {item} /\ item.who \in Persons
          /\ greeted' = [greeted EXCEPT ![item.who] = @ + 1] \/ UNCHANGED greeted
          /\ excused' = excused \cup {item.who}
          /\ UNCHANGED tables
    BY <1>1
  <1>3. req[a].kind = "resolve"  BY <1>2, HandlerFacts DEF RequestOK
  <1>4. /\ Resolving(a) /\ ResolveOK(a) /\ req'[a] = y
        /\ DOMAIN contacts \subseteq DOMAIN contacts' /\ excused \subseteq excused'
        /\ \A b \in Actors : Resolving(b)' /\ b # a => Persons \subseteq excused'
    BY <1>2, <1>3, ResolveOwn
  <1>5. \A q \in Persons : q # item.who => greeted'[q] = greeted[q]
    BY <1>2, HandlerFacts, GreetedTypes
  <1>6. ResolveOK(a)'
    <2>1. \A i \in y.todo :
           /\ i.who \in HasOpenID /\ i.who \in DOMAIN contacts'
           /\ i.who \notin excused' => greeted'[i.who] = 0
           /\ \A j \in y.todo : j.who = i.who => j = i
      <3>1. \A i \in req[a].todo \ {item} :
              /\ i.who # item.who /\ i.who \in HasOpenID /\ i.who \in Persons
              /\ i.who \in DOMAIN contacts /\ (i.who \notin excused => greeted[i.who] = 0)
              /\ \A j \in req[a].todo \ {item} : j.who = i.who => j = i
        <4>1. item \in req[a].todo /\ req[a].pc \in {"send", "save"}  BY <1>2
        <4>2. QED  BY <1>4, <4>1, OthersLeft
      <3>2. TAKE i \in y.todo
      <3>3. /\ i \in req[a].todo \ {item} /\ y.todo = req[a].todo \ {item}
            /\ item \in req[a].todo /\ req[a].pc \in {"send", "save"}
        BY <1>2
      <3>4. /\ i.who # item.who /\ i.who \in HasOpenID /\ i.who \in Persons
            /\ i.who \in DOMAIN contacts /\ (i.who \notin excused => greeted[i.who] = 0)
            /\ \A j \in y.todo : j.who = i.who => j = i
        BY <3>1, <3>3
      <3>5. greeted'[i.who] = greeted[i.who]  BY <1>5, <3>4
      <3>6. QED  BY <1>4, <3>4, <3>5
    <2>2. QED  BY <1>2, <1>4, <2>1 DEF ResolveOK
  <1>7. \A p \in Persons : GreetOK(p)'
    <2>1. TAKE p \in Persons
    <2>2. CASE p = item.who  BY <1>2, <2>2 DEF GreetOK
    <2>3. CASE p # item.who  BY <1>2, <1>5, <2>3, ResolveGreets
    <2>4. QED  BY <2>2, <2>3
  <1>8. QED  BY <1>2, <1>3, <1>6, <1>7, ResolveMoves

\* The chat id is saved, or that fails.
LEMMA GreetSave ==
  ASSUME Shapes, Greetings, NEW a \in Actors, ResolveSave(a) \/ ResolveSaveFails(a)
  PROVE  Greetings'
  <1>1. PICK y \in Requests :
          /\ Handled(a, y) /\ req[a].pc = "save" /\ y.pc = "send" /\ y.kind = "resolve"
          /\ y.todo = req[a].todo /\ UNCHANGED greeted
          /\ \/ \A i \in req[a].posted :
                  i.who \in HasOpenID /\ i.who \in DOMAIN contacts => Known(i.who)'
             \/ excused' = excused \cup Who(req[a].posted)
    BY ResolveSaveStep, ResolveSaveFailsStep DEF unseen
  <1>2. req[a].kind = "resolve"  BY <1>1, HandlerFacts DEF RequestOK
  <1>3. /\ Resolving(a) /\ ResolveOK(a) /\ req'[a] = y
        /\ DOMAIN contacts \subseteq DOMAIN contacts' /\ excused \subseteq excused'
        /\ \A b \in Actors : Resolving(b)' /\ b # a => Persons \subseteq excused'
    BY <1>1, <1>2, ResolveOwn
  <1>4. ResolveOK(a)'  BY <1>1, <1>3 DEF ResolveOK
  <1>5. \A p \in Persons : GreetOK(p)'
    <2>1. TAKE p \in Persons
    <2>2. p \in Who(req[a].posted) => Known(p)' \/ p \in excused'
      BY <1>1, <1>3 DEF ResolveOK, Who
    <2>3. QED  BY <1>1, <2>2, ResolveGreets
  <1>6. QED  BY <1>1, <1>2, <1>4, <1>5, ResolveMoves

LEMMA GreetAnswers ==
  ASSUME Shapes, Greetings, NEW a \in Actors, ResolveEnds(a) \/ ResolveFails(a)
  PROVE  Greetings'
  <1>1. PICK y \in Requests :
          /\ Handled(a, y) /\ req[a].kind = "resolve" /\ y.pc \in {"ok", "failed"}
          /\ y.todo = {} /\ UNCHANGED <<tables, unseen>>
    BY ResolveAnswers
  <1>2. req[a].pc # "save"  BY DEF ResolveEnds, ResolveFails, At
  <1>3. /\ req'[a] = y /\ \A b \in Actors : Resolving(b)' /\ b # a => Persons \subseteq excused'
    BY <1>1, ResolveOwn
  <1>4. ResolveOK(a)'  BY <1>1, <1>3 DEF ResolveOK
  <1>5. \A p \in Persons : GreetOK(p)'
    BY <1>1, <1>2, ResolveGreets DEF unseen
  <1>6. QED  BY <1>1, <1>4, <1>5, ResolveMoves

LEMMA GreetHandled ==
  ASSUME Shapes, Greetings, NEW a \in Actors, NEW y \in Requests, HandlerStep(a), Handled(a, y)
  PROVE  Greetings'
  <1>1. CASE req[a].kind = "resolve"
    BY <1>1, ResolveOnly, GreetList, GreetSend, GreetSendFails, GreetSave, GreetAnswers
  <1>2. CASE req[a].kind # "resolve"
    <2>1. /\ req' = [req EXCEPT ![a] = y] /\ RequestOK(y) /\ UNCHANGED scenario
          /\ ChatIDsStay /\ UNCHANGED unseen /\ y.kind # "resolve"
      BY <1>2 DEF Handled, Statement, NoRequest
    <2>2. req'[a] = y /\ \A b \in Actors : b # a => req'[b] = req[b]
      BY <2>1, RequestMove
    <2>3. req[a].pc # "save"  BY <1>2, HandlerFacts DEF RequestOK
    <2>4. \A b \in Actors : Alike(b) \/ Silent(b)
      BY <2>1, <2>2, <2>3 DEF Alike, Silent
    <2>5. QED  BY <2>1, <2>4, GreetingsSame DEF unseen
  <1>3. QED  BY <1>1, <1>2

LEMMA GreetIncoming ==
  ASSUME Shapes, Greetings, NEW a \in Actors, NEW request \in Requests, Incoming(a, request)
  PROVE  Greetings'
  <1>1. /\ UNCHANGED <<scenario, tables, greeted>> /\ excused \subseteq excused'
        /\ ChatIDsStay /\ req[a].pc = "idle"
    BY HandlerFacts, NoStatement DEF Incoming, Statement, Begun
  <1>2. /\ \A b \in Actors : b # a => Alike(b)
        /\ req'[a].kind = request.kind /\ req'[a].pc = request.pc
    BY DEF Incoming, Begun, AloneAside, Alike
  <1>3. CASE request.kind # "resolve"
    BY <1>1, <1>2, <1>3, GreetingsSame DEF Silent
  <1>4. CASE request.kind = "resolve"
    <2>1. /\ (\E b \in Actors : Resolving(b)) => Persons \subseteq excused'
          /\ request.pc \in {"fetch", "list", "selected", "sync"}
      BY <1>4 DEF Incoming
    <2>2. \A b \in Actors : b # a /\ Resolving(b)' => Resolving(b)
      BY <1>2 DEF Alike, Resolving, Busy, At
    <2>3. ResolveOK(a)'
      BY <1>2, <2>1, <2>2 DEF ResolveOK
    <2>4. \A b \in Actors : b # a => ResolveOK(b)'
      <3>1. SUFFICES ASSUME NEW b \in Actors, b # a, Resolving(b)'  PROVE ResolveOK(b)'
        BY DEF ResolveOK
      <3>2. Persons \subseteq excused'  BY <2>1, <2>2, <3>1
      <3>3. QED  BY <1>1, <1>2, <3>1, <3>2, ResolveKept
    <2>5. \A p \in Persons : GreetOK(p)'
      <3>1. TAKE p \in Persons
      <3>2. \A b \in Actors : req[b].pc = "save" /\ p \in Who(req[b].posted) =>
              req'[b].pc = "save" /\ p \in Who(req'[b].posted)
        BY <1>1, <1>2 DEF Alike
      <3>3. QED  BY <1>1, <3>2, GreetKept
    <2>6. QED  BY <2>3, <2>4, <2>5 DEF Greetings
  <1>5. QED  BY <1>3, <1>4

LEMMA GreetOthers ==
  ASSUME Shapes, Greetings, Stepped,
         \/ \E p \in Pages, y \in Requests : Reads(p, y)
         \/ \E p \in Pages, y \in Requests : Answered(p, y)
         \/ \E g \in Groups, selected \in BOOLEAN : Curled(g, selected)
         \/ Toggled \/ UNCHANGED vars \/ Recorded
  PROVE  Greetings'
  <1>1. ChatIDsStay  BY SteppedKeeps
  <1>2. UNCHANGED <<greeted, excused>>
    BY DEF Reads, Answered, Curled, Toggled, Recorded, vars, sourceVars, unseen
  <1>3. \A b \in Actors : Alike(b) \/ Silent(b)
    <2>1. req \in [Actors -> Requests]  BY DEF Shapes, RequestTypes
    <2>2. ASSUME NEW p \in Pages, NEW y \in Requests, Reads(p, y) \/ Answered(p, y)
          PROVE  \A b \in Actors : Alike(b) \/ Silent(b)
      <3>1. req' = [req EXCEPT ![p] = y] /\ y.kind # "resolve" /\ req[p].pc # "save"
        BY <2>2 DEF Reads, Answered
      <3>2. QED  BY <2>1, <3>1 DEF Alike, Silent
    <2>3. CASE \E g \in Groups, selected \in BOOLEAN : Curled(g, selected)
      BY <2>3 DEF Curled, AloneAside, Alike
    <2>4. CASE Toggled \/ UNCHANGED vars \/ Recorded
      BY <2>4 DEF Toggled, vars, sourceVars, Recorded, Alike
    <2>5. QED  BY <2>2, <2>3, <2>4
  <1>4. QED  BY <1>1, <1>2, <1>3, GreetingsSame

LEMMA GreetSteps == Shapes /\ Greetings /\ Stepped => Greetings'
  BY GreetHandled, GreetIncoming, GreetOthers DEF Stepped

LEMMA GreetInit == DocInit => Greetings
  <1> SUFFICES ASSUME DocInit  PROVE Greetings
    OBVIOUS
  <1>1. NoRequest.kind = "none"  BY DEF NoRequest
  <1>2. \A a \in Actors : ResolveOK(a)  BY <1>1, InitFacts DEF ResolveOK, Resolving
  <1>3. \A p \in Persons : GreetOK(p)  BY InitFacts DEF GreetOK
  <1>4. QED  BY <1>2, <1>3 DEF Greetings

\* GreetedOnce: a contact gets a second message from resolve-chats only after a call for it
\* failed or two such requests overlapped: never because a save, a listing or a round wrote
\* its row in between.
THEOREM EachIsGreetedOnce == DocSpec => []GreetedOnce
  <1>1. Shapes /\ Greetings /\ [DocNext]_allVars => Shapes' /\ Greetings'
    BY StepIs, StutterIs, GreetSteps
  <1>2. DocSpec => [](Shapes /\ Greetings)  BY <1>1, InitShapes, GreetInit, PTL DEF DocSpec
  <1>3. Shapes /\ Greetings => GreetedOnce
    <2>1. Shapes => greeted \in [Persons -> Nat]  BY DEF Shapes, CountTypes
    <2>2. QED  BY <2>1 DEF Greetings, GreetOK, GreetedOnce
  <1>4. QED  BY <1>2, <1>3, PTL

-----------------------------------------------------------------------------
(* Rows that say "synced" *)

\* A sync that is alone is the only one; another one running muddles every document.
AloneOK(p) ==
  Syncing(p) => IF job[p].alone THEN \A q \in Pages : Syncing(q) => q = p ELSE Docs \subseteq muddled

\* What a sync that is alone has written so far is in the index.
DoneOK(p) ==
  /\ job[p].alone /\ job[p].pc = "chunk" =>
       /\ job[p].doc \in DOMAIN units /\ units[job[p].doc] = job[p].text
       /\ \A i \in 0..(job[p].idx - 1) :
            <<job[p].doc, i>> \in DOMAIN chunks /\ chunks[<<job[p].doc, i>>] = job[p].text
  /\ job[p].alone /\ job[p].pc = "result" => job[p].failed \/ Indexed(job[p].doc)

Synced == SyncedRowIsTrue /\ \A p \in Pages : AloneOK(p) /\ DoneOK(p)

\* What the index holds of d is still there.
Elsewhere(d) ==
  /\ d \in DOMAIN units' <=> d \in DOMAIN units
  /\ d \in DOMAIN units => units'[d] = units[d]
  /\ \A i \in Nat : <<d, i>> \in DOMAIN chunks =>
       <<d, i>> \in DOMAIN chunks' /\ chunks'[<<d, i>>] = chunks[<<d, i>>]

LEMMA IndexedStays ==
  ASSUME IndexTypes, NEW d, Elsewhere(d), Indexed(d)
  PROVE  Indexed(d)'
  <1>1. /\ d \in DOMAIN units /\ units[d] \in Versions /\ units'[d] = units[d] /\ d \in DOMAIN units'
        /\ Pieces[units[d]] \in Nat
    BY DocumentsAssumption DEF Indexed, IndexTypes, Elsewhere
  <1>2. \A i \in 0..(Pieces[units[d]] - 1) :
          i \in Nat /\ <<d, i>> \in DOMAIN chunks /\ chunks[<<d, i>>] = units[d]
    BY <1>1 DEF Indexed
  <1>3. \A i \in 0..(Pieces[units'[d]] - 1) :
          <<d, i>> \in DOMAIN chunks' /\ chunks'[<<d, i>>] = units'[d]
    BY <1>1, <1>2 DEF Elsewhere
  <1>4. QED  BY <1>1, <1>3 DEF Indexed

LEMMA IndexSame ==
  ASSUME UNCHANGED index
  PROVE  \A d : Elsewhere(d)
  BY DEF index, Elsewhere

LEMMA WrittenElsewhere ==
  ASSUME IndexTypes, NEW p \in Pages, JobFactsOf(p),
         \/ WriteUnit(p) /\ UNCHANGED chunks
         \/ WriteChunk(p) /\ UNCHANGED units
         \/ UNCHANGED index
  PROVE  \A d \in Docs : d # job[p].doc => Elsewhere(d)
  <1>1. CASE WriteUnit(p) /\ UNCHANGED chunks
    BY <1>1, UnitWritten DEF Elsewhere
  <1>2. CASE WriteChunk(p) /\ UNCHANGED units
    <2>1. SUFFICES ASSUME NEW d \in Docs, d # job[p].doc, NEW i \in Nat, <<d, i>> \in DOMAIN chunks
                   PROVE  <<d, i>> \in DOMAIN chunks' /\ chunks'[<<d, i>>] = chunks[<<d, i>>]
      BY <1>2 DEF Elsewhere
    <2>2. <<d, i>> # <<job[p].doc, job[p].idx>>  BY <2>1
    <2>3. QED  BY <1>2, <2>1, <2>2, ChunkWritten
  <1>3. CASE UNCHANGED index  BY <1>3, IndexSame
  <1>4. QED  BY <1>1, <1>2, <1>3

\* The rows, where nothing is freed, recorded or written that they are about.
LEMMA RowsStay ==
  ASSUME Shapes, Shapes', SyncedRowIsTrue, NoNewOutcome,
         \A d \in Docs :
           d \notin muddled' /\ (\A q \in Pages : job'[q].doc # d) =>
             d \notin muddled /\ (\A q \in Pages : job[q].doc # d) /\ Elsewhere(d)
  PROVE  SyncedRowIsTrue'
  <1>1. SUFFICES ASSUME NEW d \in DOMAIN documents', documents'[d].synced, ~documents'[d].error,
                        d \notin muddled', \A q \in Pages : job'[q].doc # d
                 PROVE  Indexed(d)'
    BY DEF SyncedRowIsTrue
  <1>2. d \in Docs  BY <1>1 DEF Shapes, TableTypes
  <1>3. d \in DOMAIN documents /\ documents[d].synced /\ ~documents[d].error
    BY <1>1 DEF NoNewOutcome
  <1>4. Indexed(d) /\ Elsewhere(d)  BY <1>1, <1>2, <1>3 DEF SyncedRowIsTrue
  <1>5. QED  BY <1>4, IndexedStays DEF Shapes

\* A sync goes on.
LEMMA WorksSynced ==
  ASSUME Shapes, Shapes', Synced, NEW p \in Pages, NEW z \in Jobs, Works(p, z), muddled \subseteq muddled',
         \A d \in Docs : d # job[p].doc => Elsewhere(d),
         z.doc = job[p].doc \/ job[p].doc = NoDoc \/ job[p].doc \in muddled',
         DoneOK(p)'
  PROVE  Synced'
  <1>1. /\ UNCHANGED documents /\ job' = [job EXCEPT ![p] = z] /\ Syncing(p) /\ z.pc # "idle"
        /\ z.alone = job[p].alone
    BY DEF Works, JobMove, others, vars, sourceVars, tables
  <1>2. job'[p] = z /\ \A q \in Pages : q # p => job'[q] = job[q]
    BY <1>1, JobFacts
  <1>3. NoNewOutcome  BY <1>1 DEF NoNewOutcome
  <1>4. \A d \in Docs :
           d \notin muddled' /\ (\A q \in Pages : job'[q].doc # d) =>
             d \notin muddled /\ (\A q \in Pages : job[q].doc # d) /\ Elsewhere(d)
    <2>1. SUFFICES ASSUME NEW d \in Docs, d \notin muddled', \A q \in Pages : job'[q].doc # d
                   PROVE  d \notin muddled /\ (\A q \in Pages : job[q].doc # d) /\ Elsewhere(d)
      OBVIOUS
    <2>2. job[p].doc # d  BY <1>2, <2>1, DocumentsAssumption
    <2>3. QED  BY <1>2, <2>1, <2>2
  <1>5. SyncedRowIsTrue'  BY <1>3, <1>4, RowsStay DEF Synced
  <1>6. \A q \in Pages : Syncing(q)' <=> Syncing(q)
    BY <1>1, <1>2 DEF Syncing
  <1>7. \A q \in Pages : AloneOK(q)'
    BY <1>1, <1>2, <1>6 DEF AloneOK, Synced
  <1>8. \A q \in Pages : DoneOK(q)'
    <2>1. SUFFICES ASSUME NEW q \in Pages, q # p  PROVE DoneOK(q)'
      OBVIOUS
    <2>2. ~(Syncing(q) /\ job[q].alone)  BY <1>1, <2>1 DEF Synced, AloneOK
    <2>3. QED  BY <1>2, <2>1, <2>2 DEF DoneOK, Syncing
  <1>9. QED  BY <1>5, <1>7, <1>8 DEF Synced

\* Nothing of the syncs and the index changes, and no outcome is recorded.
LEMMA SyncsKept ==
  ASSUME Shapes, Shapes', Synced, NoNewOutcome, UNCHANGED <<index, job, muddled>>
  PROVE  Synced'
  <1>1. SyncedRowIsTrue'  BY IndexSame, RowsStay DEF Synced
  <1>2. \A p \in Pages : AloneOK(p)'  BY DEF Synced, AloneOK, Syncing
  <1>3. \A p \in Pages : DoneOK(p)'  BY DEF Synced, DoneOK, Indexed, index
  <1>4. QED  BY <1>1, <1>2, <1>3 DEF Synced

LEMMA NextRecordsNothing ==
  ASSUME Shapes, Next
  PROVE  NoNewOutcome
  <1>1. CASE UNCHANGED documents  BY <1>1 DEF NoNewOutcome
  <1>2. CASE \E a \in Clients \cup Runners : HandlerStep(a)
    BY <1>2, HandlerStepIs DEF Actors, Handled, Statement
  <1>3. CASE (\E p \in Pages : PageStep(p)) \/ (\E a \in Runners : MatchRound(a)) \/ Curl
    <2>1. UNCHANGED documents
      BY <1>3 DEF PageStep, Toggle, Open, LocalRequest, ClickLoad, LoadRequest, ClickSave, SaveRequest,
                  ClickResolve, ResolveRequest, ReadLoad, ReadLocal, ReadDone, ReadError, MatchRound,
                  Curl, PostChat, UpsertChat, sourceVars, tables
    <2>2. QED  BY <1>1, <2>1
  <1>4. QED  BY <1>2, <1>3 DEF Next

LEMMA SyncedUnit ==
  ASSUME Shapes, Synced, NEW p \in Pages, UpsertUnit(p)
  PROVE  Synced'
  <1>1. PICK z \in Jobs :
           /\ Works(p, z) /\ job[p].pc = "unit" /\ z.pc = "chunk" /\ z.idx = 0
           /\ z.doc = job[p].doc /\ z.text = job[p].text
           /\ WriteUnit(p) /\ UNCHANGED <<chunks, muddled>> /\ Shapes'
    BY UpsertUnitStep
  <1>2. JobFactsOf(p) /\ IndexTypes /\ job'[p] = z
    BY <1>1, AtIndex, JobFacts DEF Shapes, Works, JobMove
  <1>3. \A d \in Docs : d # job[p].doc => Elsewhere(d)
    BY <1>1, <1>2, WrittenElsewhere
  <1>4. DoneOK(p)'
    <2>1. z.doc \in DOMAIN units' /\ units'[z.doc] = z.text  BY <1>1, <1>2, UnitWritten
    <2>2. 0..(z.idx - 1) = {}  BY <1>1
    <2>3. QED  BY <1>1, <1>2, <2>1, <2>2 DEF DoneOK
  <1>5. QED  BY <1>1, <1>3, <1>4, WorksSynced

LEMMA SyncedChunk ==
  ASSUME Shapes, Synced, NEW p \in Pages, UpsertChunk(p)
  PROVE  Synced'
  <1>1. PICK z \in Jobs :
           /\ Works(p, z) /\ job[p].pc = "chunk" /\ z.idx = job[p].idx + 1
           /\ z.pc = IF z.idx < Pieces[job[p].text] THEN "chunk" ELSE "result"
           /\ z.doc = job[p].doc /\ z.text = job[p].text
           /\ WriteChunk(p) /\ UNCHANGED <<units, muddled>> /\ Shapes'
    BY UpsertChunkStep
  <1>2. /\ JobFactsOf(p) /\ IndexTypes /\ job'[p] = z /\ z.alone = job[p].alone
        /\ job[p].idx \in Nat /\ Pieces[job[p].text] \in Nat /\ job[p].idx < Pieces[job[p].text]
    BY <1>1, AtIndex, JobFacts, DocumentsAssumption
    DEF Shapes, Works, JobMove, JobFactsOf, JobOK
  <1>3. \A d \in Docs : d # job[p].doc => Elsewhere(d)
    BY <1>1, <1>2, WrittenElsewhere
  <1>4. ASSUME z.alone
        PROVE  /\ z.doc \in DOMAIN units' /\ units'[z.doc] = z.text
               /\ \A i \in 0..(z.idx - 1) :
                    <<z.doc, i>> \in DOMAIN chunks' /\ chunks'[<<z.doc, i>>] = z.text
    <2>1. /\ job[p].doc \in DOMAIN units /\ units[job[p].doc] = job[p].text
          /\ \A i \in 0..(job[p].idx - 1) :
               <<job[p].doc, i>> \in DOMAIN chunks /\ chunks[<<job[p].doc, i>>] = job[p].text
      BY <1>1, <1>2, <1>4 DEF Synced, DoneOK
    <2>2. ASSUME NEW i \in 0..(z.idx - 1)
          PROVE  <<z.doc, i>> \in DOMAIN chunks' /\ chunks'[<<z.doc, i>>] = z.text
      <3>1. i = job[p].idx \/ i \in 0..(job[p].idx - 1)  BY <1>1, <1>2
      <3>2. CASE i = job[p].idx  BY <1>1, <1>2, <3>2, ChunkWritten
      <3>3. CASE i # job[p].idx
        <4>1. <<job[p].doc, i>> # <<job[p].doc, job[p].idx>>  BY <3>3
        <4>2. <<job[p].doc, i>> \in DOMAIN chunks /\ chunks[<<job[p].doc, i>>] = job[p].text
          BY <2>1, <3>1, <3>3
        <4>3. QED  BY <1>1, <1>2, <4>1, <4>2, ChunkWritten
      <3>4. QED  BY <3>2, <3>3
    <2>3. QED  BY <1>1, <2>1, <2>2
  <1>5. DoneOK(p)'
    <2>1. CASE z.pc = "chunk"  BY <1>2, <1>4, <2>1 DEF DoneOK
    <2>2. CASE z.pc = "result"
      <3>1. Pieces[z.text] = z.idx  BY <1>1, <1>2, <2>2
      <3>2. z.alone => Indexed(z.doc)'  BY <1>4, <3>1 DEF Indexed
      <3>3. Indexed(z.doc)' => Indexed(job[p].doc)'  BY <1>2 DEF Indexed
      <3>4. QED  BY <1>2, <2>2, <3>2, <3>3 DEF DoneOK
    <2>3. QED  BY <1>1, <2>1, <2>2
  <1>6. QED  BY <1>1, <1>3, <1>5, WorksSynced

\* The steps after which there is nothing that has to be in the index.
LEMMA SyncedNothing ==
  ASSUME Shapes, Synced, NEW p \in Pages,
         \/ SyncList(p) \/ Unsupported(p) \/ FetchText(p) \/ FetchTextFails(p)
         \/ IndexFails(p) \/ SaveResultFails(p)
  PROVE  Synced'
  <1>1. PICK z \in Jobs :
          /\ Works(p, z) /\ Shapes' /\ muddled \subseteq muddled'
          /\ z.pc \in {"next", "unit"} \/ (z.pc = "result" /\ z.failed)
    BY SyncListStep, NoTextStep, FetchTextStep, IndexFailsStep, SaveResultFailsStep
  <1>2. /\ job'[p] = z  BY <1>1, JobFacts DEF Works, JobMove
  <1>3. DoneOK(p)'  BY <1>1, <1>2 DEF DoneOK
  <1>4. \A d \in Docs : d # job[p].doc => Elsewhere(d)
    <2>1. CASE IndexFails(p)
      <3>1. JobFactsOf(p) /\ IndexTypes
        BY <2>1, AtIndex DEF IndexFails, JobAt, Shapes
      <3>2. \/ WriteUnit(p) /\ UNCHANGED chunks
            \/ WriteChunk(p) /\ UNCHANGED units
            \/ UNCHANGED index
        BY <2>1 DEF IndexFails
      <3>3. QED  BY <3>1, <3>2, WrittenElsewhere
    <2>2. CASE ~IndexFails(p)
      BY <2>2, IndexSame DEF SyncList, Unsupported, FetchText, FetchTextFails, SaveResultFails
    <2>3. QED  BY <2>1, <2>2
  <1>5. z.doc = job[p].doc \/ job[p].doc = NoDoc \/ job[p].doc \in muddled'
    <2>1. CASE SaveResultFails(p)  BY <2>1 DEF SaveResultFails
    <2>2. CASE IndexFails(p)
      <3>1. \E y \in Jobs : Works(p, y) /\ y.doc = job[p].doc  BY <2>2, IndexFailsStep
      <3>2. QED  BY <1>2, <3>1, JobFacts DEF Works, JobMove
    <2>3. CASE SyncList(p) \/ Unsupported(p) \/ FetchText(p) \/ FetchTextFails(p)
      BY <2>3, JobFacts DEF SyncList, Unsupported, FetchText, FetchTextFails, JobAt, JobOK
    <2>4. QED  BY <2>1, <2>2, <2>3
  <1>6. QED  BY <1>1, <1>3, <1>4, <1>5, WorksSynced

\* An outcome is recorded: the row may say "synced" only now that it is.
LEMMA SyncedRecorded ==
  ASSUME Shapes, Synced, NEW p \in Pages, SaveResult(p)
  PROVE  Synced'
  <1>1. PICK z \in Jobs :
           /\ job' = [job EXCEPT ![p] = z] /\ Syncing(p) /\ z.pc = "next" /\ z.alone = job[p].alone
           /\ job[p].pc = "result"
           /\ SaveDocumentSyncResult(job[p].doc, job[p].failed)
           /\ muddled' = IF job[p].alone THEN muddled \ {job[p].doc} ELSE muddled
           /\ UNCHANGED <<scenario, chats, contacts, index>>
           /\ Shapes'
    BY SaveResultStep
  <1>2. job'[p] = z /\ \A q \in Pages : q # p => job'[q] = job[q]
    BY <1>1, JobFacts
  <1>3. /\ DOMAIN documents' = DOMAIN documents
        /\ \A e \in DOMAIN documents : e # job[p].doc => documents'[e] = documents[e]
        /\ job[p].doc \in DOMAIN documents => (documents'[job[p].doc].error <=> job[p].failed)
        /\ DOMAIN documents \subseteq Docs
    BY <1>1, JobFacts, RecordEffect DEF Shapes, TableTypes
  <1>4. CASE job[p].alone
    <2>1. \A q \in Pages : q # p => ~Syncing(q)
      BY <1>1, <1>4 DEF Synced, AloneOK
    <2>2. job[p].failed \/ Indexed(job[p].doc)  BY <1>1, <1>4 DEF Synced, DoneOK
    <2>3. \A q \in Pages : q # p => job[q].doc = NoDoc
      BY <2>1, JobFacts DEF JobOK, Syncing
    <2>4. SyncedRowIsTrue'
      <3>1. SUFFICES ASSUME NEW d \in DOMAIN documents, documents'[d].synced, ~documents'[d].error,
                            d \notin muddled'
                     PROVE  Indexed(d)
        BY <1>1, <1>3 DEF SyncedRowIsTrue, Indexed, index
      <3>2. CASE d = job[p].doc  BY <1>3, <2>2, <3>1, <3>2
      <3>3. CASE d # job[p].doc
        <4>1. d \notin muddled /\ \A q \in Pages : job[q].doc # d
          BY <1>1, <1>3, <1>4, <2>3, <3>1, <3>3, DocumentsAssumption
        <4>2. QED  BY <1>3, <3>1, <3>3, <4>1 DEF Synced, SyncedRowIsTrue
      <3>4. QED  BY <3>2, <3>3
    <2>5. \A q \in Pages : (Syncing(q)' <=> q = p)
      BY <1>1, <1>2, <2>1 DEF Syncing
    <2>6. \A q \in Pages : AloneOK(q)' /\ DoneOK(q)'
      BY <1>1, <1>2, <1>4, <2>5 DEF AloneOK, DoneOK, Syncing
    <2>7. QED  BY <2>4, <2>6 DEF Synced
  <1>5. CASE ~job[p].alone
    <2>1. Docs \subseteq muddled'  BY <1>1, <1>5 DEF Synced, AloneOK
    <2>2. SyncedRowIsTrue'  BY <1>3, <2>1 DEF SyncedRowIsTrue
    <2>3. \A q \in Pages : Syncing(q)' <=> Syncing(q)
      BY <1>1, <1>2 DEF Syncing
    <2>4. \A q \in Pages : AloneOK(q)'
      BY <1>1, <1>2, <1>5, <2>1, <2>3 DEF AloneOK, Synced
    <2>5. \A q \in Pages : DoneOK(q)'
      BY <1>1, <1>2 DEF DoneOK, Synced, Indexed, index
    <2>6. QED  BY <2>2, <2>4, <2>5 DEF Synced
  <1>6. QED  BY <1>4, <1>5

LEMMA SyncedAnswered ==
  ASSUME Shapes, Synced, NEW p \in Pages, SyncListFails(p) \/ SyncEnds(p)
  PROVE  Synced'
  <1>1. /\ job' = [job EXCEPT ![p] = NoJob] /\ UNCHANGED <<documents, index, muddled>> /\ Shapes'
    BY SyncAnswersStep DEF tables
  <1>2. job'[p] = NoJob /\ (\A q \in Pages : q # p => job'[q] = job[q]) /\ NoJob.pc = "idle"
    BY <1>1, JobFacts DEF NoJob
  <1>3. job[p].doc = NoDoc
    BY JobFacts DEF SyncListFails, SyncEnds, JobAt, JobOK
  <1>4. SyncedRowIsTrue'
    <2>1. NoNewOutcome  BY <1>1 DEF NoNewOutcome
    <2>2. \A d \in Docs :
           d \notin muddled' /\ (\A q \in Pages : job'[q].doc # d) =>
             d \notin muddled /\ (\A q \in Pages : job[q].doc # d) /\ Elsewhere(d)
      BY <1>1, <1>2, <1>3, IndexSame, DocumentsAssumption
    <2>3. QED  BY <1>1, <2>1, <2>2, RowsStay DEF Synced
  <1>5. \A q \in Pages : (Syncing(q)' => Syncing(q) /\ q # p)
    BY <1>2 DEF Syncing
  <1>6. \A q \in Pages : AloneOK(q)'
    BY <1>1, <1>2, <1>5 DEF AloneOK, Synced
  <1>7. \A q \in Pages : DoneOK(q)'
    BY <1>1, <1>2 DEF DoneOK, Synced, Indexed, index
  <1>8. QED  BY <1>4, <1>6, <1>7 DEF Synced

LEMMA SyncedClicked ==
  ASSUME Shapes, Synced, NEW p \in Pages, ClickSync(p)
  PROVE  Synced'
  <1>1. /\ \A q \in Pages : q # p =>
             /\ job'[q].pc = job[q].pc /\ job'[q].doc = job[q].doc
             /\ Syncing(q) => ~job'[q].alone
             /\ ~Syncing(q) => job'[q].pc = "idle"
        /\ job'[p].pc = "list" /\ (job'[p].alone <=> \A q \in Pages : ~Syncing(q))
        /\ ~Syncing(p) /\ muddled' = IF \A q \in Pages : ~Syncing(q) THEN muddled ELSE Docs
        /\ UNCHANGED index /\ Shapes'
    BY ClickSyncStep
  <1>2. UNCHANGED documents  BY DEF ClickSync, tables
  <1>3. job[p].doc = NoDoc  BY <1>1, JobFacts DEF JobOK, Syncing
  <1>4. SyncedRowIsTrue'
    <2>1. NoNewOutcome  BY <1>2 DEF NoNewOutcome
    <2>2. \A d \in Docs :
           d \notin muddled' /\ (\A q \in Pages : job'[q].doc # d) =>
             d \notin muddled /\ (\A q \in Pages : job[q].doc # d) /\ Elsewhere(d)
      BY <1>1, <1>3, IndexSame, DocumentsAssumption
    <2>3. QED  BY <1>1, <2>1, <2>2, RowsStay DEF Synced
  <1>5. \A q \in Pages : AloneOK(q)'
    <2>1. TAKE q \in Pages
    <2>2. CASE q = p
      BY <1>1, <2>2 DEF AloneOK, Syncing
    <2>3. CASE q # p
      BY <1>1, <2>3 DEF AloneOK, Syncing
    <2>4. QED  BY <2>2, <2>3
  <1>6. \A q \in Pages : DoneOK(q)'
    BY <1>1 DEF DoneOK, Syncing
  <1>7. QED  BY <1>4, <1>5, <1>6 DEF Synced

LEMMA SyncedSteps == Shapes /\ Synced /\ [DocNext]_allVars => Synced'
  <1> SUFFICES ASSUME Shapes, Synced, [DocNext]_allVars  PROVE Synced'
    OBVIOUS
  <1>1. Shapes'  BY StepIs, StutterIs
  <1>2. CASE Next /\ UNCHANGED docVars
    BY <1>1, <1>2, NextRecordsNothing, SyncsKept DEF docVars
  <1>3. CASE (\E d \in Docx : Edit(d)) \/ UNCHANGED allVars
    <2>1. UNCHANGED <<documents, index, job, muddled>>
      BY <1>3 DEF Edit, allVars, docVars, vars, sourceVars, tables
    <2>2. NoNewOutcome  BY <2>1 DEF NoNewOutcome
    <2>3. QED  BY <1>1, <2>1, <2>2, SyncsKept
  <1>4. CASE \E p \in Pages : SyncStep(p)
    BY <1>4, SyncedUnit, SyncedChunk, SyncedNothing, SyncedRecorded, SyncedAnswered, SyncedClicked
    DEF SyncStep
  <1>5. QED  BY <1>2, <1>3, <1>4 DEF DocNext

LEMMA SyncedInit == DocInit => Synced
  <1> SUFFICES ASSUME DocInit  PROVE Synced
    OBVIOUS
  <1>1. NoJob.pc = "idle" /\ \A p \in Pages : job[p] = NoJob  BY InitFacts DEF NoJob
  <1>2. SyncedRowIsTrue  BY InitFacts DEF SyncedRowIsTrue
  <1>3. QED  BY <1>1, <1>2 DEF Synced, AloneOK, DoneOK, Syncing

\* SyncedRowIsTrue: unless its outcome could not be written or two syncs overlapped, a row that
\* says "synced, no error" has one text of its document in the index, from end to end.
THEOREM SyncedRowsAreTrue == DocSpec => []SyncedRowIsTrue
  <1>1. Shapes /\ [DocNext]_allVars => Shapes'  BY StepIs, StutterIs
  <1>2. Shapes /\ Synced /\ [DocNext]_allVars => Synced'  BY SyncedSteps
  <1>3. Synced => SyncedRowIsTrue  BY DEF Synced
  <1>4. QED  BY <1>1, <1>2, <1>3, InitShapes, SyncedInit, PTL DEF DocSpec

=============================================================================
