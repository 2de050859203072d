----------------------------- MODULE AdminPage -----------------------------
(***************************************************************************)
(* The admin page of internal/httpapi/router.go, whose script is one       *)
(* client of the sources' handlers.  For each kind of source it keeps what *)
(* it has loaded (items), what it has seen selected (joined) and what is   *)
(* ticked (selected), all copies that grow stale: other pages, callers of  *)
(* the API and the background rounds write to the tables meanwhile.        *)
(*                                                                         *)
(* A request is sent by a click and its answer read in a step of its own.  *)
(* Ticks may be set between the two.  A page with a request under way      *)
(* sends no other one: a second page stands for that.                      *)
(***************************************************************************)
EXTENDS SourceSelection

CONSTANTS
  Pages,      \* open admin pages
  MaxToggles  \* bound on the clicks on check boxes

ASSUME PagesAssumption == Pages = Clients /\ MaxToggles \in Nat

VARIABLES
  items,     \* items[p]: the rows the page shows as candidates
  joined,    \* joined[p]: the rows it shows as joined
  ticks,     \* ticks[p]: state[type].selected, the things that are ticked
  toggles,   \* clicks on check boxes so far
  chosen,    \* things that somebody has ticked, or posted, at some time
  takenOut   \* things that a save left out and that nobody has ticked since

pageVars == <<items, joined, ticks>>
history == <<chosen, takenOut>>
vars == <<sourceVars, pageVars, toggles, history>>

Who(rows) == {row.who : row \in rows}

-----------------------------------------------------------------------------
(* The page's helpers *)

\* restoreSelected: what the loaded rows call selected is ticked, nothing else.
RestoreSelected(join, shown) == Who(join) \cup Who(SelectedOf(shown))

\* Mutant: every row that was read counts as joined.
JoinedAll(rows) == rows

\* What loadCached* keeps of the table as joined.
Joined(rows) == SelectedOf(rows)

\* selectedItems: the row of each ticked thing, a candidate before a joined one.
SelectedItems(p) ==
  {row \in items[p] \cup joined[p] :
     row.who \in ticks[p] /\ (row \in items[p] \/ row.who \notin Who(items[p]))}

\* toggleOne and togglePage: the boxes of one row, or of the page's rows.
\* Nothing but a save looks at a tick.
Toggle(p, things, checked) ==
  /\ "save" \in scenario.kinds /\ toggles < MaxToggles
  /\ things # {} /\ things \subseteq Who(items[p])
  /\ toggles' = toggles + 1
  /\ ticks' = [ticks EXCEPT ![p] = IF checked THEN @ \cup things ELSE @ \ things]
  /\ chosen' = IF checked THEN chosen \cup things ELSE chosen
  /\ takenOut' = IF checked THEN takenOut \ things ELSE takenOut
  /\ UNCHANGED <<sourceVars, items, joined>>

-----------------------------------------------------------------------------
(* Clicks that send a request *)

\* The page is opened anew: loadCachedChats, loadCachedContacts, loadCachedDocuments.
Open(p) ==
  /\ LocalRequest(p)
  /\ items' = [items EXCEPT ![p] = {}] /\ joined' = [joined EXCEPT ![p] = {}]
  /\ ticks' = [ticks EXCEPT ![p] = {}]
  /\ UNCHANGED <<toggles, history>>

\* loadChats, loadContacts, loadDocuments
ClickLoad(p) ==
  /\ LoadRequest(p)
  /\ UNCHANGED <<pageVars, toggles, history>>

\* saveChats, saveContacts, saveDocuments: nothing is sent without a tick.
ClickSave(p) ==
  /\ SelectedItems(p) # {}
  /\ SaveRequest(p, SelectedItems(p))
  /\ UNCHANGED <<pageVars, toggles, history>>

\* resolveContactChats
ClickResolve(p) ==
  /\ ResolveRequest(p)
  /\ UNCHANGED <<pageVars, toggles, history>>

-----------------------------------------------------------------------------
(* Answers *)

\* The answer to a load: the candidates are replaced, what is joined is not.
ReadLoad(p) ==
  /\ At(p, "ok") /\ req[p].kind = "load"
  /\ items' = [items EXCEPT ![p] = req[p].answer]
  /\ ticks' = [ticks EXCEPT ![p] = RestoreSelected(joined[p], req[p].answer)]
  /\ req' = [req EXCEPT ![p] = NoRequest]
  /\ UNCHANGED <<scenario, tables, requests, unseen, joined, toggles, history>>

\* The answer to a local list: what is joined is replaced, candidates only if
\* there are none.
ReadLocal(p) ==
  LET shown == IF items[p] = {} THEN req[p].answer ELSE items[p] IN
  /\ At(p, "ok") /\ req[p].kind = "local"
  /\ items' = [items EXCEPT ![p] = shown]
  /\ joined' = [joined EXCEPT ![p] = Joined(req[p].answer)]
  /\ ticks' = [ticks EXCEPT ![p] = RestoreSelected(Joined(req[p].answer), shown)]
  /\ req' = [req EXCEPT ![p] = NoRequest]
  /\ UNCHANGED <<scenario, tables, requests, unseen, toggles, history>>

\* A save, a resolve or a sync went well: the page reads the table again.
ReadDone(p) ==
  /\ At(p, "ok") /\ req[p].kind \in {"save", "resolve", "sync"}
  /\ req' = [req EXCEPT ![p] = [NoRequest EXCEPT !.kind = "local", !.pc = "list"]]
  /\ takenOut' = IF req[p].kind = "save"
                   THEN takenOut \cup (Remote \ (Who(req[p].posted) \cup ticks[p]))
                   ELSE takenOut
  /\ UNCHANGED <<scenario, tables, requests, unseen, pageVars, toggles, chosen>>

\* An error is shown, and nothing else happens.
ReadError(p) ==
  /\ At(p, "failed")
  /\ req' = [req EXCEPT ![p] = NoRequest]
  /\ UNCHANGED <<scenario, tables, requests, unseen, pageVars, toggles, history>>

-----------------------------------------------------------------------------
(* Others *)

\* A caller of the API without the page.
Curl ==
  \E g \in Groups, selected \in BOOLEAN, sync \in BOOLEAN, auto \in BOOLEAN :
    /\ PostChat(g, selected, sync, auto)
    /\ chosen' = IF selected THEN chosen \cup {g} ELSE chosen
    /\ takenOut' = IF selected THEN takenOut \ {g} ELSE takenOut
    /\ UNCHANGED <<pageVars, toggles>>

PageStep(p) ==
  \/ \E things \in SUBSET Things, checked \in BOOLEAN : Toggle(p, things, checked)
  \/ Open(p) \/ ClickLoad(p) \/ ClickSave(p) \/ ClickResolve(p)
  \/ ReadLoad(p) \/ ReadLocal(p) \/ ReadDone(p) \/ ReadError(p)

\* The pages have been opened, and have read the table.
Init ==
  /\ SourceInit
  /\ items = [p \in Pages |-> ListCached]
  /\ joined = [p \in Pages |-> SelectedOf(ListCached)]
  /\ ticks = [p \in Pages |-> Who(SelectedOf(ListCached))]
  /\ toggles = 0
  /\ chosen = Who(SelectedOf(ListCached)) /\ takenOut = {}

Next ==
  \/ \E p \in Pages : PageStep(p)
  \/ \E a \in Clients \cup Runners : HandlerStep(a) /\ UNCHANGED <<pageVars, toggles, history>>
  \/ \E a \in Runners : MatchRound(a) /\ UNCHANGED <<pageVars, toggles, history>>
  \/ Curl

Spec == Init /\ [][Next]_vars

-----------------------------------------------------------------------------
(* Properties *)

Items == [who : Things, selected : BOOLEAN, chat : ChatIDs \cup {NoChat}]

Requests ==
  [kind : {"none", "save", "load", "local", "resolve", "match", "sync"},
   pc : {"idle", "clear", "upsert", "fetch", "cache", "list", "selected", "send", "save",
         "match", "sync", "ok", "failed"},
   todo : SUBSET Items, posted : SUBSET Items, answer : SUBSET Items,
   alone : BOOLEAN, unsettled : ChatIDs \cup {NoChat}]

ChatRows == [selected : BOOLEAN, sync : BOOLEAN, auto : BOOLEAN]
ContactRows == [who : Persons, selected : BOOLEAN, chat : ChatIDs \cup {NoChat}]
DocumentRows == [selected : BOOLEAN, synced : BOOLEAN, error : BOOLEAN]

TypeOK ==
  /\ scenario \in Scenarios /\ requests \in 0..scenario.starts /\ toggles \in 0..MaxToggles
  /\ DOMAIN chats \subseteq Groups /\ chats \in [DOMAIN chats -> ChatRows]
  /\ contacts \in [DOMAIN contacts -> ContactRows]
  /\ \A k \in DOMAIN contacts : Key(contacts[k].who) = k
  /\ DOMAIN documents \subseteq Docs /\ documents \in [DOMAIN documents -> DocumentRows]
  /\ req \in [Clients \cup Runners -> Requests]
  /\ greeted \in [Persons -> Nat] /\ excused \subseteq Persons
  /\ items \in [Pages -> SUBSET Items] /\ joined \in [Pages -> SUBSET SelectedOf(Items)]
  /\ ticks \in [Pages -> SUBSET Things]
  /\ chosen \subseteq Things /\ takenOut \subseteq Things

\* The keys that the table calls selected.
SelectedKeys == {Key(row.who) : row \in SelectedOf(ListCached)}

(* A save that is answered with 200, while no other save ran, leaves       *)
(* selected exactly what was posted, whatever listings, resolves and       *)
(* rounds were writing to the same rows.                                   *)
SaveIsExact ==
  \A p \in Pages : At(p, "ok") /\ req[p].kind = "save" /\ req[p].alone =>
    /\ SelectedKeys = {Key(row.who) : row \in req[p].posted}
    /\ \A g \in DOMAIN chats : chats[g].sync = chats[g].selected

(* No source gets into the knowledge base that nobody ever chose: what is  *)
(* selected has been ticked or posted by someone.  Pages post stale rows,  *)
(* and listings write what Feishu knows; neither may select.  Persons      *)
(* without an open id are left out: they share a row, and its selection.   *)
OnlyChosen ==
  \A row \in SelectedOf(ListCached) : row.who \in HasOpenID \cup Groups \cup Docs =>
    row.who \in chosen

(* The private chat of a contact, once found, is never forgotten, though   *)
(* pages post rows they have read before it was found.                     *)
ChatIDKept ==
  [][\A k \in DOMAIN contacts : contacts[k].chat # NoChat =>
       k \in DOMAIN contacts' /\ contacts'[k].chat # NoChat]_vars

(* resolve-chats writes to a contact once: it writes again only if a call  *)
(* for that contact failed or two such requests ran at the same time.      *)
GreetedOnce == \A p \in Persons : greeted[p] > 1 => p \in excused

(* docs/mvp-roadmap.md: the admin chooses which groups enter the knowledge *)
(* base.  So what a save has taken out is selected again only after        *)
(* somebody ticks it.                                                      *)
TakenOutStaysOut == \A row \in SelectedOf(ListCached) : row.who \notin takenOut

=============================================================================
