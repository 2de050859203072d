------------------------ MODULE AuthorizationProofs ------------------------
(***************************************************************************)
(* Theorems about Authorization and TokenCache for any number of callers,  *)
(* people, states, callbacks and grants, for every length of a life, a     *)
(* margin, a delay and an interval that the assumptions allow.             *)
(***************************************************************************)
EXTENDS Authorization, TLAPS

-----------------------------------------------------------------------------
(* The inductive invariant: types, and for each of three properties what   *)
(* keeps it.                                                               *)

\* An entry ends with its token less the margin, or as much later as a SET
\* may take; and a call that is about to SET has not had its time.
EntriesInTime ==
  /\ cache.told > Margin =>
       cache.token > 0 /\ cache.until + Margin <= expires[cache.token] + MaxDelay
  /\ \A c \in Callers : CallAt(c, "set") =>
       /\ call[c].token > 0
       /\ expires[call[c].token] = call[c].since + call[c].told
       /\ now <= call[c].since + MaxDelay
  /\ scenario.on = "sessions" => \A c \in Callers : CallAt(c, "idle")

\* A callback that got behind the check of its state.
Admitted(h) == handler[h].pc \in {"exchange", "save"}

\* A state is at one place: not made, a key in Redis, with one callback, or used.
StatesMoveOn ==
  /\ \A s \in LoginStates : s \notin begun => states[s] = NoTime /\ opened[s] = 0
  /\ \A s \in LoginStates : states[s] # NoTime => opened[s] = 0
  /\ \A h \in Handlers : ~HandlerAt(h, "idle") => handler[h].state \in begun
  /\ \A h \in Handlers : Admitted(h) =>
       /\ states[handler[h].state] = NoTime /\ opened[handler[h].state] = 0
       /\ \A k \in Handlers : Admitted(k) /\ handler[k].state = handler[h].state => k = h

\* Grant n is of the account that session i is of.
IsOf(n, i) ==
  n \in 1..Len(grants)
  /\ (sessions[i].account # NoAccount => grants[n].account = sessions[i].account)

\* Whoever is about to write tokens has those of the account he writes to.
TokensOnTheWay ==
  /\ \A h \in Handlers : HandlerAt(h, "save") =>
       /\ handler[h].grant \in 1..Len(grants)
       /\ handler[h].account # NoAccount =>
            grants[handler[h].grant].account = handler[h].account
  /\ refresher.pc # "idle" => refresher.id > 0 /\ IsOf(refresher.token, refresher.id)
  /\ refresher.pc = "save" => IsOf(refresher.grant, refresher.id)

IInv ==
  /\ TypeOK
  /\ EntriesInTime
  /\ StatesMoveOn /\ OneSessionPerState
  /\ TokensOnTheWay /\ TokensOfAccount

-----------------------------------------------------------------------------
(* The app's token *)

LEMMA RequestCall == [NoCall EXCEPT !.pc = "request"] = [pc |-> "request", token |-> 0, told |-> 0, since |-> 0]
  BY DEF NoCall

LEMMA TokenStepTypes ==
  ASSUME TypeOK, NEW c \in Callers, TokenStep(c), UNCHANGED now
  PROVE  TokenTypeOK'
  <1> USE TokenCacheAssumption DEF TypeOK, TokenTypeOK, CallAt
  <1>1. CASE GetMisses(c)
    BY <1>1, RequestCall DEF GetMisses
  <1>2. CASE GrantNew(c)
    <2>1. PICK life \in Lives : expires' = Append(expires, now + life) /\ Hold(c, Len(expires) + 1, life)
      BY <1>2 DEF GrantNew
    <2>2. /\ life \in Nat /\ cache' = cache
          /\ expires' \in Seq(Nat) /\ Len(expires') = Len(expires) + 1 /\ Len(expires') <= MaxTokens
      BY <1>2, <2>1 DEF GrantNew
    <2> DEFINE Calls(k) == [pc : {"idle", "request", "set"}, token : 0..k, told : Nat, since : 0..now]
    <2>3. [pc |-> "set", token |-> Len(expires) + 1, told |-> life, since |-> now] \in Calls(Len(expires) + 1)
      BY <2>2
    <2>4. Calls(Len(expires)) \subseteq Calls(Len(expires) + 1)
      OBVIOUS
    <2>5. call \in [Callers -> Calls(Len(expires))]
      OBVIOUS
    <2>6. call' = [call EXCEPT ![c] = [pc |-> "set", token |-> Len(expires) + 1, told |-> life, since |-> now]]
      BY <2>1 DEF Hold
    <2>7. cache \in [token : 0..(Len(expires) + 1), until : Nat, told : Nat]
      OBVIOUS
    <2> HIDE DEF Calls
    <2>8. call' \in [Callers -> Calls(Len(expires) + 1)]
      BY <2>3, <2>4, <2>5, <2>6
    <2>9. QED
      BY <2>2, <2>7, <2>8 DEF Calls
  <1>3. CASE GrantAgain(c)
    <2>1. PICK n \in 1..Len(expires) : expires[n] > now /\ Hold(c, n, expires[n] - now)
      BY <1>3 DEF GrantAgain
    <2>2. UNCHANGED <<cache, expires>> /\ expires[n] \in Nat /\ expires[n] - now \in Nat
      <3>1. expires[n] \in Nat
        BY <2>1
      <3>2. expires[n] - now \in Nat
        BY <2>1, <3>1
      <3>3. UNCHANGED <<cache, expires>>
        BY <1>3 DEF GrantAgain
      <3>4. QED
        BY <3>1, <3>2, <3>3
    <2>3. [pc |-> "set", token |-> n, told |-> expires[n] - now, since |-> now]
            \in [pc : {"idle", "request", "set"}, token : 0..Len(expires), told : Nat, since : 0..now]
      BY <2>2
    <2>4. QED
      BY <2>1, <2>2, <2>3 DEF Hold
  <1>4. CASE RequestFails(c)
    BY <1>4 DEF RequestFails, NoCall
  <1>5. CASE SetFails(c)
    BY <1>5 DEF SetFails, NoCall
  <1>6. CASE SetEntry(c)
    <2>1. TTL(call[c].told) \in Nat
      BY DEF TTL
    <2>2. cache' \in [token : 0..Len(expires), until : Nat, told : Nat]
      BY <1>6, <2>1 DEF SetEntry, Entry
    <2>3. QED
      BY <1>6, <2>2 DEF SetEntry, NoCall
  <1>7. QED
    BY <1>1, <1>2, <1>3, <1>4, <1>5, <1>6 DEF TokenStep

LEMMA TokenStepEntries ==
  ASSUME IInv, NEW c \in Callers, TokenStep(c), UNCHANGED <<now, scenario>>, scenario.on = "tenant"
  PROVE  EntriesInTime'
  <1> USE TokenCacheAssumption DEF IInv, TypeOK, TokenTypeOK, CallAt
  <1>1. CASE GetMisses(c)
    BY <1>1, RequestCall DEF GetMisses, EntriesInTime
  <1>2. CASE GrantNew(c)
    <2>1. PICK life \in Lives : expires' = Append(expires, now + life) /\ Hold(c, Len(expires) + 1, life)
      BY <1>2 DEF GrantNew
    <2>2. /\ life \in Nat /\ now + life \in Nat /\ cache' = cache
          /\ Len(expires') = Len(expires) + 1 /\ expires'[Len(expires) + 1] = now + life
          /\ \A n \in 1..Len(expires) : expires'[n] = expires[n]
      BY <1>2, <2>1 DEF GrantNew
    <2>3. call' = [call EXCEPT ![c] = [pc |-> "set", token |-> Len(expires) + 1, told |-> life, since |-> now]]
      BY <2>1 DEF Hold
    <2>4. cache.token > 0 => expires'[cache.token] = expires[cache.token]
      BY <2>2
    <2>5. \A d \in Callers \ {c} : call'[d] = call[d]
            /\ (call[d].token > 0 => expires'[call[d].token] = expires[call[d].token])
      <3>1. \A d \in Callers : call[d].token \in 0..Len(expires)
        OBVIOUS
      <3>2. \A d \in Callers \ {c} : call'[d] = call[d]
        BY <2>3
      <3>3. \A d \in Callers : call[d].token > 0 => expires'[call[d].token] = expires[call[d].token]
        <4> TAKE d \in Callers
        <4> HAVE call[d].token > 0
        <4>1. call[d].token \in 1..Len(expires)
          BY <3>1
        <4>2. QED
          BY <2>2, <4>1
      <3>4. QED
        BY <3>2, <3>3
    <2>6. call'[c] = [pc |-> "set", token |-> Len(expires) + 1, told |-> life, since |-> now]
      BY <2>3
    <2>7. \A d \in Callers : CallAt(d, "set")' =>
            /\ call'[d].token > 0
            /\ expires'[call'[d].token] = call'[d].since + call'[d].told
            /\ now' <= call'[d].since + MaxDelay
      <3> SUFFICES ASSUME NEW d \in Callers, call'[d].pc = "set"
                   PROVE  /\ call'[d].token > 0
                          /\ expires'[call'[d].token] = call'[d].since + call'[d].told
                          /\ now' <= call'[d].since + MaxDelay
        OBVIOUS
      <3>1. CASE d = c
        BY <3>1, <2>2, <2>6
      <3>2. CASE d # c
        <4>1. call'[d] = call[d] /\ call[d].pc = "set"
          BY <3>2, <2>5
        <4>2. /\ call[d].token > 0 /\ expires[call[d].token] = call[d].since + call[d].told
              /\ now <= call[d].since + MaxDelay
          BY <4>1 DEF EntriesInTime
        <4>3. QED
          BY <3>2, <2>5, <4>1, <4>2
      <3>3. QED
        BY <3>1, <3>2
    <2>8. QED
      BY <2>2, <2>4, <2>7 DEF EntriesInTime
  <1>3. CASE GrantAgain(c)
    <2>1. PICK n \in 1..Len(expires) : expires[n] > now /\ Hold(c, n, expires[n] - now)
      BY <1>3 DEF GrantAgain
    <2>2. /\ call' = [call EXCEPT ![c] =
                       [pc |-> "set", token |-> n, told |-> expires[n] - now, since |-> now]]
          /\ UNCHANGED <<cache, expires>>
          /\ expires[n] \in Nat
      <3>1. UNCHANGED <<cache, expires>>
        BY <1>3 DEF GrantAgain
      <3>2. expires[n] \in Nat
        BY <2>1
      <3>3. QED
        BY <2>1, <3>1, <3>2 DEF Hold
    <2>3. call'[c] = [pc |-> "set", token |-> n, told |-> expires[n] - now, since |-> now]
          /\ \A d \in Callers \ {c} : call'[d] = call[d]
      BY <2>2
    <2>4. n > 0 /\ expires[n] = now + (expires[n] - now) /\ now <= now + MaxDelay
      BY <2>2
    <2>5. QED
      BY <2>2, <2>3, <2>4 DEF EntriesInTime
  <1>4. CASE RequestFails(c)
    BY <1>4 DEF RequestFails, NoCall, EntriesInTime
  <1>5. CASE SetFails(c)
    BY <1>5 DEF SetFails, NoCall, EntriesInTime
  <1>6. CASE SetEntry(c)
    <2>1. cache' = Entry(call[c].token, now + TTL(call[c].told), call[c].told)
          /\ UNCHANGED expires /\ CallAt(c, "set") /\ call' = [call EXCEPT ![c] = NoCall]
      BY <1>6 DEF SetEntry
    <2>2. cache'.told > Margin =>
            cache'.token > 0 /\ cache'.until + Margin <= expires'[cache'.token] + MaxDelay
      <3> SUFFICES ASSUME call[c].told > Margin
                   PROVE  call[c].token > 0
                          /\ now + (call[c].told - Margin) + Margin <= expires[call[c].token] + MaxDelay
        BY <2>1 DEF Entry, TTL
      <3>1. /\ call[c].token > 0 /\ expires[call[c].token] = call[c].since + call[c].told
            /\ now <= call[c].since + MaxDelay
        BY <2>1 DEF EntriesInTime
      <3>2. /\ call[c].since \in Nat /\ call[c].told \in Nat /\ now \in Nat
            /\ Margin \in Nat /\ MaxDelay \in Nat
        OBVIOUS
      <3>3. QED
        BY <3>1, <3>2
    <2>3. call'[c].pc = "idle" /\ \A d \in Callers \ {c} : call'[d] = call[d]
      BY <2>1 DEF NoCall
    <2>4. QED
      BY <2>1, <2>2, <2>3 DEF EntriesInTime
  <1>7. QED
    BY <1>1, <1>2, <1>3, <1>4, <1>5, <1>6 DEF TokenStep

LEMMA TickEntries ==
  ASSUME IInv, Tick
  PROVE  TokenTypeOK' /\ EntriesInTime'
  <1>1. TokenTypeOK /\ EntriesInTime /\ SessionTypeOK
    BY DEF IInv, TypeOK
  <1>2. now' = now + 1 /\ UNCHANGED <<scenario, expires, cache, call>>
    BY DEF Tick, tokenVars
  <1>3. TokenTypeOK'
    <2>1. now \in Nat /\ now' \in Nat /\ 0..now \subseteq 0..now'
      BY <1>1, <1>2 DEF TokenTypeOK
    <2>2. QED
      BY <1>1, <1>2, <2>1 DEF TokenTypeOK
  <1>4. scenario.on = "tenant" => \A c \in Callers : CallAt(c, "set") => now < call[c].since + MaxDelay
    BY DEF Tick, TokenInTime
  <1>5. scenario.on = "sessions" => \A c \in Callers : CallAt(c, "idle")
    BY <1>1 DEF EntriesInTime
  <1>6. scenario.on \in {"tenant", "sessions"}
    BY <1>1, SessionsAssumption DEF SessionTypeOK
  <1>7. \A c \in Callers : CallAt(c, "set") => now' <= call[c].since + MaxDelay
    <2> SUFFICES ASSUME NEW c \in Callers, CallAt(c, "set") PROVE now + 1 <= call[c].since + MaxDelay
      BY <1>2
    <2>1. now < call[c].since + MaxDelay
      BY <1>4, <1>5, <1>6 DEF CallAt
    <2>2. now \in Nat /\ call[c].since \in Nat /\ MaxDelay \in Nat
      BY <1>1, TokenCacheAssumption DEF TokenTypeOK
    <2>3. QED
      BY <2>1, <2>2
  <1>8. EntriesInTime'
    BY <1>1, <1>2, <1>7 DEF EntriesInTime, CallAt
  <1>9. QED
    BY <1>3, <1>8

-----------------------------------------------------------------------------
(* Types of what the sessions' steps are made of *)

LEMMA SpareType == Spare \in Int /\ Spare + 1 \in Nat
  <1>1. (RefreshBefore - CallTime - 1) \in Nat /\ (Interval + CallTime) \in Nat \ {0}
    BY SessionsAssumption
  <1>2. \A a \in Nat, b \in Nat \ {0} : (a \div b) \in Nat
    OBVIOUS
  <1>3. ((RefreshBefore - CallTime - 1) \div (Interval + CallTime)) \in Nat
    BY <1>1, <1>2
  <1>4. QED
    BY <1>3 DEF Spare

LEMMA MissType ==
  ASSUME missed \in 0..(Spare + 1), Miss
  PROVE  missed' \in 0..(Spare + 1)
  BY SpareType DEF Miss

LEMMA RoundEndsType ==
  ASSUME TypeOK, RoundEnds
  PROVE  refresher' = NoRound /\ tickAt' \in Times
  <1> USE DEF RoundEnds, Times
  <1>1. now \in Nat /\ tickAt \in Times /\ Interval \in Nat
    BY SessionsAssumption DEF TypeOK, TokenTypeOK, SessionTypeOK
  <1>2. CASE tickAt = NoTime
    BY <1>1, <1>2
  <1>3. CASE tickAt # NoTime /\ refresher.pc = "idle"
    BY <1>1, <1>3
  <1>4. CASE tickAt # NoTime /\ refresher.pc # "idle"
    BY <1>1, <1>4
  <1>5. QED
    BY <1>2, <1>3, <1>4

LEMMA IdleTypes ==
  ASSUME now \in Nat
  PROVE  NoCallback \in Handling(now) /\ NoRound \in Rounds(now)
  <1>1. 0 \in Numbers /\ 0 \in 0..now
    BY SessionsAssumption DEF Numbers
  <1>2. QED
    BY <1>1 DEF NoCallback, NoRound, Handling, Rounds

LEMMA NewCallback ==
  ASSUME now \in Nat, NEW s \in LoginStates
  PROVE  [NoCallback EXCEPT !.pc = "state", !.state = s, !.since = now] \in Handling(now)
  <1>1. ASSUME NEW r \in Handling(now) PROVE [r EXCEPT !.pc = "state"] \in Handling(now)
    BY <1>1 DEF Handling
  <1>2. ASSUME NEW r \in Handling(now) PROVE [r EXCEPT !.state = s] \in Handling(now)
    BY <1>2 DEF Handling
  <1>3. ASSUME NEW r \in Handling(now) PROVE [r EXCEPT !.since = now] \in Handling(now)
    BY <1>3 DEF Handling
  <1>4. QED
    BY <1>1, <1>2, <1>3, IdleTypes

LEMMA HandlingWithGrant ==
  ASSUME NEW r \in Handling(now), NEW g \in Numbers, NEW a \in Accounts \cup {NoAccount},
         NEW t \in BOOLEAN, NEW x \in BOOLEAN, NEW n \in BOOLEAN
  PROVE  [r EXCEPT !.pc = "save", !.grant = g, !.account = a,
                   !.told = t, !.refreshTold = x, !.renewable = n]
           \in Handling(now)
  BY DEF Handling

LEMMA OneMore ==
  ASSUME opened \in [LoginStates -> Nat], NEW s, opened' = [opened EXCEPT ![s] = @ + 1]
  PROVE  opened' \in [LoginStates -> Nat]
  <1>1. CASE s \in LoginStates
    BY <1>1
  <1>2. CASE s \notin LoginStates
    BY <1>2
  <1>3. QED
    BY <1>1, <1>2

LEMMA AnswersType ==
  \A answer \in Answers :
    answer.told \in BOOLEAN /\ answer.refreshTold \in BOOLEAN /\ answer.renewable \in BOOLEAN
  <1>1. Answers \subseteq [told : BOOLEAN, refreshTold : BOOLEAN, renewable : BOOLEAN]
    BY SessionsAssumption
  <1>2. QED
    BY <1>1

LEMMA UntilType == ASSUME now \in Nat, NEW told, NEW life \in Nat PROVE Until(told, life) \in Times
  BY DEF Until, Times

\* Rows stay rows when there are more grants.
LEMMA RowsKept ==
  ASSUME NEW n \in Nat, NEW s \in Seq(SessionRows(n))
  PROVE  s \in Seq(SessionRows(n + 1))
  <1>1. SessionRows(n) \subseteq SessionRows(n + 1)
    BY DEF SessionRows
  <1>2. QED
    BY <1>1

\* A grant that is added keeps the types of grants and rows.
LEMMA AppendGrant ==
  ASSUME SessionTypeOK, NEW g \in GrantRows, NEW old \in Seq(GrantRows), Len(old) = Len(grants),
         Len(grants) < MaxGrants, grants' = Append(old, g)
  PROVE  /\ grants' \in Seq(GrantRows) /\ Len(grants') = Len(grants) + 1 /\ Len(grants') <= MaxGrants
         /\ Len(grants') \in Numbers
         /\ sessions \in Seq(SessionRows(Len(grants')))
  <1>1. Len(grants) \in Nat /\ MaxGrants \in Nat
    BY SessionsAssumption DEF SessionTypeOK
  <1>2. grants' \in Seq(GrantRows) /\ Len(grants') = Len(grants) + 1
    OBVIOUS
  <1>3. sessions \in Seq(SessionRows(Len(grants) + 1))
    BY <1>1, RowsKept DEF SessionTypeOK
  <1>4. QED
    BY <1>1, <1>2, <1>3 DEF Numbers

LEMMA GrantType == ASSUME now \in Nat, NEW who \in Accounts PROVE Grant(who) \in GrantRows
  BY SessionsAssumption DEF Grant, GrantRows

-----------------------------------------------------------------------------
(* The login *)

\* One step of the login, or of a callback.
LoginStep ==
  \/ \E s \in LoginStates : Login(s)
  \/ \E h \in Handlers :
       \/ \E s \in LoginStates : Callback(h, s)
       \/ VerifyState(h) \/ RefuseState(h) \/ Exchange(h) \/ ExchangeFails(h)
       \/ SaveSession(h) \/ SaveSessionFails(h)

LEMMA LoginTypes ==
  ASSUME IInv, LoginStep, UNCHANGED <<now, scenario>>
  PROVE  SessionTypeOK'
  <1>0. SessionTypeOK /\ now \in Nat /\ TokensOnTheWay
    BY DEF IInv, TypeOK, TokenTypeOK
  <1>1. ASSUME NEW s \in LoginStates, Login(s) PROVE SessionTypeOK'
    <2>1. now + StateTTL \in Times
      BY <1>0, SessionsAssumption DEF Times
    <2>2. QED
      BY <1>0, <1>1, <2>1 DEF Login, refreshVars, SessionTypeOK, Latest
  <1>2. ASSUME NEW h \in Handlers, NEW s \in LoginStates, Callback(h, s) PROVE SessionTypeOK'
    <2>1. [NoCallback EXCEPT !.pc = "state", !.state = s, !.since = now] \in Handling(now)
      BY <1>0, NewCallback
    <2>2. callbacks' \in 0..scenario.callbacks
      <3>1. scenario.callbacks \in Nat
        BY <1>0, SessionsAssumption DEF SessionTypeOK
      <3>2. QED
        BY <1>0, <1>2, <3>1 DEF Callback, SessionTypeOK
    <2>3. QED
      BY <1>0, <1>2, <2>1, <2>2 DEF Callback, refreshVars, SessionTypeOK, Latest
  <1>3. ASSUME NEW h \in Handlers, VerifyState(h) PROVE SessionTypeOK'
    <2>1. [handler[h] EXCEPT !.pc = "exchange"] \in Handling(now)
      BY <1>0 DEF SessionTypeOK, Handling
    <2>2. QED
      BY <1>0, <1>3, <2>1 DEF VerifyState, DeleteState, refreshVars, SessionTypeOK, Latest, Times
  <1>4. ASSUME NEW h \in Handlers, RefuseState(h) PROVE SessionTypeOK'
    <2>1. states' \in [LoginStates -> Times]
      BY <1>0, <1>4 DEF RefuseState, DeleteState, SessionTypeOK, Times
    <2>2. QED
      BY <1>0, <1>4, <2>1, IdleTypes DEF RefuseState, refreshVars, SessionTypeOK, Latest
  <1>5. ASSUME NEW h \in Handlers, Exchange(h) PROVE SessionTypeOK'
    <2>1. PICK who \in Accounts, answer \in Answers : \E account \in UserInfo(who) :
            /\ grants' = Append(grants, Grant(who))
            /\ handler' = [handler EXCEPT ![h] =
                 [@ EXCEPT !.pc = "save", !.grant = Len(grants) + 1, !.account = account,
                           !.told = answer.told, !.refreshTold = answer.refreshTold,
                           !.renewable = answer.renewable]]
      BY <1>5 DEF Exchange
    <2>2. PICK account \in Accounts \cup {NoAccount} :
            handler' = [handler EXCEPT ![h] =
                 [@ EXCEPT !.pc = "save", !.grant = Len(grants) + 1, !.account = account,
                           !.told = answer.told, !.refreshTold = answer.refreshTold,
                           !.renewable = answer.renewable]]
      BY <2>1 DEF UserInfo
    <2>3. /\ grants' \in Seq(GrantRows) /\ Len(grants') <= MaxGrants
          /\ Len(grants) + 1 \in Numbers
          /\ sessions \in Seq(SessionRows(Len(grants')))
      <3>1. grants \in Seq(GrantRows) /\ Len(grants) < MaxGrants
        BY <1>0, <1>5 DEF Exchange, SessionTypeOK
      <3>2. QED
        BY <1>0, <2>1, <3>1, GrantType, AppendGrant
    <2>4. answer.told \in BOOLEAN /\ answer.refreshTold \in BOOLEAN /\ answer.renewable \in BOOLEAN
      BY AnswersType
    <2>5. [handler[h] EXCEPT !.pc = "save", !.grant = Len(grants) + 1, !.account = account,
                             !.told = answer.told, !.refreshTold = answer.refreshTold,
                             !.renewable = answer.renewable] \in Handling(now)
      <3> DEFINE c == handler[h]
                 g == Len(grants) + 1
                 t == answer.told
                 x == answer.refreshTold
                 n == answer.renewable
      <3>1. c \in Handling(now)
        BY <1>0 DEF SessionTypeOK
      <3>2. g \in Numbers /\ t \in BOOLEAN /\ x \in BOOLEAN /\ n \in BOOLEAN
        BY <2>3, <2>4
      <3> HIDE DEF c, g, t, x, n
      <3>3. [c EXCEPT !.pc = "save", !.grant = g, !.account = account,
                      !.told = t, !.refreshTold = x, !.renewable = n] \in Handling(now)
        BY <3>1, <3>2, HandlingWithGrant
      <3>4. QED
        BY <3>3 DEF c, g, t, x, n
    <2>6. handler' \in [Handlers -> Handling(now)]
      <3>1. handler \in [Handlers -> Handling(now)]
        BY <1>0 DEF SessionTypeOK
      <3>2. QED
        BY <2>2, <2>5, <3>1
    <2>7. QED
      BY <1>0, <1>5, <2>3, <2>6 DEF Exchange, refreshVars, SessionTypeOK, Latest
  <1>6. ASSUME NEW h \in Handlers, ExchangeFails(h) PROVE SessionTypeOK'
    BY <1>0, <1>6, IdleTypes DEF ExchangeFails, refreshVars, SessionTypeOK, Latest
  <1>7. ASSUME NEW h \in Handlers, SaveSession(h) PROVE SessionTypeOK'
    <2> DEFINE c == handler[h]
               row == [account |-> c.account, access |-> c.grant,
                       refresh |-> IF c.renewable THEN c.grant ELSE 0,
                       until |-> Until(c.told, AccessLife),
                       refreshUntil |-> Until(c.refreshTold, RefreshLife)]
    <2>1. c.grant \in 1..Len(grants) /\ c.account \in Accounts \cup {NoAccount}
      BY <1>0, <1>7 DEF SaveSession, TokensOnTheWay, SessionTypeOK, Handling
    <2>2. Until(c.told, AccessLife) \in Times /\ Until(c.refreshTold, RefreshLife) \in Times
      BY <1>0, SessionsAssumption, UntilType
    <2>3. row \in SessionRows(Len(grants))
      BY <1>0, <2>1, <2>2 DEF SessionRows, SessionTypeOK
    <2>4. sessions' = Append(sessions, row) /\ missed' = 0
          /\ opened' = [opened EXCEPT ![c.state] = @ + 1]
      BY <1>7 DEF SaveSession, Insert
    <2> HIDE DEF row, c
    <2>5. sessions' \in Seq(SessionRows(Len(grants))) /\ Len(sessions') = Len(sessions) + 1
      BY <1>0, <2>3, <2>4 DEF SessionTypeOK
    <2>6. opened' \in [LoginStates -> Nat]
      <3>1. opened \in [LoginStates -> Nat]
        BY <1>0 DEF SessionTypeOK
      <3>2. opened' = [opened EXCEPT ![c.state] = @ + 1]
        BY <2>4
      <3>3. QED
        BY <3>1, <3>2, OneMore
    <2>7. missed' \in 0..(Spare + 1)
      BY <2>4, SpareType
    <2>8. refresher.id <= Len(sessions') /\ lost \subseteq 1..Len(sessions')
      BY <1>0, <2>5 DEF SessionTypeOK, Latest, Rounds
    <2>9. QED
      BY <1>0, <1>7, <2>5, <2>6, <2>7, <2>8, IdleTypes DEF SaveSession, SessionTypeOK, Latest
  <1>8. ASSUME NEW h \in Handlers, SaveSessionFails(h) PROVE SessionTypeOK'
    BY <1>0, <1>8, IdleTypes DEF SaveSessionFails, refreshVars, SessionTypeOK, Latest
  <1>9. QED
    BY <1>1, <1>2, <1>3, <1>4, <1>5, <1>6, <1>7, <1>8 DEF LoginStep

LEMMA LoginMovesOn ==
  ASSUME IInv, LoginStep, UNCHANGED <<now, scenario>>
  PROVE  StatesMoveOn' /\ OneSessionPerState'
  <1> USE DEF HandlerAt, Admitted
  <1>0. /\ SessionTypeOK /\ now \in Nat /\ StatesMoveOn /\ OneSessionPerState
        /\ handler \in [Handlers -> Handling(now)] /\ states \in [LoginStates -> Times]
        /\ opened \in [LoginStates -> Nat] /\ begun \subseteq LoginStates
    BY DEF IInv, TypeOK, TokenTypeOK, SessionTypeOK
  <1>1. ASSUME NEW s \in LoginStates, Login(s) PROVE StatesMoveOn' /\ OneSessionPerState'
    BY <1>0, <1>1 DEF Login, StatesMoveOn, OneSessionPerState
  <1>2. ASSUME NEW h \in Handlers, NEW s \in LoginStates, Callback(h, s)
        PROVE  StatesMoveOn' /\ OneSessionPerState'
    <2>1. /\ handler'[h].pc = "state" /\ handler'[h].state \in begun
          /\ \A k \in Handlers \ {h} : handler'[k] = handler[k]
          /\ UNCHANGED <<states, begun, opened>>
      BY <1>0, <1>2 DEF Callback, NoCallback
    <2>2. QED
      BY <1>0, <2>1 DEF StatesMoveOn, OneSessionPerState
  <1>3. ASSUME NEW h \in Handlers, VerifyState(h) PROVE StatesMoveOn' /\ OneSessionPerState'
    <2> DEFINE s == handler[h].state
    <2>1. /\ handler'[h].pc = "exchange" /\ handler'[h].state = s
          /\ \A k \in Handlers \ {h} : handler'[k] = handler[k]
      BY <1>0, <1>3 DEF VerifyState, Handling
    <2>2. s \in LoginStates /\ states[s] # NoTime /\ s \in begun /\ opened[s] = 0
      BY <1>0, <1>3, SessionsAssumption DEF VerifyState, StateValid, Handling, StatesMoveOn
    <2>3. states' = [states EXCEPT ![s] = NoTime] /\ UNCHANGED <<begun, opened>>
      BY <1>3 DEF VerifyState, DeleteState
    <2>4. \A k \in Handlers : Admitted(k) => handler[k].state # s
      BY <1>0, <2>2 DEF StatesMoveOn
    <2> HIDE DEF s
    <2>5. QED
      BY <1>0, <2>1, <2>2, <2>3, <2>4 DEF StatesMoveOn, OneSessionPerState
  <1>4. ASSUME NEW h \in Handlers, RefuseState(h) PROVE StatesMoveOn' /\ OneSessionPerState'
    <2>1. /\ handler'[h].pc = "idle" /\ \A k \in Handlers \ {h} : handler'[k] = handler[k]
          /\ UNCHANGED <<begun, opened>>
      BY <1>0, <1>4 DEF RefuseState, NoCallback
    <2>2. \A s \in LoginStates : states'[s] \in {states[s], NoTime}
      BY <1>0, <1>4 DEF RefuseState, DeleteState
    <2>3. QED
      BY <1>0, <2>1, <2>2 DEF StatesMoveOn, OneSessionPerState
  <1>5. ASSUME NEW h \in Handlers, Exchange(h) PROVE StatesMoveOn' /\ OneSessionPerState'
    <2>1. /\ handler'[h].pc = "save" /\ handler'[h].state = handler[h].state
          /\ \A k \in Handlers \ {h} : handler'[k] = handler[k]
      BY <1>0, <1>5 DEF Exchange, Handling
    <2>2. QED
      BY <1>0, <1>5, <2>1 DEF Exchange, StatesMoveOn, OneSessionPerState
  <1>6. ASSUME NEW h \in Handlers, ExchangeFails(h) \/ SaveSessionFails(h)
        PROVE  StatesMoveOn' /\ OneSessionPerState'
    <2>1. /\ handler'[h].pc = "idle" /\ \A k \in Handlers \ {h} : handler'[k] = handler[k]
          /\ UNCHANGED <<states, begun, opened>>
      BY <1>0, <1>6 DEF ExchangeFails, SaveSessionFails, NoCallback
    <2>2. QED
      BY <1>0, <2>1 DEF StatesMoveOn, OneSessionPerState
  <1>7. ASSUME NEW h \in Handlers, SaveSession(h) PROVE StatesMoveOn' /\ OneSessionPerState'
    <2> DEFINE s == handler[h].state
    <2>1. /\ handler'[h].pc = "idle" /\ \A k \in Handlers \ {h} : handler'[k] = handler[k]
          /\ UNCHANGED <<states, begun>>
      BY <1>0, <1>7 DEF SaveSession, NoCallback
    <2>2. opened' = [opened EXCEPT ![s] = @ + 1]
      BY <1>7 DEF SaveSession, Insert
    <2>3. /\ s \in begun /\ states[s] = NoTime /\ opened[s] = 0
          /\ \A k \in Handlers : Admitted(k) /\ handler[k].state = s => k = h
      BY <1>0, <1>7 DEF SaveSession, StatesMoveOn
    <2> HIDE DEF s
    <2>4. opened'[s] = 1 /\ \A r \in LoginStates \ {s} : opened'[r] = opened[r]
      BY <1>0, <2>2, <2>3
    <2>5. QED
      BY <1>0, <2>1, <2>3, <2>4 DEF StatesMoveOn, OneSessionPerState
  <1>8. QED
    BY <1>1, <1>2, <1>3, <1>4, <1>5, <1>6, <1>7 DEF LoginStep

LEMMA LoginTokens ==
  ASSUME IInv, LoginStep, UNCHANGED <<now, scenario>>
  PROVE  TokensOnTheWay' /\ TokensOfAccount'
  <1> USE DEF HandlerAt, Latest
  <1>0. /\ TokensOnTheWay /\ TokensOfAccount
        /\ handler \in [Handlers -> Handling(now)]
        /\ grants \in Seq(GrantRows) /\ sessions \in Seq(SessionRows(Len(grants)))
        /\ refresher \in Rounds(now) /\ refresher.id <= Len(sessions)
    BY DEF IInv, TypeOK, SessionTypeOK
  <1>1. ASSUME NEW s \in LoginStates, Login(s) PROVE TokensOnTheWay' /\ TokensOfAccount'
    BY <1>0, <1>1 DEF Login, refreshVars, TokensOnTheWay, TokensOfAccount, IsOf
  <1>2. ASSUME NEW h \in Handlers, UNCHANGED <<grants, sessions, refreshVars>>,
               handler'[h].pc # "save", \A k \in Handlers \ {h} : handler'[k] = handler[k]
        PROVE  TokensOnTheWay' /\ TokensOfAccount'
    BY <1>0, <1>2 DEF refreshVars, TokensOnTheWay, TokensOfAccount, IsOf
  <1>3. ASSUME NEW h \in Handlers,
               \/ \E s \in LoginStates : Callback(h, s)
               \/ VerifyState(h) \/ RefuseState(h) \/ ExchangeFails(h) \/ SaveSessionFails(h)
        PROVE  TokensOnTheWay' /\ TokensOfAccount'
    <2>1. ASSUME NEW r, r.pc # "save", handler' = [handler EXCEPT ![h] = r],
                 UNCHANGED <<grants, sessions, refreshVars>>
          PROVE  TokensOnTheWay' /\ TokensOfAccount'
      BY <1>0, <1>2, <2>1
    <2>2. CASE \E s \in LoginStates : Callback(h, s)
      <3>1. PICK s \in LoginStates : Callback(h, s)
        BY <2>2
      <3>2. [NoCallback EXCEPT !.pc = "state", !.state = s, !.since = now].pc = "state"
        BY DEF NoCallback
      <3>3. QED
        BY <2>1, <3>1, <3>2 DEF Callback
    <2>3. CASE VerifyState(h)
      <3>1. [handler[h] EXCEPT !.pc = "exchange"].pc = "exchange"
        BY <1>0 DEF Handling
      <3>2. QED
        BY <2>1, <2>3, <3>1 DEF VerifyState
    <2>4. CASE RefuseState(h) \/ ExchangeFails(h) \/ SaveSessionFails(h)
      <3>1. NoCallback.pc = "idle"
        BY DEF NoCallback
      <3>2. QED
        BY <2>1, <2>4, <3>1 DEF RefuseState, ExchangeFails, SaveSessionFails
    <2>5. QED
      BY <1>3, <2>2, <2>3, <2>4
  <1>4. ASSUME NEW h \in Handlers, Exchange(h) PROVE TokensOnTheWay' /\ TokensOfAccount'
    <2>a. PICK who \in Accounts, answer \in Answers : \E account \in UserInfo(who) :
            /\ grants' = Append(grants, Grant(who))
            /\ handler' = [handler EXCEPT ![h] =
                 [@ EXCEPT !.pc = "save", !.grant = Len(grants) + 1, !.account = account,
                           !.told = answer.told, !.refreshTold = answer.refreshTold,
                           !.renewable = answer.renewable]]
      BY <1>4 DEF Exchange
    <2>1. PICK account \in {who, NoAccount} :
            /\ grants' = Append(grants, Grant(who))
            /\ handler' = [handler EXCEPT ![h] =
                 [@ EXCEPT !.pc = "save", !.grant = Len(grants) + 1, !.account = account,
                           !.told = answer.told, !.refreshTold = answer.refreshTold,
                           !.renewable = answer.renewable]]
      BY <2>a DEF UserInfo
    <2>2. /\ Len(grants') = Len(grants) + 1 /\ grants'[Len(grants) + 1].account = who
          /\ \A n \in 1..Len(grants) : grants'[n] = grants[n]
      BY <1>0, <2>1 DEF Grant
    <2>3. /\ handler'[h].grant = Len(grants) + 1 /\ handler'[h].account \in {who, NoAccount}
          /\ \A k \in Handlers \ {h} : handler'[k] = handler[k]
      BY <1>0, <2>1 DEF Handling
    <2>4. UNCHANGED <<sessions, refresher>> /\ Len(grants) \in Nat
      BY <1>0, <1>4 DEF Exchange, refreshVars
    <2>5. TokensOnTheWay'
      BY <1>0, <2>2, <2>3, <2>4 DEF TokensOnTheWay, IsOf
    <2>6. TokensOfAccount'
      <3>1. \A i \in 1..Len(sessions) :
              sessions[i].access \in 1..Len(grants) /\ sessions[i].refresh \in 0..Len(grants)
        <4>1. \A i \in 1..Len(sessions) : sessions[i] \in SessionRows(Len(grants))
          BY <1>0
        <4>2. QED
          BY <4>1 DEF SessionRows
      <3>2. \A n \in 1..Len(grants) : grants'[n].account = grants[n].account
        BY <2>2
      <3>3. \A i \in 1..Len(sessions) : sessions[i].refresh # 0 =>
              sessions[i].refresh \in 1..Len(grants)
        BY <3>1, <2>4
      <3>4. QED
        BY <1>0, <2>4, <3>1, <3>2, <3>3 DEF TokensOfAccount
    <2>7. QED
      BY <2>5, <2>6
  <1>5. ASSUME NEW h \in Handlers, SaveSession(h) PROVE TokensOnTheWay' /\ TokensOfAccount'
    <2> DEFINE c == handler[h]
               row == [account |-> c.account, access |-> c.grant,
                       refresh |-> IF c.renewable THEN c.grant ELSE 0,
                       until |-> Until(c.told, AccessLife),
                       refreshUntil |-> Until(c.refreshTold, RefreshLife)]
    <2>1. /\ c.grant \in 1..Len(grants)
          /\ c.account # NoAccount => grants[c.grant].account = c.account
      BY <1>0, <1>5 DEF SaveSession, TokensOnTheWay
    <2>2. sessions' = Append(sessions, row) /\ UNCHANGED <<grants, refresher>>
      BY <1>5 DEF SaveSession, Insert
    <2>3. /\ row.account = c.account /\ row.access = c.grant /\ row.refresh \in {0, c.grant}
      OBVIOUS
    <2> HIDE DEF row, c
    <2>4. /\ Len(sessions') = Len(sessions) + 1 /\ sessions'[Len(sessions) + 1] = row
          /\ \A i \in 1..Len(sessions) : sessions'[i] = sessions[i]
      BY <1>0, <2>2
    <2>5. /\ handler'[h].pc = "idle" /\ \A k \in Handlers \ {h} : handler'[k] = handler[k]
      BY <1>0, <1>5 DEF SaveSession, NoCallback
    <2>6. TokensOfAccount'
      BY <1>0, <2>1, <2>2, <2>3, <2>4 DEF TokensOfAccount
    <2>7. TokensOnTheWay'
      <3>1. refresher.id \in 0..Len(sessions)
        BY <1>0 DEF Rounds
      <3>2. refresher.pc # "idle" =>
              refresher.id > 0 /\ sessions'[refresher.id] = sessions[refresher.id]
        BY <1>0, <2>4, <3>1 DEF TokensOnTheWay
      <3>3. QED
        BY <1>0, <2>2, <2>5, <3>2 DEF TokensOnTheWay, IsOf
    <2>8. QED
      BY <2>6, <2>7
  <1>6. QED
    BY <1>1, <1>3, <1>4, <1>5 DEF LoginStep

-----------------------------------------------------------------------------
(* The refresher *)

\* A row that the refresher takes up.
LEMMA RoundReads ==
  ASSUME IInv, RoundStarts
  PROVE  /\ Latest \in 1..Len(sessions) /\ sessions[Latest].refresh \in 1..Len(grants)
         /\ refresher' = [NoRound EXCEPT !.pc = "refresh", !.id = Latest,
                                         !.token = sessions[Latest].refresh, !.since = now]
         /\ tickAt' \in Times
  <1>1. /\ sessions \in Seq(SessionRows(Len(grants))) /\ Len(grants) \in Nat
        /\ tickAt \in Times /\ Interval \in Nat
    BY SessionsAssumption DEF IInv, TypeOK, SessionTypeOK
  <1>2. Latest \in 1..Len(sessions) /\ sessions[Latest] \in SessionRows(Len(grants))
    BY <1>1 DEF RoundStarts, Latest
  <1>3. sessions[Latest].refresh \in 1..Len(grants)
    BY <1>1, <1>2 DEF RoundStarts, SessionRows
  <1>4. tickAt' \in Times
    BY <1>1 DEF RoundStarts, Times
  <1>5. QED
    BY <1>2, <1>3, <1>4 DEF RoundStarts

LEMMA NewRound ==
  ASSUME now \in Nat, NEW i \in Nat, NEW n \in Numbers
  PROVE  [NoRound EXCEPT !.pc = "refresh", !.id = i, !.token = n, !.since = now] \in Rounds(now)
  <1>1. ASSUME NEW r \in Rounds(now) PROVE [r EXCEPT !.pc = "refresh"] \in Rounds(now)
    BY <1>1 DEF Rounds
  <1>2. ASSUME NEW r \in Rounds(now) PROVE [r EXCEPT !.id = i] \in Rounds(now)
    BY <1>2 DEF Rounds
  <1>3. ASSUME NEW r \in Rounds(now) PROVE [r EXCEPT !.token = n] \in Rounds(now)
    BY <1>3 DEF Rounds
  <1>4. ASSUME NEW r \in Rounds(now) PROVE [r EXCEPT !.since = now] \in Rounds(now)
    BY <1>4 DEF Rounds
  <1>5. QED
    BY <1>1, <1>2, <1>3, <1>4, IdleTypes

LEMMA RoundWithGrant ==
  ASSUME NEW r \in Rounds(now), NEW g \in Numbers,
         NEW t \in BOOLEAN, NEW x \in BOOLEAN, NEW n \in BOOLEAN
  PROVE  [r EXCEPT !.pc = "save", !.grant = g, !.told = t, !.refreshTold = x, !.renewable = n]
           \in Rounds(now)
  BY DEF Rounds

\* What Spend leaves of the grants.
LEMMA SpendGrants ==
  ASSUME SessionTypeOK, now \in Nat, NEW n \in 1..Len(grants), Len(grants) < MaxGrants, Spend(n)
  PROVE  /\ grants' \in Seq(GrantRows) /\ Len(grants') = Len(grants) + 1 /\ Len(grants') <= MaxGrants
         /\ Len(grants) + 1 \in Numbers
         /\ sessions \in Seq(SessionRows(Len(grants')))
         /\ \A k \in 1..Len(grants) : grants'[k].account = grants[k].account
         /\ grants'[Len(grants) + 1].account = grants[n].account
  <1> DEFINE old == [grants EXCEPT ![n].spent = TRUE]
             g == Grant(grants[n].account)
  <1>1. grants \in Seq(GrantRows) /\ grants[n] \in GrantRows
    BY DEF SessionTypeOK
  <1>2. old \in Seq(GrantRows) /\ Len(old) = Len(grants)
    <2>1. [grants[n] EXCEPT !.spent = TRUE] \in GrantRows
      BY <1>1 DEF GrantRows
    <2>2. QED
      BY <1>1, <2>1
  <1>3. \A k \in 1..Len(grants) : old[k].account = grants[k].account
    BY <1>1 DEF GrantRows
  <1>4. grants[n].account \in Accounts
    BY <1>1 DEF GrantRows
  <1>5. g \in GrantRows /\ g.account = grants[n].account
    BY <1>4, GrantType DEF Grant
  <1>6. grants' = Append(old, g)
    BY DEF Spend
  <1> HIDE DEF old, g
  <1>7. /\ \A k \in 1..Len(grants) : grants'[k] = old[k]
        /\ grants'[Len(grants) + 1] = g
    BY <1>2, <1>5, <1>6
  <1>8. QED
    BY <1>2, <1>3, <1>5, <1>6, <1>7, AppendGrant

\* The types, from those of what a step of the refresher writes.
LEMMA RoundTypes ==
  ASSUME IInv, UNCHANGED <<now, scenario, loginVars>>,
         grants' \in Seq(GrantRows), Len(grants') <= MaxGrants,
         sessions' \in Seq(SessionRows(Len(grants'))), Len(sessions') = Len(sessions),
         refresher' \in Rounds(now), refresher'.id <= Len(sessions),
         tickAt' \in Times, lost' \subseteq 1..Len(sessions), missed' \in 0..(Spare + 1)
  PROVE  SessionTypeOK'
  <1>1. SessionTypeOK
    BY DEF IInv, TypeOK
  <1>2. QED
    BY <1>1 DEF SessionTypeOK, Latest, loginVars

\* The tokens, when no row is written and no grant changes hands.
LEMMA RoundTokens ==
  ASSUME IInv, UNCHANGED <<handler, sessions>>, Len(grants') \in Nat, Len(grants) <= Len(grants'),
         \A n \in 1..Len(grants) : grants'[n].account = grants[n].account,
         refresher'.pc # "idle" => refresher'.id > 0 /\ IsOf(refresher.token, refresher.id)',
         refresher'.pc = "save" => IsOf(refresher.grant, refresher.id)'
  PROVE  TokensOnTheWay' /\ TokensOfAccount'
  <1>1. /\ TokensOnTheWay /\ TokensOfAccount /\ Len(grants) \in Nat
        /\ sessions \in Seq(SessionRows(Len(grants)))
    BY DEF IInv, TypeOK, SessionTypeOK
  <1>2. \A i \in 1..Len(sessions) : sessions[i].access \in 1..Len(grants)
                                   /\ (sessions[i].refresh # 0 => sessions[i].refresh \in 1..Len(grants))
    <2>1. \A i \in 1..Len(sessions) : sessions[i] \in SessionRows(Len(grants))
      BY <1>1
    <2>2. QED
      BY <1>1, <2>1 DEF SessionRows
  <1>3. TokensOfAccount'
    BY <1>1, <1>2 DEF TokensOfAccount, Latest
  <1>4. TokensOnTheWay'
    BY <1>1 DEF TokensOnTheWay, HandlerAt
  <1>5. QED
    BY <1>3, <1>4

\* A round that is over, with the table as it was.
LEMMA RoundOver ==
  ASSUME IInv, RoundEnds, UNCHANGED <<now, scenario, grants, sessions, loginVars>>,
         lost' \subseteq 1..Len(sessions), missed' \in 0..(Spare + 1)
  PROVE  SessionTypeOK' /\ TokensOnTheWay' /\ TokensOfAccount'
  <1>0. SessionTypeOK /\ TypeOK /\ now \in Nat
    BY DEF IInv, TypeOK, TokenTypeOK
  <1>1. /\ SessionTypeOK /\ TypeOK /\ now \in Nat
        /\ grants \in Seq(GrantRows) /\ Len(grants) <= MaxGrants /\ Len(grants) \in Nat
        /\ sessions \in Seq(SessionRows(Len(grants))) /\ Len(sessions) \in Nat
    BY <1>0 DEF SessionTypeOK
  <1>2. refresher' = NoRound /\ tickAt' \in Times
    BY <1>1, RoundEndsType
  <1>3. NoRound \in Rounds(now) /\ NoRound.id = 0 /\ NoRound.pc = "idle"
    BY <1>1, IdleTypes DEF NoRound
  <1>4. SessionTypeOK'
    BY <1>1, <1>2, <1>3, RoundTypes
  <1>5. TokensOnTheWay' /\ TokensOfAccount'
    BY <1>1, <1>2, <1>3, RoundTokens DEF loginVars
  <1>6. QED
    BY <1>4, <1>5


LEMMA RefresherKeeps ==
  ASSUME IInv, RefresherStep, UNCHANGED <<now, scenario>>
  PROVE  SessionTypeOK' /\ TokensOnTheWay' /\ TokensOfAccount'
  <1>0. /\ SessionTypeOK /\ now \in Nat /\ TokensOnTheWay /\ TokensOfAccount
    BY DEF IInv, TypeOK, TokenTypeOK
  <1>a. /\ grants \in Seq(GrantRows) /\ Len(grants) <= MaxGrants /\ Len(grants) \in Nat
        /\ MaxGrants \in Nat
        /\ sessions \in Seq(SessionRows(Len(grants))) /\ Len(sessions) \in Nat
        /\ refresher \in Rounds(now) /\ refresher.id <= Len(sessions)
        /\ tickAt \in Times /\ lost \subseteq 1..Len(sessions) /\ missed \in 0..(Spare + 1)
    BY <1>0, SessionsAssumption DEF SessionTypeOK, Latest
  <1>b. /\ refresher.id \in Nat /\ 0 \in 0..(Spare + 1)
        /\ \A n \in 0..Len(grants) : n \in Numbers
    BY <1>a, SpareType DEF Rounds, Numbers
  <1>c. refresher.pc # "idle" => lost \cup {refresher.id} \subseteq 1..Len(sessions)
    <2> SUFFICES ASSUME refresher.pc # "idle"
                 PROVE  lost \cup {refresher.id} \subseteq 1..Len(sessions)
      OBVIOUS
    <2>1. refresher.id > 0
      BY <1>0 DEF TokensOnTheWay
    <2>2. refresher.id \in 1..Len(sessions)
      BY <1>a, <1>b, <2>1
    <2>3. QED
      BY <1>a, <2>2
  <1>1. CASE RoundSkips \/ LatestFails \/ RefreshFails \/ UpdateFails
    <2>1. RoundEnds /\ UNCHANGED <<grants, sessions, loginVars>>
      BY <1>1 DEF RoundSkips, LatestFails, RefreshFails, UpdateFails
    <2>2. missed' \in 0..(Spare + 1)
      BY <1>a, <1>b, <1>1, MissType DEF RoundSkips, LatestFails, RefreshFails, UpdateFails
    <2>3. lost' \subseteq 1..Len(sessions)
      <3>1. lost' = lost \/ (refresher.pc = "save" /\ lost' = lost \cup {refresher.id})
        BY <1>1 DEF RoundSkips, LatestFails, RefreshFails, UpdateFails
      <3>2. QED
        BY <1>a, <1>c, <3>1
    <2>4. QED
      BY <2>1, <2>2, <2>3, RoundOver
  <1>2. CASE RoundStarts
    <2>1. /\ Latest \in 1..Len(sessions) /\ sessions[Latest].refresh \in 1..Len(grants)
          /\ refresher' = [NoRound EXCEPT !.pc = "refresh", !.id = Latest,
                                          !.token = sessions[Latest].refresh, !.since = now]
          /\ tickAt' \in Times
      BY <1>2, RoundReads
    <2>2. refresher' \in Rounds(now)
      <3>1. Latest \in Nat /\ sessions[Latest].refresh \in Numbers
        BY <1>a, <1>b, <2>1 DEF Latest
      <3>2. QED
        BY <1>0, <2>1, <3>1, NewRound
    <2>3. /\ refresher'.id = Latest /\ refresher'.token = sessions[Latest].refresh
          /\ refresher'.pc = "refresh"
      BY <2>1 DEF NoRound
    <2>4. UNCHANGED <<grants, sessions, loginVars, lost, missed>>
      BY <1>2 DEF RoundStarts
    <2>5. SessionTypeOK'
      BY <1>a, <2>1, <2>2, <2>3, <2>4, RoundTypes
    <2>6. IsOf(refresher.token, refresher.id)'
      BY <1>0, <1>a, <2>1, <2>3, <2>4 DEF IsOf, TokensOfAccount
    <2>7. QED
      BY <1>a, <2>1, <2>3, <2>4, <2>5, <2>6, RoundTokens DEF loginVars
  <1>3. CASE Refresh \/ AnswerLost
    <2>1. /\ refresher.pc = "refresh" /\ Len(grants) < MaxGrants /\ Spend(refresher.token)
          /\ UNCHANGED <<sessions, loginVars, missed>>
      BY <1>3 DEF Refresh, AnswerLost
    <2>2. /\ refresher.token \in 1..Len(grants) /\ refresher.id > 0
          /\ IsOf(refresher.token, refresher.id)
      BY <1>0, <2>1 DEF TokensOnTheWay, IsOf
    <2>3. /\ grants' \in Seq(GrantRows) /\ Len(grants') = Len(grants) + 1
          /\ Len(grants') <= MaxGrants /\ Len(grants) + 1 \in Numbers
          /\ sessions \in Seq(SessionRows(Len(grants')))
          /\ \A k \in 1..Len(grants) : grants'[k].account = grants[k].account
          /\ grants'[Len(grants) + 1].account = grants[refresher.token].account
      BY <1>0, <2>1, <2>2, SpendGrants
    <2>4. CASE Refresh
      <3>1. PICK answer \in Answers :
              refresher' = [refresher EXCEPT !.pc = "save", !.grant = Len(grants) + 1,
                                             !.told = answer.told, !.refreshTold = answer.refreshTold,
                                             !.renewable = answer.renewable]
        BY <2>4 DEF Refresh
      <3>2. refresher' \in Rounds(now)
        BY <1>a, <2>3, <3>1, AnswersType, RoundWithGrant
      <3>3. /\ refresher'.id = refresher.id /\ refresher'.token = refresher.token
            /\ refresher'.grant = Len(grants) + 1
        BY <1>a, <3>1 DEF Rounds
      <3>4. UNCHANGED <<tickAt, lost>>
        BY <2>4 DEF Refresh
      <3>5. SessionTypeOK'
        BY <1>a, <2>1, <2>3, <3>2, <3>3, <3>4, RoundTypes
      <3>6. IsOf(refresher.token, refresher.id)' /\ IsOf(refresher.grant, refresher.id)'
        BY <1>a, <2>1, <2>2, <2>3, <3>3 DEF IsOf
      <3>7. QED
        BY <1>a, <2>1, <2>2, <2>3, <3>3, <3>5, <3>6, RoundTokens DEF loginVars
    <2>5. CASE AnswerLost
      <3>1. RoundEnds /\ lost' = lost \cup {refresher.id}
        BY <2>5 DEF AnswerLost
      <3>2. refresher' = NoRound /\ tickAt' \in Times
        BY <3>1, RoundEndsType DEF IInv
      <3>3. NoRound \in Rounds(now) /\ NoRound.id = 0 /\ NoRound.pc = "idle"
        BY <1>0, IdleTypes DEF NoRound
      <3>4. lost' \subseteq 1..Len(sessions)
        BY <1>c, <2>1, <3>1
      <3>5. SessionTypeOK'
        BY <1>a, <2>1, <2>3, <3>2, <3>3, <3>4, RoundTypes
      <3>6. QED
        BY <1>a, <2>1, <2>3, <3>2, <3>3, <3>5, RoundTokens DEF loginVars
    <2>6. QED
      BY <1>3, <2>4, <2>5
  <1>4. CASE UpdateSessionTokens
    <2> DEFINE i == refresher.id
               fresh == IF refresher.renewable THEN refresher.grant ELSE 0
               row == [sessions[i] EXCEPT !.access = refresher.grant,
                         !.refresh = Or(fresh, sessions[i].refresh),
                         !.until = Until(refresher.told, AccessLife),
                         !.refreshUntil = Or(Until(refresher.refreshTold, RefreshLife),
                                             sessions[i].refreshUntil)]
    <2>1. /\ i \in 1..Len(sessions) /\ refresher.grant \in 1..Len(grants)
          /\ IsOf(refresher.grant, i) /\ sessions[i] \in SessionRows(Len(grants))
      <3>1. i > 0 /\ IsOf(refresher.grant, i)
        BY <1>0, <1>4 DEF UpdateSessionTokens, TokensOnTheWay
      <3>2. i \in 1..Len(sessions)
        BY <1>a, <1>b, <3>1
      <3>3. QED
        BY <1>a, <3>1, <3>2 DEF IsOf
    <2>a. sessions' = [sessions EXCEPT ![i] = row]
      BY <1>4 DEF UpdateSessionTokens, UpdateTarget
    <2>b. lost' \subseteq lost \cup {i}
      BY <1>4 DEF UpdateSessionTokens
    <2>c. lost \cup {i} \subseteq 1..Len(sessions)
      BY <1>4, <1>c DEF UpdateSessionTokens
    <2>2. /\ sessions' = [sessions EXCEPT ![i] = row] /\ UNCHANGED <<grants, loginVars>>
          /\ RoundEnds /\ missed' = 0 /\ lost' \subseteq 1..Len(sessions)
      BY <1>4, <2>a, <2>b, <2>c DEF UpdateSessionTokens
    <2>3. /\ Or(fresh, sessions[i].refresh) \in {refresher.grant, sessions[i].refresh}
          /\ Until(refresher.told, AccessLife) \in Times
          /\ Or(Until(refresher.refreshTold, RefreshLife), sessions[i].refreshUntil) \in Times
      <3>1. sessions[i].refreshUntil \in Times
        BY <2>1 DEF SessionRows
      <3>2. Until(refresher.told, AccessLife) \in Times /\ Until(refresher.refreshTold, RefreshLife) \in Times
        BY <1>0, SessionsAssumption, UntilType
      <3>3. Or(fresh, sessions[i].refresh) \in {fresh, sessions[i].refresh}
            /\ (fresh = 0 => Or(fresh, sessions[i].refresh) = sessions[i].refresh)
        BY DEF Or
      <3>4. Or(Until(refresher.refreshTold, RefreshLife), sessions[i].refreshUntil) \in Times
        BY <3>1, <3>2 DEF Or
      <3>5. QED
        BY <3>2, <3>3, <3>4
    <2>4. /\ row \in SessionRows(Len(grants)) /\ row.account = sessions[i].account
          /\ row.access = refresher.grant /\ row.refresh \in {refresher.grant, sessions[i].refresh}
      <3>1. sessions[i].refresh \in 0..Len(grants) /\ refresher.grant \in 0..Len(grants)
        BY <1>a, <2>1 DEF SessionRows
      <3>2. Or(fresh, sessions[i].refresh) \in 0..Len(grants)
        BY <2>3, <3>1
      <3>3. row = [sessions[i] EXCEPT !.access = refresher.grant,
                     !.refresh = Or(fresh, sessions[i].refresh),
                     !.until = Until(refresher.told, AccessLife),
                     !.refreshUntil = Or(Until(refresher.refreshTold, RefreshLife), sessions[i].refreshUntil)]
        OBVIOUS
      <3> DEFINE f == Or(fresh, sessions[i].refresh)
                 u == Until(refresher.told, AccessLife)
                 v == Or(Until(refresher.refreshTold, RefreshLife), sessions[i].refreshUntil)
                 r == sessions[i]
                 g == refresher.grant
                 n == Len(grants)
      <3>4. row = [r EXCEPT !.access = g, !.refresh = f, !.until = u, !.refreshUntil = v]
        BY <3>3
      <3>5. n \in Nat /\ r \in SessionRows(n) /\ g \in 1..n /\ f \in 0..n /\ u \in Times /\ v \in Times
        BY <1>a, <2>1, <2>3, <3>2
      <3> HIDE DEF row, fresh, f, u, v, r, g, n
      <3>6. row \in SessionRows(n) /\ row.account = r.account /\ row.access = g /\ row.refresh = f
        BY <3>4, <3>5 DEF SessionRows
      <3>7. /\ row \in SessionRows(Len(grants)) /\ row.account = sessions[i].account
            /\ row.access = refresher.grant /\ row.refresh = Or(fresh, sessions[i].refresh)
        BY <3>6 DEF f, r, g, n
      <3>8. QED
        BY <2>3, <3>7
    <2> HIDE DEF row, fresh
    <2>5. /\ sessions' \in Seq(SessionRows(Len(grants))) /\ Len(sessions') = Len(sessions)
          /\ sessions'[i] = row /\ \A k \in 1..Len(sessions) \ {i} : sessions'[k] = sessions[k]
      BY <1>a, <2>1, <2>2, <2>4
    <2>6. refresher' = NoRound /\ tickAt' \in Times
      BY <2>2, RoundEndsType DEF IInv
    <2>7. NoRound \in Rounds(now) /\ NoRound.id = 0 /\ NoRound.pc = "idle"
      BY <1>0, IdleTypes DEF NoRound
    <2>8. SessionTypeOK'
      BY <1>a, <1>b, <2>1, <2>2, <2>5, <2>6, <2>7, RoundTypes
    <2>9. TokensOfAccount'
      <3> SUFFICES ASSUME NEW k \in 1..Len(sessions), sessions'[k].account # NoAccount
                   PROVE  /\ grants[sessions'[k].access].account = sessions'[k].account
                          /\ sessions'[k].refresh # 0 =>
                               grants[sessions'[k].refresh].account = sessions'[k].account
        BY <2>2, <2>5 DEF TokensOfAccount, Latest
      <3>1. CASE k # i
        BY <1>0, <2>5, <3>1 DEF TokensOfAccount, Latest
      <3>2. CASE k = i
        <4>1. sessions'[k] = row /\ sessions[i].account # NoAccount
          BY <2>4, <2>5, <3>2
        <4>2. grants[refresher.grant].account = sessions[i].account
          BY <2>1, <4>1 DEF IsOf
        <4>3. sessions[i].refresh # 0 => grants[sessions[i].refresh].account = sessions[i].account
          BY <1>0, <2>1, <4>1 DEF TokensOfAccount, Latest
        <4>4. QED
          BY <2>4, <4>1, <4>2, <4>3
      <3>3. QED
        BY <3>1, <3>2
    <2>10. TokensOnTheWay'
      BY <1>0, <2>2, <2>6, <2>7 DEF TokensOnTheWay, HandlerAt, loginVars
    <2>11. QED
      BY <2>8, <2>9, <2>10
  <1>5. QED
    BY <1>1, <1>2, <1>3, <1>4 DEF RefresherStep


LEMMA RefresherMovesNoState ==
  ASSUME IInv, RefresherStep
  PROVE  StatesMoveOn' /\ OneSessionPerState'
  <1>1. UNCHANGED loginVars
    BY DEF RefresherStep, RoundSkips, LatestFails, RoundStarts, Refresh, RefreshFails, AnswerLost,
           UpdateSessionTokens, UpdateFails
  <1>2. QED
    BY <1>1 DEF IInv, loginVars, StatesMoveOn, OneSessionPerState, Admitted, HandlerAt

-----------------------------------------------------------------------------
(* The process dies; time passes *)

LEMMA RestartKeeps ==
  ASSUME IInv, Restart, UNCHANGED <<now, scenario>>
  PROVE  SessionTypeOK' /\ StatesMoveOn' /\ OneSessionPerState' /\ TokensOnTheWay' /\ TokensOfAccount'
  <1>0. SessionTypeOK /\ now \in Nat /\ TokensOnTheWay /\ TokensOfAccount
        /\ StatesMoveOn /\ OneSessionPerState
    BY DEF IInv, TypeOK, TokenTypeOK
  <1>1. /\ UNCHANGED <<grants, sessions, states, begun, callbacks, opened>>
        /\ refresher' = NoRound /\ tickAt' = NoTime
        /\ \A h \in Handlers : handler'[h].pc = "idle"
    BY DEF Restart, NoCallback
  <1>2. NoRound \in Rounds(now) /\ NoRound.id = 0 /\ NoRound.pc = "idle"
    BY <1>0, IdleTypes DEF NoRound
  <1>3. handler' \in [Handlers -> Handling(now)]
    BY <1>0, IdleTypes DEF Restart
  <1>4. missed' \in 0..(Spare + 1)
    BY <1>0, MissType DEF Restart, SessionTypeOK
  <1>5. lost' \subseteq 1..Len(sessions)
    <2>1. refresher.pc = "save" => refresher.id \in 1..Len(sessions)
      BY <1>0 DEF TokensOnTheWay, SessionTypeOK, Latest, Rounds
    <2>2. lost \subseteq 1..Len(sessions)
      BY <1>0 DEF SessionTypeOK, Latest
    <2>3. QED
      BY <2>1, <2>2 DEF Restart
  <1>6. SessionTypeOK'
    <2>1. 0 <= Len(sessions) /\ NoTime \in Times
      BY <1>0 DEF SessionTypeOK, Times
    <2>2. QED
      BY <1>0, <1>1, <1>2, <1>3, <1>4, <1>5, <2>1 DEF SessionTypeOK, Latest
  <1>7. StatesMoveOn' /\ OneSessionPerState'
    BY <1>0, <1>1 DEF StatesMoveOn, OneSessionPerState, Admitted, HandlerAt
  <1>8. TokensOnTheWay' /\ TokensOfAccount'
    BY <1>0, <1>1, <1>2 DEF TokensOnTheWay, TokensOfAccount, HandlerAt, Latest
  <1>9. QED
    BY <1>6, <1>7, <1>8

\* What began by now has begun by any later time.
LEMMA BegunBefore ==
  ASSUME now \in Nat
  PROVE  Handling(now) \subseteq Handling(now + 1) /\ Rounds(now) \subseteq Rounds(now + 1)
  <1>1. 0..now \subseteq 0..(now + 1)
    OBVIOUS
  <1>2. QED
    BY <1>1 DEF Handling, Rounds

LEMMA TickKeeps ==
  ASSUME IInv, Tick
  PROVE  SessionTypeOK' /\ StatesMoveOn' /\ OneSessionPerState' /\ TokensOnTheWay' /\ TokensOfAccount'
  <1>0. SessionTypeOK /\ now \in Nat /\ TokensOnTheWay /\ TokensOfAccount
        /\ StatesMoveOn /\ OneSessionPerState
    BY DEF IInv, TypeOK, TokenTypeOK
  <1>1. now' = now + 1 /\ UNCHANGED <<scenario, grants, sessions, loginVars, refreshVars>>
    BY DEF Tick, sessionVars
  <1>2. handler' \in [Handlers -> Handling(now')] /\ refresher' \in Rounds(now')
    BY <1>0, <1>1, BegunBefore DEF SessionTypeOK, loginVars, refreshVars
  <1>3. SessionTypeOK'
    BY <1>0, <1>1, <1>2 DEF SessionTypeOK, loginVars, refreshVars, Latest
  <1>4. QED
    BY <1>0, <1>1, <1>3 DEF loginVars, refreshVars, StatesMoveOn, OneSessionPerState, Admitted,
                            HandlerAt, TokensOnTheWay, TokensOfAccount, IsOf, Latest

-----------------------------------------------------------------------------
(* The invariant *)

LEMMA InitIInv == Init => IInv
  <1> SUFFICES ASSUME Init PROVE IInv
    OBVIOUS
  <1>1. TokenTypeOK
    BY TokenCacheAssumption DEF Init, TokenInit, TokenTypeOK, NoEntry, Entry, NoCall
  <1>2. SessionTypeOK
    <2>1. now \in Nat /\ NoTime \in Times /\ NoRound.id = 0
      BY DEF Init, TokenInit, Times, NoRound
    <2>2. scenario.callbacks \in Nat /\ MaxGrants \in Nat
      BY SessionsAssumption DEF Init
    <2>3. handler \in [Handlers -> Handling(now)] /\ refresher \in Rounds(now)
      BY <2>1, IdleTypes DEF Init
    <2>4. QED
      BY <2>1, <2>2, <2>3, SpareType DEF Init, SessionTypeOK, Latest
  <1>3. EntriesInTime
    BY TokenCacheAssumption DEF Init, TokenInit, EntriesInTime, NoEntry, Entry, NoCall, CallAt
  <1>4. StatesMoveOn /\ OneSessionPerState
    BY DEF Init, StatesMoveOn, OneSessionPerState, Admitted, HandlerAt, NoCallback
  <1>5. TokensOnTheWay /\ TokensOfAccount
    BY DEF Init, TokensOnTheWay, TokensOfAccount, HandlerAt, Latest, NoCallback, NoRound
  <1>6. QED
    BY <1>1, <1>2, <1>3, <1>4, <1>5 DEF IInv, TypeOK

LEMMA NextIInv == IInv /\ [Next]_vars => IInv'
  <1> SUFFICES ASSUME IInv, [Next]_vars PROVE IInv'
    OBVIOUS
  <1>1. CASE scenario.on = "tenant" /\ (\E c \in Callers : TokenStep(c))
             /\ UNCHANGED <<now, scenario, sessionVars>>
    <2>1. TokenTypeOK' /\ EntriesInTime'
      BY <1>1, TokenStepTypes, TokenStepEntries DEF IInv
    <2>2. UNCHANGED <<now, scenario, grants, sessions, loginVars, refreshVars>>
      BY <1>1 DEF sessionVars
    <2>3. SessionTypeOK'
      BY <2>2 DEF IInv, TypeOK, SessionTypeOK, loginVars, refreshVars, Latest
    <2>4. StatesMoveOn' /\ OneSessionPerState' /\ TokensOnTheWay' /\ TokensOfAccount'
      BY <2>2 DEF IInv, loginVars, refreshVars, StatesMoveOn, OneSessionPerState, Admitted,
                  HandlerAt, TokensOnTheWay, TokensOfAccount, IsOf, Latest
    <2>5. QED
      BY <2>1, <2>3, <2>4 DEF IInv, TypeOK
  <1>2. CASE scenario.on = "sessions" /\ SessionStep /\ UNCHANGED <<now, scenario, tokenVars>>
    <2>1. TokenTypeOK' /\ EntriesInTime'
      BY <1>2 DEF IInv, TypeOK, TokenTypeOK, EntriesInTime, tokenVars, CallAt
    <2>2. LoginStep \/ RefresherStep \/ Restart
      BY <1>2 DEF SessionStep, LoginStep
    <2>3. /\ SessionTypeOK' /\ StatesMoveOn' /\ OneSessionPerState'
          /\ TokensOnTheWay' /\ TokensOfAccount'
      BY <1>2, <2>2, LoginTypes, LoginMovesOn, LoginTokens, RefresherKeeps, RefresherMovesNoState,
         RestartKeeps
    <2>4. QED
      BY <2>1, <2>3 DEF IInv, TypeOK
  <1>3. CASE Tick
    BY <1>3, TickEntries, TickKeeps DEF IInv, TypeOK
  <1>4. CASE UNCHANGED vars
    <2>1. UNCHANGED <<now, scenario, grants, sessions, loginVars, refreshVars, tokenVars>>
      BY <1>4 DEF vars, sessionVars
    <2>2. TokenTypeOK' /\ EntriesInTime'
      BY <2>1 DEF IInv, TypeOK, TokenTypeOK, EntriesInTime, tokenVars, CallAt
    <2>3. SessionTypeOK'
      BY <2>1 DEF IInv, TypeOK, SessionTypeOK, loginVars, refreshVars, Latest
    <2>4. StatesMoveOn' /\ OneSessionPerState' /\ TokensOnTheWay' /\ TokensOfAccount'
      BY <2>1 DEF IInv, loginVars, refreshVars, StatesMoveOn, OneSessionPerState, Admitted,
                  HandlerAt, TokensOnTheWay, TokensOfAccount, IsOf, Latest
    <2>5. QED
      BY <2>2, <2>3, <2>4 DEF IInv, TypeOK
  <1>5. QED
    BY <1>1, <1>2, <1>3, <1>4 DEF Next

(* The invariant holds of every behaviour: every order of calls, failures  *)
(* and restarts of TenantAccessToken, of the login and of the refresher.   *)
THEOREM AuthorizationInvariant == Spec => []IInv
  <1>1. QED
    BY InitIInv, NextIInv, PTL DEF Spec

(* The types of all that TenantAccessToken, the login and the refresher    *)
(* keep: in particular every number of a token in a row, a callback or a   *)
(* round is that of a grant that Feishu made.                              *)
THEOREM AuthorizationTypes == Spec => []TypeOK
  <1>1. IInv => TypeOK
    BY DEF IInv
  <1>2. QED
    BY <1>1, AuthorizationInvariant, PTL

(* What TenantAccessToken finds in Redis is good for the margin less the   *)
(* time a SET may take, for any number of callers.                         *)
THEOREM CachedTokenLive == Spec => []CachedTokenIsLive
  <1>1. IInv => CachedTokenIsLive
    <2> SUFFICES ASSUME IInv, now < cache.until, cache.told > Margin
                 PROVE  now + (Margin - MaxDelay) < expires[cache.token]
      BY DEF CachedTokenIsLive
    <2>1. /\ cache.token > 0 /\ cache.until + Margin <= expires[cache.token] + MaxDelay
      BY DEF IInv, EntriesInTime
    <2>2. /\ now \in Nat /\ cache.until \in Nat /\ expires[cache.token] \in Nat
          /\ Margin \in Nat /\ MaxDelay \in Nat
      BY <2>1, TokenCacheAssumption DEF IInv, TypeOK, TokenTypeOK
    <2>3. QED
      BY <2>1, <2>2
  <1>2. QED
    BY <1>1, AuthorizationInvariant, PTL

(* One session at most for a state of the login, for any number of         *)
(* callbacks at the same time: DEL decides which one goes on.              *)
THEOREM OneSession == Spec => []OneSessionPerState
  <1>1. IInv => OneSessionPerState
    BY DEF IInv
  <1>2. QED
    BY <1>1, AuthorizationInvariant, PTL

(* The refresher writes nobody's tokens into the row of another account,   *)
(* for any number of accounts, logins and grants in between.               *)
THEOREM AccountTokens == Spec => []TokensOfAccount
  <1>1. IInv => TokensOfAccount
    BY DEF IInv
  <1>2. QED
    BY <1>1, AuthorizationInvariant, PTL

-----------------------------------------------------------------------------
(* The schedule of the refresher: how late a round may be for a token.     *)

\* Calls and rounds have not had their time, and a ticker fires in time: once
\* the first round is over, an Interval after the last one began.
InTime ==
  /\ scenario.on = "tenant" =>
       /\ Latest = 0 /\ refresher.pc = "idle" /\ tickAt = NoTime
       /\ \A h \in Handlers : HandlerAt(h, "idle")
  /\ \A h \in Handlers : ~HandlerAt(h, "idle") => now <= handler[h].since + CallTime
  /\ refresher.pc # "idle" =>
       /\ now <= refresher.since + CallTime
       /\ tickAt # NoTime => tickAt = refresher.since + Interval
  /\ refresher.pc = "idle" /\ tickAt # NoTime => now <= tickAt /\ tickAt <= now + Interval

\* A row says at most CallTime too late when its access token ends.
RowInTime(row) ==
  row.until # NoTime => row.until <= grants[row.access].until + CallTime

\* Whoever is about to write a row has a grant that is younger than his call.
EndsInTime ==
  /\ \A h \in Handlers : HandlerAt(h, "save") =>
       handler[h].since + AccessLife <= grants[handler[h].grant].until
  /\ refresher.pc = "save" => refresher.since + AccessLife <= grants[refresher.grant].until
  /\ \A i \in 1..Latest : RowInTime(sessions[i])

\* What m rounds that failed cost.
Late(m) == Interval + m * (Interval + CallTime)

\* When the round begins, or began, that may refresh the latest session.
NextRound ==
  IF refresher.pc # "idle" THEN refresher.since ELSE IF tickAt = NoTime THEN now ELSE tickAt

\* What StaysAuthorized is about.
Watched ==
  Latest > 0 /\ Renewable(sessions[Latest]) /\ Latest \notin lost /\ missed <= Spare

\* A round for a session that is the latest no more.
Overtaken == refresher.pc # "idle" /\ refresher.id # Latest

\* Such a round began before the latest session was opened, and none failed since.
OnSchedule ==
  /\ Overtaken => missed = 0
  /\ Watched =>
       IF Overtaken
       THEN refresher.since + CallTime + RefreshBefore <= sessions[Latest].until
       ELSE NextRound + RefreshBefore <= sessions[Latest].until + Late(missed)

Timely == InTime /\ EndsInTime /\ OnSchedule

LEMMA LivesAreNumbers ==
  /\ AccessLife \in Nat /\ RefreshLife \in Nat \ {0} /\ RefreshBefore \in Nat
  /\ Interval \in Nat \ {0} /\ CallTime \in Nat /\ CallTime <= Interval
  /\ CallTime < RefreshBefore /\ RefreshBefore + CallTime <= AccessLife /\ NoTime \notin Nat
  BY SessionsAssumption

LEMMA ScenarioOn ==
  ASSUME scenario \in Scenarios
  PROVE  scenario.on \in {"tenant", "sessions"}
  BY SessionsAssumption

LEMMA Later ==
  ASSUME NEW t \in Nat, NEW since \in Nat, NEW end \in Nat, NEW life \in Nat, NEW delay \in Nat,
         since + life <= end, t <= since + delay
  PROVE  t + life <= end + delay
  OBVIOUS

LEMMA Monotone ==
  ASSUME NEW a \in Nat, NEW b \in Nat, NEW k \in Nat, a <= b
  PROVE  a * k <= b * k
  OBVIOUS

LEMMA Quotient ==
  ASSUME NEW n \in Nat, NEW k \in Nat \ {0}
  PROVE  (n \div k) \in Nat /\ (n \div k) * k <= n
  OBVIOUS

\* The delays add up to less than what is between the first round that may
\* refresh a token and the token's end.
LEMMA LateFacts ==
  /\ Late(0) = Interval
  /\ \A m \in Nat : Late(m) \in Nat /\ Late(m + 1) = Late(m) + Interval + CallTime
  /\ \A m \in Nat : m <= Spare => Late(m) + 2 * CallTime < RefreshBefore
  <1> DEFINE k == Interval + CallTime
             n == RefreshBefore - CallTime - 1
             q == n \div k
  <1>1. /\ Interval \in Nat \ {0} /\ CallTime \in Nat /\ RefreshBefore \in Nat
        /\ n \in Nat /\ k \in Nat \ {0} /\ k = Interval + CallTime
        /\ n = RefreshBefore - CallTime - 1
    BY LivesAreNumbers
  <1>2. Spare = q - 1
    BY DEF Spare
  <1>3. \A m : Late(m) = Interval + m * k
    BY DEF Late
  <1>q. q = n \div k
    OBVIOUS
  <1> HIDE DEF k, n, q
  <1>4. q \in Nat /\ q * k <= n
    BY <1>1, <1>q, Quotient
  <1>5. \A m \in Nat : m * k \in Nat /\ (m + 1) * k = m * k + k
    BY <1>1
  <1>6. ASSUME NEW m \in Nat, m <= Spare PROVE Late(m) + 2 * CallTime < RefreshBefore
    <2>1. m + 1 \in Nat /\ m + 1 <= q
      BY <1>2, <1>4, <1>6
    <2>2. (m + 1) * k <= q * k
      BY <1>1, <1>4, <2>1, Monotone
    <2>3. q * k \in Nat /\ m * k \in Nat
      BY <1>1, <1>4, <1>5
    <2>4. QED
      BY <1>1, <1>3, <1>4, <1>5, <2>2, <2>3
  <1>7. QED
    BY <1>1, <1>3, <1>5, <1>6

\* The numbers that the schedule is about.
LEMMA Numbered ==
  ASSUME IInv
  PROVE  /\ now \in Nat /\ tickAt \in Times /\ Latest \in Nat /\ Len(grants) \in Nat
         /\ missed \in Nat /\ lost \subseteq 1..Latest
         /\ \A h \in Handlers : handler[h].since \in 0..now /\ handler[h].told \in BOOLEAN
         /\ refresher.since \in 0..now /\ refresher.id \in 0..Latest
         /\ refresher.pc # "idle" => refresher.id \in 1..Latest
         /\ \A n \in 1..Len(grants) : grants[n].until \in Nat
         /\ \A i \in 1..Latest :
              /\ sessions[i] \in SessionRows(Len(grants))
              /\ sessions[i].access \in 1..Len(grants)
              /\ sessions[i].until \in Times /\ sessions[i].refreshUntil \in Times
         /\ \A h \in Handlers : HandlerAt(h, "save") => handler[h].grant \in 1..Len(grants)
         /\ refresher.pc = "save" => refresher.grant \in 1..Len(grants)
         /\ refresher.pc \in {"idle", "refresh", "save"}
         /\ refresher.pc = "refresh" => refresher.token \in 1..Len(grants)
  <1>1. SessionTypeOK /\ now \in Nat /\ TokensOnTheWay
    BY DEF IInv, TypeOK, TokenTypeOK
  <1>2. /\ grants \in Seq(GrantRows) /\ sessions \in Seq(SessionRows(Len(grants)))
        /\ handler \in [Handlers -> Handling(now)] /\ refresher \in Rounds(now)
        /\ refresher.id <= Latest /\ tickAt \in Times /\ lost \subseteq 1..Latest
        /\ missed \in 0..(Spare + 1)
    BY <1>1 DEF SessionTypeOK
  <1>3. \A h \in Handlers : handler[h].since \in 0..now /\ handler[h].told \in BOOLEAN
    <2>1. \A h \in Handlers : handler[h] \in Handling(now)
      BY <1>2
    <2>2. QED
      BY <2>1 DEF Handling
  <1>4. /\ refresher.since \in 0..now /\ refresher.id \in Nat
        /\ refresher.pc \in {"idle", "refresh", "save"}
    BY <1>2 DEF Rounds
  <1>5. \A n \in 1..Len(grants) : grants[n].until \in Nat
    <2>1. \A n \in 1..Len(grants) : grants[n] \in GrantRows
      BY <1>2
    <2>2. QED
      BY <2>1 DEF GrantRows
  <1>6. \A i \in 1..Latest : sessions[i] \in SessionRows(Len(grants))
    BY <1>2 DEF Latest
  <1>7. \A i \in 1..Latest : sessions[i].access \in 1..Len(grants)
          /\ sessions[i].until \in Times /\ sessions[i].refreshUntil \in Times
    BY <1>6 DEF SessionRows
  <1>8. refresher.pc # "idle" => refresher.id \in 1..Latest /\ refresher.token \in 1..Len(grants)
    BY <1>1, <1>2, <1>4 DEF TokensOnTheWay, IsOf, Latest
  <1>9. refresher.pc = "save" => refresher.grant \in 1..Len(grants)
    BY <1>1 DEF TokensOnTheWay, IsOf
  <1>10. \A h \in Handlers : HandlerAt(h, "save") => handler[h].grant \in 1..Len(grants)
    BY <1>1 DEF TokensOnTheWay
  <1>11. Latest \in Nat /\ Len(grants) \in Nat /\ missed \in Nat /\ refresher.id \in 0..Latest
    BY <1>2, <1>4, SpareType DEF Latest
  <1>12. QED
    BY <1>1, <1>2, <1>3, <1>4, <1>5, <1>6, <1>7, <1>8, <1>9, <1>10, <1>11

-----------------------------------------------------------------------------
(* The schedule is kept: the login *)

\* Grants are only added, and none ends at another time.
Grown ==
  /\ Len(grants') \in Nat /\ Len(grants) <= Len(grants')
  /\ \A n \in 1..Len(grants) : grants'[n].until = grants[n].until

\* Rows stay in time while grants are added.
LEMMA RowsInTime ==
  ASSUME IInv, EndsInTime, Grown, UNCHANGED sessions
  PROVE  \A i \in 1..Latest' : RowInTime(sessions[i])'
  <1>1. \A i \in 1..Latest : sessions[i].access \in 1..Len(grants) /\ RowInTime(sessions[i])
    BY Numbered DEF EndsInTime
  <1>2. \A i \in 1..Latest : grants'[sessions[i].access].until = grants[sessions[i].access].until
    BY <1>1 DEF Grown
  <1>3. QED
    BY <1>1, <1>2 DEF RowInTime, Latest

\* A step of callbacks that neither opens a session nor is given a grant.
LEMMA QuietLogin ==
  ASSUME IInv, Timely, scenario.on = "sessions", UNCHANGED <<now, scenario, grants, sessions, refreshVars>>,
         NEW h \in Handlers, \A k \in Handlers \ {h} : handler'[k] = handler[k],
         handler'[h].pc # "save",
         handler'[h].pc # "idle" => now <= handler'[h].since + CallTime
  PROVE  Timely'
  <1>1. InTime'
    BY DEF Timely, InTime, HandlerAt, Latest, refreshVars
  <1>2. EndsInTime'
    BY DEF Timely, EndsInTime, HandlerAt, Latest, refreshVars, RowInTime
  <1>3. OnSchedule'
    BY DEF Timely, OnSchedule, Overtaken, Watched, NextRound, Latest, refreshVars
  <1>4. QED
    BY <1>1, <1>2, <1>3 DEF Timely

LEMMA ExchangeInTime ==
  ASSUME IInv, Timely, scenario.on = "sessions", UNCHANGED <<now, scenario>>,
         NEW h \in Handlers, Exchange(h)
  PROVE  Timely'
  <1>0. /\ grants \in Seq(GrantRows) /\ handler \in [Handlers -> Handling(now)]
        /\ Len(grants) \in Nat /\ AccessLife \in Nat /\ now \in Nat
        /\ \A k \in Handlers : handler[k].since \in Nat /\ handler[k].since <= now
        /\ \A k \in Handlers : HandlerAt(k, "save") => handler[k].grant \in 1..Len(grants)
        /\ refresher.pc = "save" => refresher.grant \in 1..Len(grants)
    <2>1. SessionTypeOK
      BY DEF IInv, TypeOK
    <2>2. grants \in Seq(GrantRows) /\ handler \in [Handlers -> Handling(now)]
      BY <2>1 DEF SessionTypeOK
    <2>3. now \in Nat /\ \A k \in Handlers : handler[k].since \in 0..now
      BY Numbered
    <2>4. /\ Len(grants) \in Nat
          /\ \A k \in Handlers : HandlerAt(k, "save") => handler[k].grant \in 1..Len(grants)
          /\ refresher.pc = "save" => refresher.grant \in 1..Len(grants)
      BY Numbered
    <2>5. QED
      BY <2>2, <2>3, <2>4, LivesAreNumbers
  <1>1. PICK who \in Accounts, answer \in Answers : \E account \in UserInfo(who) :
          /\ grants' = Append(grants, Grant(who))
          /\ handler' = [handler EXCEPT ![h] =
               [@ EXCEPT !.pc = "save", !.grant = Len(grants) + 1, !.account = account,
                         !.told = answer.told, !.refreshTold = answer.refreshTold,
                         !.renewable = answer.renewable]]
    BY DEF Exchange
  <1>2. /\ handler'[h].pc = "save" /\ handler'[h].since = handler[h].since
        /\ handler'[h].grant = Len(grants) + 1
        /\ \A k \in Handlers \ {h} : handler'[k] = handler[k]
    BY <1>0, <1>1 DEF Handling
  <1>3. Grown /\ grants'[Len(grants) + 1].until = now + AccessLife
    BY <1>0, <1>1 DEF Grown, Grant
  <1>4. UNCHANGED <<sessions, refreshVars>> /\ HandlerAt(h, "exchange")
    BY DEF Exchange
  <1>5. InTime'
    BY <1>2, <1>4 DEF Timely, InTime, HandlerAt, Latest, refreshVars
  <1>6. OnSchedule'
    BY <1>4 DEF Timely, OnSchedule, Overtaken, Watched, NextRound, Latest, refreshVars
  <1>7. \A k \in Handlers : HandlerAt(k, "save")' =>
          handler'[k].since + AccessLife <= grants'[handler'[k].grant].until
    <2> SUFFICES ASSUME NEW k \in Handlers, handler'[k].pc = "save"
                 PROVE  handler'[k].since + AccessLife <= grants'[handler'[k].grant].until
      BY DEF HandlerAt
    <2>1. CASE k = h
      BY <1>0, <1>2, <1>3, <2>1
    <2>2. CASE k # h
      BY <1>0, <1>2, <1>3, <2>2 DEF Timely, EndsInTime, HandlerAt, Grown
    <2>3. QED
      BY <2>1, <2>2
  <1>8. refresher'.pc = "save" => refresher'.since + AccessLife <= grants'[refresher'.grant].until
    BY <1>0, <1>3, <1>4 DEF Timely, EndsInTime, Grown, refreshVars
  <1>9. EndsInTime'
    BY <1>3, <1>4, <1>7, <1>8, RowsInTime DEF Timely, EndsInTime
  <1>10. QED
    BY <1>5, <1>6, <1>9 DEF Timely

\* A session is opened: its first round is at most an Interval after a round
\* that runs now may end, and its access token lives long enough for that.
LEMMA SaveInTime ==
  ASSUME IInv, Timely, scenario.on = "sessions", UNCHANGED <<now, scenario>>,
         NEW h \in Handlers, SaveSession(h)
  PROVE  Timely'
  <1> DEFINE c == handler[h]
             row == [account |-> c.account, access |-> c.grant,
                     refresh |-> IF c.renewable THEN c.grant ELSE 0,
                     until |-> Until(c.told, AccessLife),
                     refreshUntil |-> Until(c.refreshTold, RefreshLife)]
             n == Latest + 1
  <1>0. /\ now \in Nat /\ Latest \in Nat /\ Latest = Len(sessions) /\ tickAt \in Times
        /\ sessions \in Seq(SessionRows(Len(grants)))
        /\ c.since \in Nat /\ c.grant \in 1..Len(grants)
        /\ grants[c.grant].until \in Nat /\ now <= c.since + CallTime
        /\ c.since + AccessLife <= grants[c.grant].until
        /\ handler \in [Handlers -> Handling(now)]
        /\ refresher.since \in Nat /\ refresher.since <= now
        /\ refresher.id <= Latest /\ refresher.id \in Nat
    BY Numbered DEF IInv, TypeOK, SessionTypeOK, SaveSession, Timely, InTime, EndsInTime,
                    HandlerAt, Latest
  <1>1. /\ AccessLife \in Nat /\ RefreshLife \in Nat /\ RefreshBefore \in Nat /\ CallTime \in Nat
        /\ Interval \in Nat /\ RefreshBefore + CallTime <= AccessLife
        /\ NoTime \notin Nat
    BY LivesAreNumbers
  <1>2. /\ sessions' = Append(sessions, row) /\ missed' = 0
        /\ UNCHANGED <<grants, refresher, tickAt, lost>>
    BY DEF SaveSession, Insert
  <1>3. /\ row.access = c.grant /\ row.until = Until(c.told, AccessLife)
        /\ row.refreshUntil = Until(c.refreshTold, RefreshLife)
    OBVIOUS
  <1>4. /\ handler'[h].pc = "idle" /\ \A k \in Handlers \ {h} : handler'[k] = handler[k]
    BY <1>0 DEF SaveSession, NoCallback
  <1> HIDE DEF c, row
  <1>5. /\ Len(sessions') = n /\ sessions'[n] = row /\ Latest' = n
        /\ \A i \in 1..Latest : sessions'[i] = sessions[i]
    BY <1>0, <1>2 DEF Latest
  <1>6. row.until # NoTime => row.until = now + AccessLife
    BY <1>3 DEF Until
  <1>7. InTime'
    BY <1>0, <1>2, <1>4 DEF Timely, InTime, HandlerAt
  <1>8. EndsInTime'
    <2>1. RowInTime(row)
      <3>1. /\ now \in Nat /\ c.since \in Nat /\ grants[c.grant].until \in Nat
            /\ c.since + AccessLife <= grants[c.grant].until /\ now <= c.since + CallTime
        BY <1>0
      <3>2. /\ AccessLife \in Nat /\ CallTime \in Nat
        BY <1>1
      <3>3. now + AccessLife <= grants[c.grant].until + CallTime
        BY <3>1, <3>2, Later
      <3>4. QED
        BY <1>3, <1>6, <3>3 DEF RowInTime
    <2>2. \A i \in 1..n : RowInTime(sessions'[i])
      BY <1>0, <1>5, <2>1 DEF Timely, EndsInTime
    <2>3. \A i \in 1..Latest' : RowInTime(sessions[i])'
      BY <1>2, <1>5, <2>2 DEF RowInTime
    <2>4. QED
      BY <1>2, <1>4, <2>3 DEF Timely, EndsInTime, HandlerAt
  <1>9. OnSchedule'
    <2> SUFFICES ASSUME row.until # NoTime
                 PROVE  IF refresher.pc # "idle" /\ refresher.id # n
                        THEN refresher.since + CallTime + RefreshBefore <= row.until
                        ELSE NextRound + RefreshBefore <= row.until + Late(0)
      BY <1>2, <1>5 DEF OnSchedule, Overtaken, Watched, Renewable, NextRound
    <2>1. row.until = now + AccessLife /\ Late(0) = Interval
      BY <1>6, LateFacts
    <2>2. CASE refresher.pc # "idle"
      <3>1. refresher.id # n
        BY <1>0
      <3>2. refresher.since + CallTime + RefreshBefore <= now + AccessLife
        BY <1>0, <1>1
      <3>3. QED
        BY <2>1, <2>2, <3>1, <3>2
    <2>3. CASE refresher.pc = "idle"
      <3>1. NextRound \in Nat /\ NextRound <= now + Interval
        BY <1>0, <1>1, <2>3 DEF NextRound, Times, Timely, InTime
      <3>2. QED
        BY <1>0, <1>1, <2>1, <2>3, <3>1
    <2>4. QED
      BY <2>2, <2>3
  <1>10. QED
    BY <1>7, <1>8, <1>9 DEF Timely

LEMMA LoginInTime ==
  ASSUME IInv, Timely, scenario.on = "sessions", UNCHANGED <<now, scenario>>, LoginStep
  PROVE  Timely'
  <1>0. now \in Nat /\ CallTime \in Nat /\ handler \in [Handlers -> Handling(now)]
    BY LivesAreNumbers DEF IInv, TypeOK, TokenTypeOK, SessionTypeOK
  <1>1. ASSUME NEW s \in LoginStates, Login(s) PROVE Timely'
    <2>1. UNCHANGED <<now, scenario, grants, sessions, handler, refreshVars>>
      BY <1>1 DEF Login
    <2>2. InTime' /\ EndsInTime' /\ OnSchedule'
      BY <2>1 DEF Timely, InTime, EndsInTime, OnSchedule, Overtaken, HandlerAt, Latest, refreshVars,
                  RowInTime, Watched, NextRound
    <2>3. QED
      BY <2>2 DEF Timely
  <1>2. ASSUME NEW h \in Handlers, NEW s \in LoginStates, Callback(h, s) PROVE Timely'
    <2>1. /\ handler'[h].pc = "state" /\ handler'[h].since = now
          /\ \A k \in Handlers \ {h} : handler'[k] = handler[k]
      BY <1>0, <1>2 DEF Callback, NoCallback
    <2>2. now <= handler'[h].since + CallTime
      BY <1>0, <2>1
    <2>3. QED
      BY <1>2, <2>1, <2>2, QuietLogin DEF Callback
  <1>3. ASSUME NEW h \in Handlers, VerifyState(h) PROVE Timely'
    <2>1. /\ handler'[h].pc = "exchange" /\ handler'[h].since = handler[h].since
          /\ \A k \in Handlers \ {h} : handler'[k] = handler[k]
      BY <1>0, <1>3 DEF VerifyState, Handling
    <2>2. now <= handler'[h].since + CallTime
      BY <1>3, <2>1 DEF VerifyState, HandlerAt, Timely, InTime
    <2>3. QED
      BY <1>3, <2>1, <2>2, QuietLogin DEF VerifyState
  <1>4. ASSUME NEW h \in Handlers, RefuseState(h) \/ ExchangeFails(h) \/ SaveSessionFails(h)
        PROVE  Timely'
    <2>1. /\ handler'[h].pc = "idle" /\ \A k \in Handlers \ {h} : handler'[k] = handler[k]
          /\ UNCHANGED <<grants, sessions, refreshVars>>
      BY <1>0, <1>4 DEF RefuseState, ExchangeFails, SaveSessionFails, NoCallback
    <2>2. QED
      BY <2>1, QuietLogin
  <1>5. QED
    BY <1>1, <1>2, <1>3, <1>4, ExchangeInTime, SaveInTime DEF LoginStep

-----------------------------------------------------------------------------
(* The schedule is kept: the refresher *)

\* When a round is over: the next one begins in time.
LEMMA RoundEndsInTime ==
  ASSUME IInv, InTime, scenario.on = "sessions", UNCHANGED now, RoundEnds,
         refresher.pc = "idle" => Due
  PROVE  /\ refresher'.pc = "idle" /\ tickAt' \in Nat
         /\ now <= tickAt' /\ tickAt' <= now + Interval
         /\ refresher.pc # "idle" => tickAt' <= refresher.since + CallTime + Interval
  <1>0. /\ now \in Nat /\ tickAt \in Times /\ refresher.since \in Nat
        /\ Interval \in Nat /\ CallTime \in Nat /\ CallTime <= Interval /\ NoTime \notin Nat
    BY Numbered, LivesAreNumbers
  <1>1. refresher'.pc = "idle"
    BY DEF RoundEnds, NoRound
  <1>2. CASE tickAt = NoTime
    <2>1. tickAt' = now + Interval
      BY <1>2 DEF RoundEnds
    <2>2. refresher.pc # "idle" => now <= refresher.since + CallTime
      BY DEF InTime
    <2>3. QED
      BY <1>0, <1>1, <2>1, <2>2
  <1>3. CASE tickAt # NoTime /\ refresher.pc = "idle"
    <2>1. tickAt' = tickAt + Interval
      BY <1>3 DEF RoundEnds
    <2>2. tickAt \in Nat /\ now <= tickAt /\ now >= tickAt
      BY <1>0, <1>3 DEF InTime, Due, Times
    <2>3. QED
      BY <1>0, <1>1, <1>3, <2>1, <2>2
  <1>4. CASE tickAt # NoTime /\ refresher.pc # "idle"
    <2>1. tickAt' = tickAt
      BY <1>4 DEF RoundEnds
    <2>2. tickAt = refresher.since + Interval /\ now <= refresher.since + CallTime
      BY <1>4 DEF InTime
    <2>3. refresher.since <= now
      BY Numbered
    <2>4. QED
      BY <1>0, <1>1, <2>1, <2>2, <2>3
  <1>5. QED
    BY <1>2, <1>3, <1>4

\* A round that is over leaves calls and ticker in time.
LEMMA OverInTime ==
  ASSUME IInv, InTime, scenario.on = "sessions", UNCHANGED <<now, scenario, handler>>, RoundEnds,
         refresher.pc = "idle" => Due
  PROVE  InTime'
  <1>1. /\ refresher'.pc = "idle" /\ now <= tickAt' /\ tickAt' <= now + Interval
    BY RoundEndsInTime
  <1>2. QED
    BY <1>1 DEF InTime, HandlerAt

\* A round that is over without a row being written.
LEMMA EndsKept ==
  ASSUME IInv, EndsInTime, Grown, UNCHANGED <<sessions, handler>>, refresher'.pc # "save"
  PROVE  EndsInTime'
  <1>1. \A h \in Handlers : HandlerAt(h, "save") =>
          grants'[handler[h].grant].until = grants[handler[h].grant].until
    BY Numbered DEF Grown
  <1>2. QED
    BY <1>1, RowsInTime DEF EndsInTime, HandlerAt

LEMMA GrantsStay ==
  ASSUME IInv, UNCHANGED grants
  PROVE  Grown
  BY Numbered DEF Grown

\* A round that failed counts as missed, and makes the next one so much later.
LEMMA MissOnSchedule ==
  ASSUME IInv, Timely, scenario.on = "sessions", UNCHANGED <<now, sessions, lost>>,
         RoundEnds, Miss, refresher.pc = "idle" => Due
  PROVE  OnSchedule'
  <1>0. /\ now \in Nat /\ tickAt \in Times /\ refresher.since \in Nat /\ missed \in Nat
        /\ Interval \in Nat /\ CallTime \in Nat /\ RefreshBefore \in Nat /\ NoTime \notin Nat
        /\ Spare \in Int /\ refresher.since <= now
    BY Numbered, LivesAreNumbers, SpareType
  <1>1. /\ refresher'.pc = "idle" /\ tickAt' \in Nat
        /\ now <= tickAt' /\ tickAt' <= now + Interval
        /\ refresher.pc # "idle" => tickAt' <= refresher.since + CallTime + Interval
    BY RoundEndsInTime DEF Timely
  <1>2. SUFFICES ASSUME Watched'
                 PROVE  tickAt' + RefreshBefore <= sessions[Latest].until + Late(missed')
    BY <1>0, <1>1 DEF OnSchedule, Overtaken, NextRound, Latest
  <1>3. missed <= Spare /\ missed' = missed + 1
    BY <1>0, <1>2 DEF Miss, Watched
  <1>4. Watched /\ sessions[Latest].until \in Nat
    <2>1. Watched
      BY <1>2, <1>3 DEF Watched, Latest
    <2>2. Latest \in 1..Latest /\ sessions[Latest].until # NoTime
      BY <2>1, Numbered DEF Watched, Renewable
    <2>3. QED
      BY <2>1, <2>2, Numbered DEF Times
  <1>5. /\ Late(missed) \in Nat /\ Late(missed') = Late(missed) + Interval + CallTime
        /\ Late(0) = Interval
    BY <1>0, <1>3, LateFacts
  <1>6. CASE refresher.pc # "idle" /\ refresher.id # Latest
    <2>1. refresher.since + CallTime + RefreshBefore <= sessions[Latest].until
      BY <1>4, <1>6 DEF Timely, OnSchedule, Overtaken
    <2>2. QED
      BY <1>0, <1>1, <1>4, <1>5, <1>6, <2>1
  <1>7. CASE refresher.pc # "idle" /\ refresher.id = Latest
    <2>1. refresher.since + RefreshBefore <= sessions[Latest].until + Late(missed)
      BY <1>4, <1>7 DEF Timely, OnSchedule, Overtaken, NextRound
    <2>2. QED
      BY <1>0, <1>1, <1>4, <1>5, <1>7, <2>1
  <1>8. CASE refresher.pc = "idle"
    <2>1. NextRound + RefreshBefore <= sessions[Latest].until + Late(missed)
      BY <1>4, <1>8 DEF Timely, OnSchedule, Overtaken
    <2>2. now <= NextRound /\ NextRound \in Nat
      BY <1>0, <1>8 DEF NextRound, Timely, InTime, Times
    <2>3. QED
      BY <1>0, <1>1, <1>4, <1>5, <2>1, <2>2
  <1>9. QED
    BY <1>6, <1>7, <1>8

\* At a moment when the refresher waits or works, a session that is watched has not ended.
LEMMA WatchedInTime ==
  ASSUME IInv, InTime, OnSchedule, Watched
  PROVE  /\ sessions[Latest].until \in Nat /\ now + CallTime < sessions[Latest].until
         /\ Latest \in 1..Latest
  <1>0. /\ now \in Nat /\ tickAt \in Times /\ refresher.since \in Nat /\ missed \in Nat
        /\ Interval \in Nat /\ CallTime \in Nat /\ RefreshBefore \in Nat /\ NoTime \notin Nat
        /\ CallTime < RefreshBefore
    BY Numbered, LivesAreNumbers
  <1>1. Latest \in 1..Latest /\ sessions[Latest].until # NoTime
    BY Numbered DEF Watched, Renewable
  <1>2. sessions[Latest].until \in Nat
    BY <1>1, Numbered DEF Times
  <1>3. Late(missed) \in Nat /\ Late(missed) + 2 * CallTime < RefreshBefore
    BY <1>0, LateFacts DEF Watched
  <1>4. CASE refresher.pc # "idle" /\ refresher.id # Latest
    <2>1. /\ refresher.since + CallTime + RefreshBefore <= sessions[Latest].until
          /\ now <= refresher.since + CallTime
      BY <1>4 DEF OnSchedule, Overtaken, InTime
    <2>2. QED
      BY <1>0, <1>1, <1>2, <2>1
  <1>5. CASE refresher.pc # "idle" /\ refresher.id = Latest
    <2>1. /\ refresher.since + RefreshBefore <= sessions[Latest].until + Late(missed)
          /\ now <= refresher.since + CallTime
      BY <1>5 DEF OnSchedule, Overtaken, InTime, NextRound
    <2>2. QED
      BY <1>0, <1>1, <1>2, <1>3, <2>1
  <1>6. CASE refresher.pc = "idle"
    <2>1. NextRound + RefreshBefore <= sessions[Latest].until + Late(missed)
      BY <1>6 DEF OnSchedule, Overtaken
    <2>2. now <= NextRound /\ NextRound \in Nat
      BY <1>0, <1>6 DEF NextRound, InTime, Times
    <2>3. QED
      BY <1>0, <1>1, <1>2, <1>3, <2>1, <2>2
  <1>7. QED
    BY <1>4, <1>5, <1>6

\* A round that leaves a session as it is, because there is time or no way to refresh it.
LEMMA SkipOnSchedule ==
  ASSUME IInv, Timely, scenario.on = "sessions", UNCHANGED <<now, scenario>>, RoundSkips
  PROVE  OnSchedule'
  <1>0. /\ now \in Nat /\ Interval \in Nat /\ RefreshBefore \in Nat /\ NoTime \notin Nat
        /\ CallTime \in Nat
    BY Numbered, LivesAreNumbers
  <1>1. /\ refresher'.pc = "idle" /\ tickAt' \in Nat /\ tickAt' <= now + Interval
    BY RoundEndsInTime DEF Timely, RoundSkips
  <1>2. UNCHANGED <<sessions, lost>>
    BY DEF RoundSkips
  <1>3. SUFFICES ASSUME Watched'
                 PROVE  tickAt' + RefreshBefore <= sessions[Latest].until + Late(missed')
    BY <1>0, <1>1, <1>2 DEF OnSchedule, Overtaken, NextRound, Latest
  <1> DEFINE row == sessions[Latest]
             calm == now + RefreshBefore <= row.until
  <1>4. Latest > 0 /\ row.refresh # 0 /\ row.until # NoTime
    BY <1>2, <1>3 DEF Watched, Renewable, Latest
  <1>5. Latest \in 1..Latest /\ row.until \in Nat /\ row.refreshUntil \in Times
    BY <1>4, Numbered DEF Times
  <1>6. calm /\ missed' = 0
    <2>1. CASE calm
      BY <1>4, <2>1 DEF RoundSkips
    <2>2. CASE ~calm
      <3>1. missed' = missed
        BY <2>2 DEF RoundSkips
      <3>2. Watched
        BY <1>2, <1>3, <3>1 DEF Watched, Latest
      <3>3. now + CallTime < row.until
        BY <3>2, WatchedInTime DEF Timely
      <3>4. row.refreshUntil # NoTime => row.until <= row.refreshUntil
        BY <3>2 DEF Watched, Renewable
      <3>5. row.refreshUntil # NoTime => now <= row.refreshUntil
        BY <1>0, <1>5, <3>3, <3>4 DEF Times
      <3>6. now + RefreshBefore > row.until
        BY <1>0, <1>5, <2>2
      <3>7. ShouldRefresh(row)
        BY <1>4, <3>5, <3>6 DEF ShouldRefresh
      <3>8. QED
        BY <1>4, <3>7 DEF RoundSkips
    <2>3. QED
      BY <2>1, <2>2
  <1>7. Late(missed') = Interval
    BY <1>6, LateFacts
  <1>8. QED
    BY <1>0, <1>1, <1>5, <1>6, <1>7

\* A session that lost its way of being refreshed is not watched.
LEMMA LostOnSchedule ==
  ASSUME IInv, Timely, scenario.on = "sessions", UNCHANGED <<now, scenario, sessions, missed>>,
         RoundEnds, refresher.pc # "idle", lost' = lost \cup {refresher.id}
  PROVE  OnSchedule'
  <1>0. /\ now \in Nat /\ refresher.since \in Nat /\ missed \in Nat
        /\ Interval \in Nat /\ CallTime \in Nat /\ RefreshBefore \in Nat /\ NoTime \notin Nat
    BY Numbered, LivesAreNumbers
  <1>1. /\ refresher'.pc = "idle" /\ tickAt' \in Nat
        /\ tickAt' <= refresher.since + CallTime + Interval
    BY RoundEndsInTime DEF Timely
  <1>2. SUFFICES ASSUME Watched'
                 PROVE  tickAt' + RefreshBefore <= sessions[Latest].until + Late(missed)
    BY <1>0, <1>1 DEF OnSchedule, Overtaken, NextRound, Latest
  <1>3. Watched /\ refresher.id # Latest
    BY <1>2 DEF Watched, Latest
  <1>4. Latest \in 1..Latest /\ sessions[Latest].until \in Nat
    BY <1>3, WatchedInTime DEF Timely
  <1>5. missed = 0 /\ refresher.since + CallTime + RefreshBefore <= sessions[Latest].until
    BY <1>3 DEF Timely, OnSchedule, Overtaken
  <1>6. Late(missed) = Interval
    BY <1>5, LateFacts
  <1>7. QED
    BY <1>0, <1>1, <1>4, <1>5, <1>6

\* The tokens are written: a round or a ticker later there is time enough again.
LEMMA UpdateInTime ==
  ASSUME IInv, Timely, scenario.on = "sessions", UNCHANGED <<now, scenario>>, UpdateSessionTokens
  PROVE  Timely'
  <1> DEFINE i == refresher.id
             fresh == IF refresher.renewable THEN refresher.grant ELSE 0
             old == sessions[i]
             row == [old EXCEPT !.access = refresher.grant,
                                !.refresh = Or(fresh, old.refresh),
                                !.until = Until(refresher.told, AccessLife),
                                !.refreshUntil = Or(Until(refresher.refreshTold, RefreshLife),
                                                    old.refreshUntil)]
  <1>0. /\ now \in Nat /\ refresher.since \in Nat /\ refresher.since <= now
        /\ i \in 1..Latest /\ Latest = Len(sessions) /\ Latest \in Nat
        /\ sessions \in Seq(SessionRows(Len(grants)))
        /\ refresher.grant \in 1..Len(grants) /\ grants[refresher.grant].until \in Nat
        /\ refresher.since + AccessLife <= grants[refresher.grant].until
        /\ now <= refresher.since + CallTime
        /\ refresher.pc = "save"
    BY Numbered DEF IInv, TypeOK, SessionTypeOK, UpdateSessionTokens, Timely, InTime, EndsInTime,
                    Latest
  <1>1. /\ AccessLife \in Nat /\ RefreshLife \in Nat \ {0} /\ RefreshBefore \in Nat /\ CallTime \in Nat
        /\ Interval \in Nat /\ RefreshBefore + CallTime <= AccessLife
        /\ NoTime \notin Nat
    BY LivesAreNumbers
  <1>2. /\ sessions' = [sessions EXCEPT ![i] = row] /\ missed' = 0 /\ RoundEnds
        /\ UNCHANGED <<grants, handler>> /\ lost \subseteq lost'
        /\ ~refresher.renewable => i \in lost'
    BY DEF UpdateSessionTokens, UpdateTarget, loginVars
  <1>3. /\ row.access = refresher.grant /\ row.until = Until(refresher.told, AccessLife)
        /\ row.refreshUntil = Or(Until(refresher.refreshTold, RefreshLife), old.refreshUntil)
    <2>1. old \in SessionRows(Len(grants))
      BY <1>0
    <2>2. QED
      BY <2>1 DEF SessionRows
  <1> HIDE DEF row, fresh
  <1>4. /\ Len(sessions') = Len(sessions) /\ Latest' = Latest
        /\ sessions'[i] = row /\ \A k \in 1..Latest \ {i} : sessions'[k] = sessions[k]
    BY <1>0, <1>2 DEF Latest
  <1>5. row.until # NoTime => row.until = now + AccessLife
    BY <1>3 DEF Until
  <1>6. InTime'
    BY <1>0, <1>2, OverInTime DEF Timely
  <1>7. /\ refresher'.pc = "idle" /\ tickAt' \in Nat /\ tickAt' <= now + Interval
        /\ tickAt' <= refresher.since + CallTime + Interval
    BY <1>0, <1>2, RoundEndsInTime DEF Timely
  <1>8. EndsInTime'
    <2>1. RowInTime(row)
      <3>1. /\ now \in Nat /\ refresher.since \in Nat /\ grants[refresher.grant].until \in Nat
            /\ refresher.since + AccessLife <= grants[refresher.grant].until /\ now <= refresher.since + CallTime
        BY <1>0
      <3>2. /\ AccessLife \in Nat /\ CallTime \in Nat
        BY <1>1
      <3>3. now + AccessLife <= grants[refresher.grant].until + CallTime
        BY <3>1, <3>2, Later
      <3>4. QED
        BY <1>3, <1>5, <3>3 DEF RowInTime
    <2>2. \A k \in 1..Latest : RowInTime(sessions'[k])
      BY <1>4, <2>1 DEF Timely, EndsInTime
    <2>3. \A k \in 1..Latest' : RowInTime(sessions[k])'
      BY <1>2, <1>4, <2>2 DEF RowInTime
    <2>4. QED
      BY <1>2, <1>7, <2>3 DEF Timely, EndsInTime, HandlerAt
  <1>9. OnSchedule'
    <2> SUFFICES ASSUME Watched'
                 PROVE  tickAt' + RefreshBefore <= sessions'[Latest].until + Late(0)
      BY <1>1, <1>2, <1>4, <1>7 DEF OnSchedule, Overtaken, NextRound
    <2>1. Late(0) = Interval
      BY LateFacts
    <2>2. CASE i = Latest
      <3>1. sessions'[Latest].until = now + AccessLife
        BY <1>4, <1>5, <2>2 DEF Watched, Renewable
      <3>2. QED
        BY <1>0, <1>1, <1>7, <2>1, <3>1
    <2>3. CASE i # Latest
      <3>1. Latest \in 1..Latest \ {i}
        BY <1>0, <2>3
      <3>2. sessions'[Latest] = sessions[Latest]
        BY <1>4, <3>1
      <3>3. Latest > 0 /\ Renewable(sessions[Latest]) /\ Latest \notin lost
        BY <1>2, <1>4, <3>2 DEF Watched
      <3>4. missed = 0 /\ 0 <= Spare
        BY <1>0, <1>2, <2>3 DEF Timely, OnSchedule, Overtaken, Watched
      <3>5. Watched
        BY <3>3, <3>4 DEF Watched
      <3>6. refresher.since + CallTime + RefreshBefore <= sessions[Latest].until
        BY <1>0, <2>3, <3>5 DEF Timely, OnSchedule, Overtaken
      <3>7. sessions[Latest].until \in Nat
        BY <3>5, WatchedInTime DEF Timely
      <3>8. tickAt' + RefreshBefore <= sessions[Latest].until + Interval
        <4>1. /\ refresher.since \in Nat /\ CallTime \in Nat /\ RefreshBefore \in Nat
              /\ Interval \in Nat /\ tickAt' \in Nat
          BY <1>0, <1>1, <1>7
        <4>2. tickAt' <= refresher.since + CallTime + Interval
          BY <1>7
        <4>3. QED
          BY <3>6, <3>7, <4>1, <4>2
      <3>9. QED
        BY <2>1, <3>2, <3>8
    <2>4. QED
      BY <2>2, <2>3
  <1>10. QED
    BY <1>6, <1>8, <1>9 DEF Timely

\* What Spend adds ends an AccessLife later.
LEMMA SpendGrows ==
  ASSUME IInv, NEW n \in 1..Len(grants), Spend(n)
  PROVE  Grown /\ grants'[Len(grants) + 1].until = now + AccessLife
  <1> DEFINE old == [grants EXCEPT ![n].spent = TRUE]
             g == Grant(grants[n].account)
  <1>1. grants \in Seq(GrantRows)
    BY DEF IInv, TypeOK, SessionTypeOK
  <1>2. \A k \in 1..Len(grants) : grants[k] \in GrantRows
    BY <1>1
  <1>3. \A k \in 1..Len(grants) : old[k].until = grants[k].until
    BY <1>1, <1>2 DEF GrantRows
  <1>4. Len(old) = Len(grants) /\ old \in Seq(GrantRows)
    <2>1. [grants[n] EXCEPT !.spent = TRUE] \in GrantRows
      BY <1>2 DEF GrantRows
    <2>2. QED
      BY <1>1, <2>1
  <1>5. g.until = now + AccessLife
    BY DEF Grant
  <1>6. grants' = Append(old, g)
    BY DEF Spend
  <1> HIDE DEF old, g
  <1>7. /\ Len(grants') = Len(grants) + 1 /\ grants'[Len(grants) + 1] = g
        /\ \A k \in 1..Len(grants) : grants'[k] = old[k]
    BY <1>4, <1>6
  <1>8. Len(grants) \in Nat
    BY <1>1
  <1>9. QED
    BY <1>3, <1>5, <1>7, <1>8 DEF Grown

LEMMA RefresherInTime ==
  ASSUME IInv, Timely, scenario.on = "sessions", UNCHANGED <<now, scenario>>, RefresherStep
  PROVE  Timely'
  <1>0. /\ InTime /\ EndsInTime /\ now \in Nat /\ tickAt \in Times /\ NoTime \notin Nat
        /\ CallTime \in Nat /\ Interval \in Nat
    BY Numbered, LivesAreNumbers DEF Timely
  <1>1. CASE RoundSkips \/ LatestFails
    <2>1. /\ UNCHANGED <<grants, sessions, handler>> /\ RoundEnds /\ Due
          /\ refresher'.pc # "save"
      BY <1>1 DEF RoundSkips, LatestFails, loginVars, RoundEnds, NoRound
    <2>2. InTime' /\ EndsInTime'
      BY <1>0, <2>1, OverInTime, EndsKept, GrantsStay
    <2>3. OnSchedule'
      BY <1>1, <2>1, SkipOnSchedule, MissOnSchedule DEF LatestFails
    <2>4. QED
      BY <2>2, <2>3 DEF Timely
  <1>2. CASE RoundStarts
    <2>1. /\ refresher'.pc = "refresh" /\ refresher'.id = Latest /\ refresher'.since = now
          /\ UNCHANGED <<grants, sessions, handler, lost, missed>>
          /\ tickAt' = (IF tickAt = NoTime THEN NoTime ELSE tickAt + Interval)
          /\ refresher.pc = "idle" /\ (tickAt # NoTime => now >= tickAt)
      BY <1>2 DEF RoundStarts, NoRound, loginVars, Due
    <2>2. tickAt # NoTime => tickAt = now
      BY <1>0, <2>1 DEF InTime, Times
    <2>3. InTime'
      BY <1>0, <2>1, <2>2 DEF InTime, HandlerAt, Times
    <2>4. EndsInTime'
      BY <1>0, <2>1, EndsKept, GrantsStay
    <2>5. NextRound = now /\ NextRound' = now
      BY <2>1, <2>2 DEF NextRound
    <2>6. OnSchedule'
      BY <2>1, <2>5 DEF Timely, OnSchedule, Overtaken, Watched, Latest
    <2>7. QED
      BY <2>3, <2>4, <2>6 DEF Timely
  <1>3. CASE Refresh
    <2>1. PICK answer \in Answers :
            refresher' = [refresher EXCEPT !.pc = "save", !.grant = Len(grants) + 1,
                                           !.told = answer.told, !.refreshTold = answer.refreshTold,
                                           !.renewable = answer.renewable]
      BY <1>3 DEF Refresh
    <2>2. /\ refresher'.pc = "save" /\ refresher'.id = refresher.id
          /\ refresher'.since = refresher.since /\ refresher'.grant = Len(grants) + 1
      <3>1. refresher \in Rounds(now)
        BY DEF IInv, TypeOK, SessionTypeOK
      <3>2. QED
        BY <2>1, <3>1 DEF Rounds
    <2>3. /\ UNCHANGED <<sessions, handler, tickAt, lost, missed>> /\ refresher.pc = "refresh"
          /\ Spend(refresher.token)
      BY <1>3 DEF Refresh, loginVars
    <2>4. Grown /\ grants'[Len(grants) + 1].until = now + AccessLife
      BY <2>3, Numbered, SpendGrows
    <2>5. InTime'
      BY <1>0, <2>2, <2>3 DEF InTime, HandlerAt, Latest
    <2>6. EndsInTime'
      <3>1. refresher.since + AccessLife <= now + AccessLife
        BY Numbered, LivesAreNumbers
      <3>2. refresher'.since + AccessLife <= grants'[refresher'.grant].until
        BY <2>2, <2>4, <3>1
      <3>3. \A h \in Handlers : HandlerAt(h, "save") =>
              grants'[handler[h].grant].until = grants[handler[h].grant].until
        BY <2>4, Numbered DEF Grown
      <3>4. QED
        BY <1>0, <2>3, <2>4, <3>2, <3>3, RowsInTime DEF EndsInTime, HandlerAt
    <2>7. OnSchedule'
      BY <2>2, <2>3 DEF Timely, OnSchedule, Overtaken, Watched, NextRound, Latest
    <2>8. QED
      BY <2>5, <2>6, <2>7 DEF Timely
  <1>4. CASE RefreshFails
    <2>1. /\ UNCHANGED <<grants, sessions, handler, lost>> /\ RoundEnds /\ Miss
          /\ refresher.pc = "refresh" /\ refresher'.pc # "save"
      BY <1>4 DEF RefreshFails, loginVars, RoundEnds, NoRound
    <2>2. InTime' /\ EndsInTime'
      BY <1>0, <2>1, OverInTime, EndsKept, GrantsStay
    <2>3. OnSchedule'
      BY <2>1, MissOnSchedule
    <2>4. QED
      BY <2>2, <2>3 DEF Timely
  <1>5. CASE AnswerLost \/ UpdateFails
    <2>1. /\ UNCHANGED <<sessions, handler, missed>> /\ RoundEnds /\ refresher'.pc # "save"
          /\ refresher.pc # "idle" /\ lost' = lost \cup {refresher.id}
      BY <1>5 DEF AnswerLost, UpdateFails, loginVars, RoundEnds, NoRound
    <2>2. Grown
      <3>1. CASE UpdateFails
        BY <3>1, GrantsStay DEF UpdateFails
      <3>2. CASE AnswerLost
        BY <3>2, Numbered, SpendGrows DEF AnswerLost
      <3>3. QED
        BY <1>5, <3>1, <3>2
    <2>3. InTime' /\ EndsInTime'
      BY <1>0, <2>1, <2>2, OverInTime, EndsKept
    <2>4. OnSchedule'
      BY <2>1, LostOnSchedule
    <2>5. QED
      BY <2>3, <2>4 DEF Timely
  <1>6. CASE UpdateSessionTokens
    BY <1>6, UpdateInTime
  <1>7. QED
    BY <1>1, <1>2, <1>3, <1>4, <1>5, <1>6 DEF RefresherStep

-----------------------------------------------------------------------------
(* The schedule is kept: the process dies; time passes *)

\* A restart makes the next round begin at once.
LEMMA RestartInTime ==
  ASSUME IInv, Timely, scenario.on = "sessions", UNCHANGED <<now, scenario>>, Restart
  PROVE  Timely'
  <1>0. /\ now \in Nat /\ tickAt \in Times /\ refresher.since \in Nat /\ missed \in Nat
        /\ Interval \in Nat /\ CallTime \in Nat /\ RefreshBefore \in Nat /\ NoTime \notin Nat
        /\ Spare \in Int /\ refresher.pc \in {"idle", "refresh", "save"}
    BY Numbered, LivesAreNumbers, SpareType
  <1>1. /\ UNCHANGED <<grants, sessions>> /\ refresher'.pc = "idle" /\ tickAt' = NoTime
        /\ \A h \in Handlers : handler'[h].pc = "idle"
    BY DEF Restart, NoCallback, NoRound
  <1>2. InTime'
    BY <1>1 DEF InTime, HandlerAt
  <1>3. EndsInTime'
    BY <1>1 DEF Timely, EndsInTime, HandlerAt, Latest, RowInTime
  <1>4. OnSchedule'
    <2> SUFFICES ASSUME Watched'
                 PROVE  now + RefreshBefore <= sessions[Latest].until + Late(missed')
      BY <1>1 DEF OnSchedule, Overtaken, NextRound, Latest
    <2>1. missed' = missed \/ (refresher.pc = "refresh" /\ missed' = missed + 1)
      BY <1>0 DEF Restart, Miss, Watched
    <2>2. missed <= Spare /\ lost \subseteq lost'
      BY <1>0, <2>1 DEF Watched, Restart
    <2>3. Watched
      BY <1>1, <2>2 DEF Watched, Latest
    <2>4. sessions[Latest].until \in Nat /\ Late(missed) \in Nat
      BY <1>0, <2>3, WatchedInTime, LateFacts DEF Timely
    <2>5. refresher.pc # "idle" => now <= refresher.since + CallTime
      BY DEF Timely, InTime
    <2>6. refresher.pc = "save" => Overtaken
      BY <1>1 DEF Restart, Watched, Overtaken, Latest
    <2>7. CASE Overtaken
      <3>1. refresher.since + CallTime + RefreshBefore <= sessions[Latest].until
        BY <2>3, <2>7 DEF Timely, OnSchedule
      <3>2. Late(missed') \in Nat
        BY <1>0, <2>1, LateFacts
      <3>3. QED
        BY <1>0, <2>4, <2>5, <2>7, <3>1, <3>2 DEF Overtaken
    <2>8. CASE ~Overtaken /\ refresher.pc # "idle"
      <3>1. refresher.since + RefreshBefore <= sessions[Latest].until + Late(missed)
        BY <2>3, <2>8 DEF Timely, OnSchedule, NextRound
      <3>2. missed' = missed + 1
        BY <1>0, <2>2, <2>6, <2>8 DEF Restart, Miss
      <3>3. Late(missed') = Late(missed) + Interval + CallTime
        BY <1>0, <3>2, LateFacts
      <3>4. QED
        BY <1>0, <2>4, <2>5, <2>8, <3>1, <3>3
    <2>9. CASE ~Overtaken /\ refresher.pc = "idle"
      <3>1. NextRound + RefreshBefore <= sessions[Latest].until + Late(missed)
        BY <2>3, <2>9 DEF Timely, OnSchedule
      <3>2. now <= NextRound /\ NextRound \in Nat
        BY <1>0, <2>9 DEF NextRound, Timely, InTime, Times
      <3>3. missed' = missed
        BY <2>1, <2>9
      <3>4. QED
        BY <1>0, <2>4, <3>1, <3>2, <3>3
    <2>10. QED
      BY <2>7, <2>8, <2>9
  <1>5. QED
    BY <1>2, <1>3, <1>4 DEF Timely

\* The clock waits for what is due.
LEMMA TickInTime ==
  ASSUME IInv, Timely, Tick
  PROVE  Timely'
  <1>0. /\ now \in Nat /\ tickAt \in Times /\ refresher.since \in Nat /\ Interval \in Nat
        /\ CallTime \in Nat /\ NoTime \notin Nat /\ scenario.on \in {"tenant", "sessions"}
        /\ \A h \in Handlers : handler[h].since \in Nat
    <2>1. scenario.on \in {"tenant", "sessions"}
      BY ScenarioOn DEF IInv, TypeOK, SessionTypeOK
    <2>2. now \in Nat /\ tickAt \in Times /\ refresher.since \in 0..now
      BY Numbered
    <2>3. \A h \in Handlers : handler[h].since \in 0..now
      BY Numbered
    <2>4. QED
      BY <2>1, <2>2, <2>3, LivesAreNumbers
  <1>1. /\ now' = now + 1
        /\ UNCHANGED <<scenario, grants, sessions, handler, refresher, tickAt, lost, missed>>
    BY DEF Tick, sessionVars, loginVars, refreshVars
  <1>2. EndsInTime'
    BY <1>1 DEF Timely, EndsInTime, HandlerAt, Latest, RowInTime
  <1>3. CASE scenario.on = "tenant"
    <2>1. InTime' /\ Latest' = 0 /\ refresher'.pc = "idle"
      BY <1>1, <1>3 DEF Timely, InTime, HandlerAt, Latest
    <2>2. ~Watched' /\ ~Overtaken'
      BY <2>1 DEF Watched, Overtaken
    <2>3. OnSchedule'
      BY <2>2 DEF OnSchedule
    <2>4. QED
      BY <1>2, <2>1, <2>3 DEF Timely
  <1>4. CASE scenario.on = "sessions"
    <2>1. SessionsInTime
      BY <1>4 DEF Tick
    <2>2. InTime'
      <3>1. \A h \in Handlers : ~HandlerAt(h, "idle")' => now + 1 <= handler[h].since + CallTime
        BY <1>0, <1>1, <2>1 DEF SessionsInTime, HandlerAt
      <3>2. refresher.pc # "idle" => now + 1 <= refresher.since + CallTime
        BY <1>0, <2>1 DEF SessionsInTime
      <3>3. refresher.pc = "idle" => tickAt # NoTime /\ now + 1 <= tickAt
        BY <1>0, <2>1 DEF SessionsInTime, Due, Times
      <3>4. tickAt # NoTime /\ tickAt <= now + Interval => tickAt <= now + 1 + Interval
        BY <1>0 DEF Times
      <3>5. QED
        BY <1>1, <1>4, <3>1, <3>2, <3>3, <3>4 DEF Timely, InTime, HandlerAt
    <2>3. NextRound' = NextRound
      BY <1>1, <2>1 DEF NextRound, SessionsInTime, Due
    <2>4. OnSchedule'
      BY <1>1, <2>3 DEF Timely, OnSchedule, Overtaken, Watched, Latest
    <2>5. QED
      BY <1>2, <2>2, <2>4 DEF Timely
  <1>5. QED
    BY <1>0, <1>3, <1>4

LEMMA InitTimely == Init => Timely
  <1> SUFFICES ASSUME Init PROVE Timely
    OBVIOUS
  <1>1. InTime
    BY DEF Init, InTime, HandlerAt, Latest, NoCallback, NoRound
  <1>2. EndsInTime
    BY DEF Init, EndsInTime, HandlerAt, Latest, NoCallback, NoRound
  <1>3. OnSchedule
    BY DEF Init, OnSchedule, Overtaken, Watched, Latest, NoRound
  <1>4. QED
    BY <1>1, <1>2, <1>3 DEF Timely

LEMMA NextTimely == IInv /\ Timely /\ [Next]_vars => Timely'
  <1> SUFFICES ASSUME IInv, Timely, [Next]_vars PROVE Timely'
    OBVIOUS
  <1>1. ASSUME UNCHANGED <<now, scenario, sessionVars>> PROVE Timely'
    <2>1. /\ UNCHANGED <<now, scenario, grants, sessions, handler>>
          /\ UNCHANGED <<refresher, tickAt, lost, missed>>
      BY <1>1 DEF sessionVars, loginVars, refreshVars
    <2>2. InTime' /\ EndsInTime' /\ OnSchedule'
      BY <2>1 DEF Timely, InTime, EndsInTime, OnSchedule, Overtaken, HandlerAt, Latest,
                  RowInTime, Watched, NextRound
    <2>3. QED
      BY <2>2 DEF Timely
  <1>2. CASE scenario.on = "sessions" /\ SessionStep /\ UNCHANGED <<now, scenario, tokenVars>>
    <2>1. LoginStep \/ RefresherStep \/ Restart
      BY <1>2 DEF SessionStep, LoginStep
    <2>2. QED
      BY <1>2, <2>1, LoginInTime, RefresherInTime, RestartInTime
  <1>3. CASE Tick
    BY <1>3, TickInTime
  <1>4. QED
    BY <1>1, <1>2, <1>3 DEF Next, vars

(* The service stays authorized, for any number of logins, failures and    *)
(* restarts, and for every life of the tokens, interval and time ahead:    *)
(* before Spare + 1 rounds in a row have failed, or a new pair of tokens   *)
(* is lost, the latest session's access token is one that Feishu takes.    *)
THEOREM AlwaysAuthorized == Spec => []StaysAuthorized
  <1>1. IInv /\ Timely => StaysAuthorized
    <2> SUFFICES ASSUME IInv, Timely, Watched
                 PROVE  now < grants[sessions[Latest].access].until
      BY DEF StaysAuthorized, Watched
    <2>1. /\ sessions[Latest].until \in Nat /\ now + CallTime < sessions[Latest].until
          /\ Latest \in 1..Latest
      BY WatchedInTime DEF Timely
    <2>2. sessions[Latest].until <= grants[sessions[Latest].access].until + CallTime
      BY <2>1, LivesAreNumbers DEF Timely, EndsInTime, RowInTime
    <2>3. now \in Nat /\ CallTime \in Nat /\ grants[sessions[Latest].access].until \in Nat
      BY <2>1, Numbered, LivesAreNumbers
    <2>4. QED
      BY <2>1, <2>2, <2>3
  <1>2. IInv /\ Timely /\ [Next]_vars => IInv' /\ Timely'
    BY NextIInv, NextTimely
  <1>3. QED
    BY <1>1, <1>2, InitIInv, InitTimely, PTL DEF Spec

=============================================================================
