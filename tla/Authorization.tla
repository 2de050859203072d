--------------------------- MODULE Authorization ---------------------------
(***************************************************************************)
(* Who the service acts for: the OAuth login of internal/httpapi/router.go,*)
(* the table feishu_auth_sessions of internal/auth/repository.go, and the  *)
(* refresher of internal/auth/refresher.go, beside the app's own token in  *)
(* TokenCache.                                                             *)
(*                                                                         *)
(* The refresher looks at the latest session every Interval and, if its    *)
(* access token ends within RefreshBefore, sends its refresh token to      *)
(* Feishu, which takes it once and answers with a new pair.  Logins go on  *)
(* meanwhile; any call may fail, after it took effect too; the process may *)
(* die and is started again at once.                                       *)
(*                                                                         *)
(* The tokens of a grant are known by its number; 0 is the empty string,   *)
(* and NoTime a NULL in a column of times.  The app's token and the        *)
(* sessions share nothing but the clock: a scenario is about one of them.  *)
(***************************************************************************)
EXTENDS TokenCache, Integers

CONSTANTS
  Accounts, NoAccount,   \* people who log in; the open_id of an unknown one
  Handlers,              \* requests of the login callback
  LoginStates,           \* states that randomState makes
  StateTTL,              \* the 10 minutes
  AccessLife, RefreshLife,  \* how long the tokens of a grant are good
  Answers,                  \* what comes with an access token, each by itself: how
                            \* long it is good, a refresh token, how long that is
  Interval, RefreshBefore,  \* of the refresher
  CallTime,              \* bound on a round of the refresher (the 30 seconds of
                         \* its context) and on a callback (those of its clients)
  NoTime,
  MaxGrants,             \* bound on the grants
  Scenarios              \* what is tried: [on, callbacks, end]: the app's token or
                         \* the sessions, a bound on the callbacks, and on time

ASSUME SessionsAssumption ==
  /\ NoAccount \notin Accounts /\ NoTime \notin Nat
  /\ {StateTTL, AccessLife, RefreshLife, Interval, RefreshBefore} \subseteq Nat \ {0}
  /\ CallTime \in 0..Interval /\ CallTime < RefreshBefore /\ MaxGrants \in Nat
  /\ RefreshBefore + CallTime <= AccessLife
  /\ Answers \subseteq [told : BOOLEAN, refreshTold : BOOLEAN, renewable : BOOLEAN]
  /\ Scenarios \subseteq [on : {"tenant", "sessions"}, callbacks : Nat, end : Nat]

VARIABLES
  scenario,   \* what this behaviour tries, one of Scenarios
  callbacks,  \* callbacks so far
  grants,     \* grants[n] = [account, until, refreshUntil, spent] at Feishu
  states,     \* states[s]: when oauth:state:s ends, NoTime if there is no such key
  begun,      \* logins that were begun, by their states
  handler,    \* handler[h]: a callback
  sessions,   \* the rows of feishu_auth_sessions, in the order of created_at
  opened,     \* opened[s]: the sessions that state s has opened
  refresher,  \* the refresher: where it is, and what its round holds
  tickAt,     \* when its ticker fires next, NoTime before its first round is over
  lost,       \* sessions whose refresh token Feishu took without a new one being recorded
  missed      \* rounds that failed since the latest session was last in order,
              \* counted up to one more than there may be

loginVars == <<states, begun, callbacks, handler, opened>>
refreshVars == <<refresher, tickAt, lost, missed>>
sessionVars == <<grants, sessions, loginVars, refreshVars>>
vars == <<now, scenario, tokenVars, sessionVars>>

NoCallback == [pc |-> "idle", state |-> NoTime, grant |-> 0, account |-> NoAccount,
               told |-> FALSE, refreshTold |-> FALSE, renewable |-> FALSE, since |-> 0]
NoRound == [pc |-> "idle", id |-> 0, token |-> 0, grant |-> 0,
            told |-> FALSE, refreshTold |-> FALSE, renewable |-> FALSE, since |-> 0]

HandlerAt(h, label) == handler[h].pc = label
Latest == Len(sessions)

\* tokenExpiryTimes: counted from now, which is later than the grant.
Until(told, life) == IF told THEN now + life ELSE NoTime

\* A grant of Feishu to an account.
Grant(account) ==
  [account |-> account, until |-> now + AccessLife, refreshUntil |-> now + RefreshLife,
   spent |-> FALSE]

\* coalesce
Or(value, old) == IF value \in {0, NoTime} THEN old ELSE value

-----------------------------------------------------------------------------
(* GET /api/auth/feishu/login and /callback *)

Login(s) ==
  /\ s \notin begun
  /\ begun' = begun \cup {s}
  /\ states' = [states EXCEPT ![s] = now + StateTTL]
  /\ UNCHANGED <<grants, sessions, callbacks, handler, opened, refreshVars>>

\* Feishu sends the browser back.  A page that is loaded again calls back
\* with the same state, also while the first call is under way.
Callback(h, s) ==
  /\ HandlerAt(h, "idle") /\ s \in begun /\ callbacks < scenario.callbacks
  /\ callbacks' = callbacks + 1
  /\ handler' = [handler EXCEPT ![h] = [NoCallback EXCEPT !.pc = "state", !.state = s,
                                                      !.since = now]]
  /\ UNCHANGED <<grants, sessions, states, begun, opened, refreshVars>>

StateValid(s) == states[s] # NoTime /\ now < states[s]

\* Mutant: the key is only looked at.
LookAtState(s) == UNCHANGED states

\* DEL oauth:state
DeleteState(s) == states' = [states EXCEPT ![s] = NoTime]

VerifyState(h) ==
  /\ HandlerAt(h, "state") /\ StateValid(handler[h].state)
  /\ DeleteState(handler[h].state)
  /\ handler' = [handler EXCEPT ![h].pc = "exchange"]
  /\ UNCHANGED <<grants, sessions, begun, callbacks, opened, refreshVars>>

\* 400: no such key.  500: Redis fails, perhaps after it has deleted it.
RefuseState(h) ==
  /\ HandlerAt(h, "state")
  /\ \/ ~StateValid(handler[h].state) /\ UNCHANGED states
     \/ DeleteState(handler[h].state) \/ UNCHANGED states
  /\ handler' = [handler EXCEPT ![h] = NoCallback]
  /\ UNCHANGED <<grants, sessions, begun, callbacks, opened, refreshVars>>

\* fillUserInfo asks whose token it is; if that fails, nobody is told.
UserInfo(who) == {who, NoAccount}

\* ExchangeOAuthCode.  Feishu need not say how long the tokens are good, nor
\* give a refresh token.
Exchange(h) ==
  /\ HandlerAt(h, "exchange") /\ Len(grants) < MaxGrants
  /\ \E who \in Accounts, answer \in Answers : \E account \in UserInfo(who) :
       /\ grants' = Append(grants, Grant(who))
       /\ handler' = [handler EXCEPT ![h] =
            [@ EXCEPT !.pc = "save", !.grant = Len(grants) + 1,
                      !.account = account, !.told = answer.told,
                      !.refreshTold = answer.refreshTold, !.renewable = answer.renewable]]
  /\ UNCHANGED <<sessions, states, begun, callbacks, opened, refreshVars>>

ExchangeFails(h) ==
  /\ HandlerAt(h, "exchange")
  /\ handler' = [handler EXCEPT ![h] = NoCallback]
  /\ UNCHANGED <<grants, sessions, states, begun, callbacks, opened, refreshVars>>

\* SaveOAuthSession
Insert(h) ==
  LET c == handler[h] IN
  /\ sessions' = Append(sessions,
       [account |-> c.account, access |-> c.grant, refresh |-> IF c.renewable THEN c.grant ELSE 0,
        until |-> Until(c.told, AccessLife),
        refreshUntil |-> Until(c.refreshTold, RefreshLife)])
  /\ opened' = [opened EXCEPT ![c.state] = @ + 1]
  /\ missed' = 0

\* Whether the INSERT is seen to succeed or not, the handler ends; a failed
\* one may have been executed.
SaveSession(h) ==
  /\ HandlerAt(h, "save")
  /\ Insert(h)
  /\ handler' = [handler EXCEPT ![h] = NoCallback]
  /\ UNCHANGED <<grants, states, begun, callbacks, refresher, tickAt, lost>>

SaveSessionFails(h) ==
  /\ HandlerAt(h, "save")
  /\ handler' = [handler EXCEPT ![h] = NoCallback]
  /\ UNCHANGED <<grants, sessions, states, begun, callbacks, opened, refreshVars>>

-----------------------------------------------------------------------------
(* The refresher *)

\* How many rounds in a row may fail before an access token ends.  Rounds start
\* at most Interval and CallTime apart, since a restart makes a ticker behind its
\* first round; and the last one must be over CallTime before the recorded end,
\* which is late by the time between grant and save.
Spare == ((RefreshBefore - CallTime - 1) \div (Interval + CallTime)) - 1

Miss == missed' = IF missed > Spare THEN missed ELSE missed + 1

Due == refresher.pc = "idle" /\ (tickAt # NoTime => now >= tickAt)

\* refreshIfNeeded returns: on to the select of Start, with a ticker that is
\* made after the first round.
RoundEnds ==
  /\ refresher' = NoRound
  /\ tickAt' = CASE tickAt = NoTime -> now + Interval
                 [] tickAt # NoTime /\ refresher.pc = "idle" -> tickAt + Interval
                 [] OTHER -> tickAt

\* Mutant: only a token that has ended is refreshed.
AfterTheEnd(row) ==
  /\ row.refreshUntil # NoTime => now <= row.refreshUntil
  /\ row.until # NoTime /\ now > row.until

ShouldRefresh(row) ==
  /\ row.refreshUntil # NoTime => now <= row.refreshUntil
  /\ row.until # NoTime /\ now + RefreshBefore > row.until

\* No session, no refresh token, or shouldRefresh says no.
RoundSkips ==
  /\ Due
  /\ Latest > 0 => sessions[Latest].refresh = 0 \/ ~ShouldRefresh(sessions[Latest])
  /\ RoundEnds
  /\ missed' = IF Latest > 0 /\ sessions[Latest].refresh # 0 /\ sessions[Latest].until # NoTime
                  /\ now + RefreshBefore <= sessions[Latest].until
                 THEN 0 ELSE missed
  /\ UNCHANGED <<grants, sessions, loginVars, lost>>

\* The latest session cannot be read.
LatestFails ==
  /\ Due
  /\ RoundEnds /\ Miss
  /\ UNCHANGED <<grants, sessions, loginVars, lost>>

RoundStarts ==
  /\ Due /\ Latest > 0
  /\ sessions[Latest].refresh # 0 /\ ShouldRefresh(sessions[Latest])
  /\ refresher' = [NoRound EXCEPT !.pc = "refresh", !.id = Latest,
                                  !.token = sessions[Latest].refresh, !.since = now]
  /\ tickAt' = IF tickAt = NoTime THEN NoTime ELSE tickAt + Interval
  /\ UNCHANGED <<grants, sessions, loginVars, lost, missed>>

\* What Feishu does with a refresh token.
Takes(n) == ~grants[n].spent /\ now < grants[n].refreshUntil
Spend(n) ==
  grants' = Append([grants EXCEPT ![n].spent = TRUE], Grant(grants[n].account))

\* RefreshOAuthToken
Refresh ==
  /\ refresher.pc = "refresh" /\ Takes(refresher.token) /\ Len(grants) < MaxGrants
  /\ Spend(refresher.token)
  /\ \E answer \in Answers :
       refresher' = [refresher EXCEPT !.pc = "save", !.grant = Len(grants) + 1,
                                      !.told = answer.told, !.refreshTold = answer.refreshTold,
                                      !.renewable = answer.renewable]
  /\ UNCHANGED <<sessions, loginVars, tickAt, lost, missed>>

\* Mutant: what comes of a failed request is saved.
RefreshFailsUnnoticed ==
  /\ refresher.pc = "refresh"
  /\ refresher' = [refresher EXCEPT !.pc = "save", !.told = TRUE, !.refreshTold = TRUE,
                                    !.renewable = TRUE]
  /\ UNCHANGED <<grants, sessions, loginVars, tickAt, lost, missed>>

\* It fails before Feishu took the token, or Feishu refuses it.
RefreshFails ==
  /\ refresher.pc = "refresh"
  /\ RoundEnds /\ Miss
  /\ UNCHANGED <<grants, sessions, loginVars, lost>>

\* It fails after Feishu took the token: the new pair is lost.
AnswerLost ==
  /\ refresher.pc = "refresh" /\ Takes(refresher.token) /\ Len(grants) < MaxGrants
  /\ Spend(refresher.token)
  /\ RoundEnds /\ lost' = lost \cup {refresher.id}
  /\ UNCHANGED <<sessions, loginVars, missed>>

\* Mutant: the session that is the latest by now is updated.
UpdateLatest == Latest

\* The row that UpdateSessionTokens writes: the one that was read.
UpdateTarget == refresher.id

UpdateSessionTokens ==
  /\ refresher.pc = "save"
  /\ LET row == sessions[UpdateTarget] IN
     sessions' = [sessions EXCEPT ![UpdateTarget] =
       [row EXCEPT !.access = refresher.grant,
                   !.refresh = Or(IF refresher.renewable THEN refresher.grant ELSE 0, row.refresh),
                   !.until = Until(refresher.told, AccessLife),
                   !.refreshUntil = Or(Until(refresher.refreshTold, RefreshLife), row.refreshUntil)]]
  /\ lost' = IF refresher.renewable THEN lost ELSE lost \cup {refresher.id}
  /\ missed' = 0
  /\ RoundEnds
  /\ UNCHANGED <<grants, loginVars>>

UpdateFails ==
  /\ refresher.pc = "save"
  /\ RoundEnds /\ lost' = lost \cup {refresher.id}
  /\ UNCHANGED <<grants, sessions, loginVars, missed>>

RefresherStep ==
  \/ RoundSkips \/ LatestFails \/ RoundStarts \/ Refresh \/ RefreshFails \/ AnswerLost
  \/ UpdateSessionTokens \/ UpdateFails

\* The process dies and starts again: goroutines are gone, Redis and the
\* tables stay, and the refresher begins with a round.
Restart ==
  /\ handler' = [h \in Handlers |-> NoCallback]
  /\ refresher' = NoRound /\ tickAt' = NoTime
  /\ lost' = IF refresher.pc = "save" THEN lost \cup {refresher.id} ELSE lost
  /\ IF refresher.pc = "refresh" THEN Miss ELSE UNCHANGED missed
  /\ UNCHANGED <<grants, sessions, states, begun, callbacks, opened>>

-----------------------------------------------------------------------------
\* The clock stops for a round that is due, and for calls that have had their time.
SessionsInTime ==
  /\ ~Due
  /\ refresher.pc # "idle" => now < refresher.since + CallTime
  /\ \A h \in Handlers : ~HandlerAt(h, "idle") => now < handler[h].since + CallTime

Tick ==
  /\ now < scenario.end
  /\ IF scenario.on = "tenant" THEN TokenInTime ELSE SessionsInTime
  /\ now' = now + 1
  /\ UNCHANGED <<scenario, tokenVars, sessionVars>>

SessionStep ==
  \/ \E s \in LoginStates : Login(s)
  \/ \E h \in Handlers :
       \/ \E s \in LoginStates : Callback(h, s)
       \/ VerifyState(h) \/ RefuseState(h) \/ Exchange(h) \/ ExchangeFails(h)
       \/ SaveSession(h) \/ SaveSessionFails(h)
  \/ RefresherStep
  \/ Restart

Init ==
  /\ TokenInit
  /\ scenario \in Scenarios /\ callbacks = 0
  /\ grants = << >> /\ sessions = << >>
  /\ states = [s \in LoginStates |-> NoTime] /\ begun = {}
  /\ handler = [h \in Handlers |-> NoCallback]
  /\ opened = [s \in LoginStates |-> 0]
  /\ refresher = NoRound /\ tickAt = NoTime /\ lost = {} /\ missed = 0

Next ==
  \/ scenario.on = "tenant" /\ (\E c \in Callers : TokenStep(c))
     /\ UNCHANGED <<now, scenario, sessionVars>>
  \/ scenario.on = "sessions" /\ SessionStep /\ UNCHANGED <<now, scenario, tokenVars>>
  \/ Tick

Spec == Init /\ [][Next]_vars

-----------------------------------------------------------------------------
(* Properties *)

Times == Nat \cup {NoTime}
Numbers == 0..MaxGrants

GrantRows == [account : Accounts, until : Nat, refreshUntil : Nat, spent : BOOLEAN]

\* Callbacks and rounds that began by time t.
Handling(t) ==
  [pc : {"idle", "state", "exchange", "save"}, state : LoginStates \cup {NoTime},
   grant : Numbers, account : Accounts \cup {NoAccount},
   told : BOOLEAN, refreshTold : BOOLEAN, renewable : BOOLEAN, since : 0..t]

Rounds(t) ==
  [pc : {"idle", "refresh", "save"}, id : Nat, token : Numbers, grant : Numbers,
   told : BOOLEAN, refreshTold : BOOLEAN, renewable : BOOLEAN, since : 0..t]

\* Rows of feishu_auth_sessions after n grants.
SessionRows(n) ==
  [account : Accounts \cup {NoAccount}, access : 1..n, refresh : 0..n,
   until : Times, refreshUntil : Times]

SessionTypeOK ==
  /\ scenario \in Scenarios /\ callbacks \in 0..scenario.callbacks
  /\ grants \in Seq(GrantRows) /\ Len(grants) <= MaxGrants
  /\ states \in [LoginStates -> Times] /\ begun \subseteq LoginStates
  /\ handler \in [Handlers -> Handling(now)]
  /\ sessions \in Seq(SessionRows(Len(grants)))
  /\ opened \in [LoginStates -> Nat]
  /\ refresher \in Rounds(now) /\ refresher.id <= Latest
  /\ tickAt \in Times /\ lost \subseteq 1..Latest /\ missed \in 0..(Spare + 1)

TypeOK == TokenTypeOK /\ SessionTypeOK

(* A state of the login opens one session at most, however often and       *)
(* however closely together the callback is called with it.                *)
OneSessionPerState == \A s \in LoginStates : opened[s] <= 1

(* The tokens of a session are its account's, also when somebody else logs *)
(* in while the refresher waits for Feishu's answer.                       *)
TokensOfAccount ==
  \A i \in 1..Latest : sessions[i].account # NoAccount =>
    /\ grants[sessions[i].access].account = sessions[i].account
    /\ sessions[i].refresh # 0 => grants[sessions[i].refresh].account = sessions[i].account

\* What the refresher can work with: a refresh token, the end of the access
\* token, and no end of the refresh token recorded that comes before it.
Renewable(row) ==
  /\ row.refresh # 0 /\ row.until # NoTime
  /\ row.refreshUntil # NoTime => row.until <= row.refreshUntil

(* The service stays authorized: the access token of the latest session is *)
(* one that Feishu takes, at every moment, as long as no more than Spare   *)
(* rounds in a row fail, or are cut short by a restart, and no new pair of *)
(* tokens is lost on its way from Feishu to the table.  Not covered: a row *)
(* with an earlier end for the refresh token than for the access token.    *)
(* UpdateSessionTokens makes one of answers that bring a new pair and do   *)
(* not say how long its refresh token is good: the date of the token that  *)
(* was spent stays, and after it shouldRefresh refuses the good one.       *)
StaysAuthorized ==
  Latest > 0 /\ Renewable(sessions[Latest]) /\ Latest \notin lost /\ missed <= Spare =>
    now < grants[sessions[Latest].access].until

=============================================================================
