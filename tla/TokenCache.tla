----------------------------- MODULE TokenCache -----------------------------
(***************************************************************************)
(* TenantAccessToken of internal/feishu/client.go: the token of the app is *)
(* kept in Redis for as long as Feishu said it is good, less a margin.     *)
(* Callers (replies, notices, handlers) run at the same time; nothing      *)
(* keeps two that miss from asking for a token each, and what is set last  *)
(* stays.  A GET that fails counts as a miss.                              *)
(*                                                                         *)
(* Feishu grants a token that is new, or one that it granted before and    *)
(* that is still good.  Time is a number of ticks.                         *)
(***************************************************************************)
EXTENDS Naturals, Sequences

CONSTANTS
  Callers,     \* goroutines that ask for the tenant token
  Margin,      \* the 300 seconds
  DefaultTTL,  \* the 30 minutes
  Lives,       \* for how long a new token may be good
  MaxDelay,    \* bound on the time between Feishu's grant and the SET, which
               \* the timeouts of the HTTP and the Redis client set
  MaxTokens    \* bound on the tokens that Feishu grants

ASSUME TokenCacheAssumption ==
  /\ Margin \in Nat /\ DefaultTTL \in Nat \ {0} /\ Lives \subseteq Nat \ {0}
  /\ MaxDelay \in 0..Margin /\ MaxTokens \in Nat

VARIABLES
  now,      \* the time
  expires,  \* expires[n]: when the n-th tenant token ends
  cache,    \* the entry feishu:tenant_access_token
  call      \* call[c]: a call of TenantAccessToken

tokenVars == <<expires, cache, call>>

\* The entry: the token, when Redis drops it, and what Feishu said it had left.
Entry(token, until, told) == [token |-> token, until |-> until, told |-> told]
NoEntry == Entry(0, 0, 0)
NoCall == [pc |-> "idle", token |-> 0, told |-> 0, since |-> 0]

CallAt(c, label) == call[c].pc = label

-----------------------------------------------------------------------------
\* Mutant: the entry lives as long as the token.
WholeLife(told) == IF told > 0 THEN told ELSE DefaultTTL

\* The ttl: Expire - 300 seconds, or 30 minutes if that is not positive.
TTL(told) == IF told > Margin THEN told - Margin ELSE DefaultTTL

\* GET finds nothing, or fails.  (If it finds a token the call ends with it.)
GetMisses(c) ==
  /\ CallAt(c, "idle") /\ Len(expires) < MaxTokens
  /\ call' = [call EXCEPT ![c] = [NoCall EXCEPT !.pc = "request"]]
  /\ UNCHANGED <<expires, cache>>

\* POST tenant_access_token/internal, as Feishu deals with it: the call now
\* holds token n, which has `left` to live.
Hold(c, n, left) ==
  call' = [call EXCEPT ![c] = [pc |-> "set", token |-> n, told |-> left, since |-> now]]

GrantNew(c) ==
  /\ CallAt(c, "request") /\ Len(expires) < MaxTokens
  /\ \E life \in Lives :
       /\ expires' = Append(expires, now + life)
       /\ Hold(c, Len(expires) + 1, life)
  /\ UNCHANGED cache

GrantAgain(c) ==
  /\ CallAt(c, "request")
  /\ \E n \in 1..Len(expires) : expires[n] > now /\ Hold(c, n, expires[n] - now)
  /\ UNCHANGED <<expires, cache>>

\* The request fails, or its answer is an error: the call fails.
RequestFails(c) ==
  /\ CallAt(c, "request")
  /\ call' = [call EXCEPT ![c] = NoCall]
  /\ UNCHANGED <<expires, cache>>

\* SET with the ttl.  If the caller sees it fail, it is not given the token.
SetEntry(c) ==
  /\ CallAt(c, "set")
  /\ cache' = Entry(call[c].token, now + TTL(call[c].told), call[c].told)
  /\ call' = [call EXCEPT ![c] = NoCall]
  /\ UNCHANGED expires

SetFails(c) ==
  /\ CallAt(c, "set")
  /\ call' = [call EXCEPT ![c] = NoCall]
  /\ UNCHANGED <<expires, cache>>

TokenStep(c) ==
  \/ GetMisses(c) \/ GrantNew(c) \/ GrantAgain(c) \/ RequestFails(c)
  \/ SetEntry(c) \/ SetFails(c)

\* The clock stops for a call that has had its time.
TokenInTime == \A c \in Callers : CallAt(c, "set") => now < call[c].since + MaxDelay

TokenInit ==
  /\ now = 0
  /\ expires = << >> /\ cache = NoEntry
  /\ call = [c \in Callers |-> NoCall]

-----------------------------------------------------------------------------
TokenTypeOK ==
  /\ now \in Nat
  /\ expires \in Seq(Nat) /\ Len(expires) <= MaxTokens
  /\ cache \in [token : 0..Len(expires), until : Nat, told : Nat]
  /\ call \in [Callers -> [pc : {"idle", "request", "set"}, token : 0..Len(expires),
                           told : Nat, since : 0..now]]

(* What a GET finds is a token that Feishu still takes, and will take for  *)
(* the margin less the time the SET took, whoever of several callers set   *)
(* it last and however old the token was when it was granted.  A token     *)
(* that Feishu gave away with no more than the margin left is the          *)
(* exception: it is cached for 30 minutes.                                 *)
CachedTokenIsLive ==
  now < cache.until /\ cache.told > Margin => now + (Margin - MaxDelay) < expires[cache.token]

=============================================================================
