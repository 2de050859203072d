-------------------------- MODULE MCAuthorization --------------------------
(* Two callers of the tenant token; two people who log in with two states, *)
(* by two callbacks that may share one, beside the refresher.  A tick is   *)
(* about five minutes, and RefreshBefore six of them and one for CallTime. *)
EXTENDS Authorization, TLC

CONSTANTS here, there, ann, bob, first, second, tab1, tab2

\* A token of the app that ends; two logins, or a state used twice, while a
\* token is refreshed; one login, until its tokens would have ended.
MCScenarios ==
  {[on |-> "tenant", callbacks |-> 0, end |-> 9],
   [on |-> "sessions", callbacks |-> 2, end |-> 4],
   [on |-> "sessions", callbacks |-> 1, end |-> 11]}

\* Everything; a time left out, of either token; no refresh token.
MCAnswers ==
  {[told |-> TRUE, refreshTold |-> TRUE, renewable |-> TRUE],
   [told |-> FALSE, refreshTold |-> TRUE, renewable |-> TRUE],
   [told |-> TRUE, refreshTold |-> FALSE, renewable |-> TRUE],
   [told |-> TRUE, refreshTold |-> FALSE, renewable |-> FALSE]}

AuthSymmetry == Permutations({here, there}) \cup Permutations({ann, bob})
  \cup Permutations({first, second}) \cup Permutations({tab1, tab2})

=============================================================================
