----------------------------- MODULE MCSources -----------------------------
(* Two groups, a person with an open id and one without, two documents of  *)
(* which one can be parsed; two open pages and a background round.         *)
EXTENDS DocumentSync, TLC

CONSTANTS g1, g2, ann, bob, annChat, bobChat, memo, sheet, v1, v2, left, right, poller

MCChatOf == (ann :> annChat) @@ (bob :> bobChat)
\* The name of ann's chat, and of another one, matches hers; bob's matches none.
MCMatching == (ann :> {annChat, bobChat}) @@ (bob :> {})
MCPieces == (v1 :> 2) @@ (v2 :> 1)

Scenario(t, kinds, starts) == [tab |-> t, kinds |-> kinds, starts |-> starts]
MCScenarios ==
  {Scenario("chat", {"save", "post", "local"}, 3),
   Scenario("chat", {"save", "load"}, 2),
   Scenario("contact", {"save", "load", "match"}, 2),
   Scenario("contact", {"save", "resolve", "match"}, 3),
   Scenario("contact", {"load", "resolve"}, 3),
   Scenario("document", {"save", "load"}, 2),
   Scenario("document", {"sync", "edit"}, 3),
   Scenario("document", {"save", "sync"}, 2)}

\* For one page, which saves twice.
MCOnePage == {Scenario("chat", {"save"}, 2)}

PageSymmetry == Permutations({left, right}) \cup Permutations({g1, g2})

=============================================================================
