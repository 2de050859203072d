---------------------------- MODULE MCAutoReply ----------------------------
(* A message of every kind the paths tell apart: three of a contact (c1    *)
(* and solo also come as events), one of a contact whose id is unknown,    *)
(* one the account's owner typed, one without text, two in a group that    *)
(* mention the account or the bot, and one in the bot's own private chat.  *)
(* Only c1 and c2 meet in a conversation: kinds of different chats share   *)
(* no row, key or job.  The account's messages in the contact's chat are   *)
(* the conversation "mine".                                                *)
EXTENDS AutoReply, TLC

CONSTANTS c1, c2, solo, anon, own, empty, atMe, atBot, toBot, dm, botDm, grp, theirs, mine

Private == [chat |-> dm, type |-> "p2p", sender |-> "contact", mention |-> "none", blank |-> FALSE]
Group == [Private EXCEPT !.chat = grp, !.type = "group"]

MCAttr ==
  (c1 :> Private) @@ (c2 :> Private) @@ (solo :> Private) @@ (anon :> Private) @@
  (own :> [Private EXCEPT !.sender = "owner"]) @@ (empty :> [Private EXCEPT !.blank = TRUE]) @@
  (toBot :> [Private EXCEPT !.chat = botDm]) @@
  (atMe :> [Group EXCEPT !.mention = "owner"]) @@ (atBot :> [Group EXCEPT !.mention = "bot"])

MCEventMsgs == {c1} \cup LET direct == {solo, own, atMe, atBot, toBot} IN direct \cup direct \X Identities

MCKeyOf ==
  [m \in Msgs |->
    CASE m \in {c1, c2, solo, empty} -> theirs
      [] m = own \/ (m \notin Incoming /\ MCAttr[m[1]].type = "p2p") -> mine
      [] OTHER -> NoKey]

TimerSymmetry == Permutations(Timers)

=============================================================================
