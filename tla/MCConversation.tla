--------------------------- MODULE MCConversation ---------------------------
(* Three messages: two texts and, between them, a post with two pictures   *)
(* and a mention, or a sticker that has no text; and two texts of which    *)
(* the second comes with a picture.                                        *)
EXTENDS Conversation, TLC

CONSTANTS hive, path, hello, tag, bot, pic1, pic2

Part(t, s) == [tag |-> t, says |-> s]
Say(word) == [type |-> "text", parts |-> <<Part("text", word)>>, names |-> << >>]
Post ==
  [type |-> "post", names |-> (tag :> bot),
   parts |-> <<Part("at", tag), Part("img", pic1), Part("text", Nothing), Part("img", pic2),
               Part("img", Nothing), Part("text", hello)>>]
Sticker == [type |-> "other", parts |-> <<Part("text", Nothing)>>, names |-> << >>]
Picture == [type |-> "image", parts |-> <<Part("img", pic1)>>, names |-> << >>]

MCChats == {<<Say(hive), Say(path), Say(hello)>>, <<Post>>, <<Say(hive), Sticker, Picture>>}

=============================================================================
