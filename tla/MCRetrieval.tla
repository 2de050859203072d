---------------------------- MODULE MCRetrieval ----------------------------
(* "hive的jdbc路径", a question of one long word with two ASCII parts, and  *)
(* one of which nothing is left.  Texts have the first word, a word that   *)
(* only the model thinks of, or neither.                                   *)
EXTENDS Retrieval

CONSTANTS whole, hive, Hive, jdbc, odbc, x, path, vague, full, other, plain, c1, c2, c3

MCLower == [w \in Words |-> IF w = Hive THEN hive ELSE w]
MCAscii == [w \in Words |-> CASE w = whole -> <<hive, jdbc>> [] w = path -> << >> [] OTHER -> <<w>>]
MCQuestions == [q \in {path, vague} |-> IF q = path THEN <<whole, Hive>> ELSE <<x>>]
MCTexts == [t \in {full, other, plain} |->
  CASE t = full -> {whole, hive} [] t = other -> {odbc, jdbc} [] t = plain -> {x}]
MCDistance == [q \in {path, vague} |-> [t \in {full, other, plain} |->
  CASE t = full -> 2 [] t = other -> 1 [] t = plain -> 3]]
MCExpansions == {<< >>, <<x, odbc>>, <<odbc, jdbc, hive>>, <<Hive, hive, odbc>>}

=============================================================================
