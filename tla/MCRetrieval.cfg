\* Deadlock: the question is answered and the index written.
CHECK_DEADLOCK FALSE
SPECIFICATION AskSpec
CONSTANTS
  whole = whole  hive = hive  Hive = Hive  jdbc = jdbc  odbc = odbc  x = x
  path = path  vague = vague  full = full  other = other  plain = plain
  c1 = c1  c2 = c2  c3 = c3
  Words = {whole, hive, Hive, jdbc, odbc, x}
  Lower <- MCLower
  Short = {x}
  Ascii <- MCAscii
  Questions <- MCQuestions
  Texts <- MCTexts
  Distance <- MCDistance
  Expansions <- MCExpansions
  KeywordLimit = 2
  ModelLimit = 2
  MergeLimit = 3
  Chunks = {c1, c2, c3}
  ResultLimit = 2
  MaxWrites = 1
INVARIANTS OwnKeywordFound AnswerIsBacked
