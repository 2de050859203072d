\* Deadlock: messages, rounds, upserts and time used up.
CHECK_DEADLOCK FALSE
SPECIFICATION Spec
CONSTANTS
  hive = hive  path = path  hello = hello  tag = tag  bot = bot  pic1 = pic1  pic2 = pic2
  Chats <- MCChats
  Nothing = Nothing
  Placeholder = Placeholder
  Window = 2
  Limit = 2
  Debounce = 1
  Lookback = 1
  Upserters = {"history"}
  MaxTime = 3
  MaxRounds = 2
  MaxUpserts = 1
INVARIANT SaidIsAsked
PROPERTY DescriptionKept
