\* Deadlock: time, tokens and states used up.
CHECK_DEADLOCK FALSE
SPECIFICATION Spec
CONSTANTS
  here = here  there = there  ann = ann  bob = bob
  first = first  second = second  tab1 = tab1  tab2 = tab2
  Callers = {here, there}
  Margin = 2
  DefaultTTL = 3
  Lives = {2, 4, 5}
  MaxDelay = 1
  MaxTokens = 3
  Accounts = {ann, bob}
  NoAccount = NoAccount
  Handlers = {tab1, tab2}
  LoginStates = {first, second}
  StateTTL = 2
  AccessLife = 7
  RefreshLife = 7
  Answers <- MCAnswers
  Interval = 1
  RefreshBefore = 6
  CallTime = 1
  NoTime = NoTime
  MaxGrants = 3
  Scenarios <- MCScenarios
INVARIANTS TypeOK CachedTokenIsLive OneSessionPerState TokensOfAccount StaysAuthorized
SYMMETRY AuthSymmetry
