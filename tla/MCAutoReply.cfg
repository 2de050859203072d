\* Deadlock: every message handled and no restart left.
CHECK_DEADLOCK FALSE
SPECIFICATION Spec
CONSTANTS
  c1 = c1  c2 = c2  solo = solo  anon = anon  own = own  empty = empty  atMe = atMe  atBot = atBot  toBot = toBot
  dm = dm  botDm = botDm  grp = grp  theirs = theirs  mine = mine
  Incoming = {c1, c2, solo, anon, own, empty, atMe, atBot, toBot}
  Scenarios = {{c1, c2}, {solo}, {own}, {empty}, {anon}, {atMe}, {atBot}, {toBot}}
  Attr <- MCAttr
  EventMsgs <- MCEventMsgs
  ContactChats = {dm}
  Keys = {theirs, mine}
  NoKey = NoKey
  NoMsg = NoMsg
  KeyOf <- MCKeyOf
  Timers = {t1, t2}
  NoTimer = NoTimer
  MaxRestarts = 1
INVARIANTS TypeOK NeverAnswersItself FirstWriterAnswers LogsTruthful SilenceHasReason
SYMMETRY TimerSymmetry
