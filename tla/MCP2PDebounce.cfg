\* Deadlock: every message answered, nothing armed, no restart left.
CHECK_DEADLOCK FALSE
SPECIFICATION FairSpec
CONSTANTS
  a1 = a1  a2 = a2  a3 = a3  b1 = b1  x1 = x1
  chatA = chatA  chatB = chatB
  Msgs = {a1, a2, a3, b1, x1}
  Keys = {chatA, chatB}
  NoKey = NoKey
  NoMsg = NoMsg
  KeyOf <- MCKeyOf
  Timers = {t1, t2, t3, t4}
  NoTimer = NoTimer
  MaxRestarts = 1
INVARIANTS TypeOK PendingHasTimer WaitingNotHanded
PROPERTY CoalescerSpec
