\* Deadlock: every event acknowledged or given up.
CHECK_DEADLOCK FALSE
SPECIFICATION Spec
CONSTANTS
  Events = {msg, other, forged}
  Genuine = {msg, other}
  MsgEvents = {msg}
  Handlers = {h1}
  NoEvent = NoEvent
  MaxAttempts = 3
  MaxExpiries = 1
  MaxCrashes = 0
  msg = msg  other = other  forged = forged
INVARIANT AckedIsStored
