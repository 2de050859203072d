\* Deadlock: every event acknowledged or given up.
CHECK_DEADLOCK FALSE
SPECIFICATION Spec
CONSTANTS
  Events = {msg, other, forged}
  Genuine = {msg, other}
  MsgEvents = {msg}
  Handlers = {h1, h2}
  NoEvent = NoEvent
  MaxAttempts = 3
  MaxExpiries = 1
  MaxCrashes = 1
  msg = msg  other = other  forged = forged
INVARIANTS TypeOK HandledOncePerKey ProcessedIsDurable RowsBeforeReply LossNeedsFault
SYMMETRY HandlerSymmetry
