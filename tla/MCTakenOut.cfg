\* Deadlock: requests, clicks and edits used up.
CHECK_DEADLOCK FALSE
SPECIFICATION DocSpec
CONSTANTS
  g1 = g1  g2 = g2  ann = ann  bob = bob  annChat = annChat  bobChat = bobChat
  memo = memo  sheet = sheet  v1 = v1  v2 = v2  left = left  right = right  poller = poller
  Groups = {g1, g2}
  Persons = {ann, bob}
  NoOpenID = NoOpenID
  HasOpenID = {ann}
  ChatIDs = {annChat, bobChat}
  NoChat = NoChat
  ChatOf <- MCChatOf
  Matching <- MCMatching
  Docs = {memo, sheet}
  Docx = {memo}
  Versions = {v1, v2}
  Pieces <- MCPieces
  NoDoc = NoDoc
  NoVersion = NoVersion
  Clients = {left}
  Pages = {left}
  Runners = {}
  Scenarios <- MCOnePage
  MaxToggles = 1
  MaxEdits = 1
INVARIANT TakenOutStaysOut

