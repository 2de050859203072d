\* Deadlock: every start and crash used up.
CHECK_DEADLOCK FALSE
SPECIFICATION FairSpec
CONSTANTS
  team = team  ann = ann  teamRoom = teamRoom  annRoom = annRoom
  m1 = m1  m2 = m2  m3 = m3  hourly = hourly  web = web
  Chats = {team}
  Contacts = {ann}
  Rooms = {teamRoom, annRoom}
  NoRoom = NoRoom
  RoomOf <- MCRoomOf
  Matches <- MCMatches
  ItemsOf <- MCItemsOf
  WithText = {m1, m3}
  Aging = {m1}
  Hourly = hourly
  Requests = {web}
  NoSource = NoSource
  Scenarios <- MCScenarios
  MaxCrashes = 1
INVARIANTS TypeOK RunningJobIsWorkedOn ReportIsBacked EverySourceReported DoneNoticeIsIndexed LockIsHeldByRun
PROPERTY HourlyEnds
