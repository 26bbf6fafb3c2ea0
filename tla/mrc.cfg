SPECIFICATION FairSpec
CONSTANTS
  Telnet = {"t1"}
  Web = {"w1"}
  Admins = {"a1", "a2"}
  Casts <- MCCasts
  JoinRequests = {"r1", "r2"}
  FirstLinks <- MCLinks
  FirstAreas = {"general"}
  MaxMishaps = 1
  Rooms = {"lobby", "den"}
  Lobby = "lobby"
  InboxCap = 1
  MaxJoins = 1
  MaxPackets = 1
INVARIANTS ReaderNeverPanics NobodyLeftBehind NewestSettingsWin
INVARIANTS SettingsKept MembersServed
PROPERTIES GhostsOnlyFromSnapshots NobodyWaits RelayCatchesUp
CHECK_DEADLOCK FALSE
