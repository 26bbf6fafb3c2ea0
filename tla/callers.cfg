SPECIFICATION FairSpec
CHECK_DEADLOCK FALSE
CONSTANTS
  Lines = {"h1", "h2"}
  Tokens = {"w1"}
  WebDoors = {"d1", "d2"}
  Holders = {"h1", "h2", "w1", "d1", "d2"}
  Requests = {"r1", "r2", "r3"}
  LogIns = {"r1"}
  Edits = {"e1", "e2"}
  Keepers = {"h1", "h2", "r1", "r2", "r3", "e1", "e2"}
  Listings = {"l1"}
  Versions = {"a", "b", "none"}
  Chunks <- ChunksDef
  Letters = {"x", "y"}
  EditRows = 2
  WrapCol = 2
  MaxLines = 2
  MaxText = 3
  MaxCut = 1
  MaxNode = 3
  MaxPassword = 1
  Casts <- CastsDef
INVARIANTS OwnNode NothingLeft TransferWhole ScreenShows
PROPERTIES CallsEnd AccountSticks TextKept
