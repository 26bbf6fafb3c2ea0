SPECIFICATION FairSpec
CONSTANTS
  up = up
  down = down
  tick = tick
  menu = menu
  call = call
  Msgs = {m1}
  Uplink = up
  Downlinks = {down}
  Actors = {menu, call}
  Kind <- ScanAndServe
  Peer <- ScanAndServePeer
  MaxPkts = 3
  IsHub = TRUE
  MaxFaults = 0
PROPERTIES EventuallyFannedOut
CHECK_DEADLOCK FALSE
