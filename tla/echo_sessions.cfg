SPECIFICATION Spec
CONSTANTS
  up = up
  down = down
  tick = tick
  menu = menu
  call = call
  Msgs = {m1, m2}
  Uplink = up
  Downlinks = {down}
  Actors = {menu, call, tick}
  Kind <- ScanAndTwoCalls
  Peer <- CallsDown
  MaxPkts = 3
  IsHub = FALSE
  MaxFaults = 1
INVARIANTS MarkedWasPacked OnlyAddressed
CHECK_DEADLOCK FALSE
