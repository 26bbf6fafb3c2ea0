SPECIFICATION Spec
CONSTANTS
  up = up
  down = down
  tick = tick
  menu = menu
  call = call
  Msgs = {m1}
  Uplink = up
  Downlinks = {}
  Actors = {tick, menu}
  Kind <- PollAndScan
  Peer <- AllUp
  MaxPkts = 3
  IsHub = FALSE
  MaxFaults = 0
INVARIANTS NoLoss
