SPECIFICATION FairSpec
CONSTANTS
  up = up
  down = down
  tick = tick
  menu = menu
  call = call
  Msgs = {m1, m2}
  Uplink = up
  Downlinks = {down}
  Actors = {tick}
  Kind <- PollOnly
  Peer <- AllUp
  MaxPkts = 5
  IsHub = FALSE
  MaxFaults = 1
INVARIANTS TypeOK NoLoss ExactlyOnce FanoutComplete
PROPERTIES RemovedWasDelivered AtLeastOnce EventuallyDelivered EventuallyFannedOut
