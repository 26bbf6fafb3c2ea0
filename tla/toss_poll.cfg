SPECIFICATION FairSpec
CONSTANTS
  echo = echo
  ping = ping
  stray = stray
  Msgs = {echo, ping, stray}
  Pkts = {1, 2}
  Content <- MCContent
  Confs = {"netmail", "general"}
  Netmail = "netmail"
  Nowhere = "nowhere"
  Echomail = {echo, stray}
  Conf <- MCConf
  WithId = {echo, ping}
  Robots = {ping}
  Actors = {tick}
  Local = Local
  MaxLocal = 2
  MaxFaults = 2
  MaxDbErrors = 2
  MaxEvents = 2
INVARIANTS TypeOK ImportedOnce  
PROPERTIES EventuallyTossed
