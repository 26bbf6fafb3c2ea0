SPECIFICATION Spec
CONSTANTS
  echo = echo
  ping = ping
  stray = stray
  Msgs = {echo, ping, stray}
  Pkts = {1, 2}
  Content <- MCContent
  Confs = {"netmail", "general"}
  Netmail = "netmail"
  Nowhere = "nowhere"
  Echomail = {echo, stray}
  Conf <- MCConf
  WithId = {echo, ping}
  Robots = {ping}
  Actors = {tick}
  Local = Local
  MaxLocal = 1
  MaxFaults = 1
  MaxDbErrors = 0
  MaxEvents = 1
INVARIANTS AckedKept
