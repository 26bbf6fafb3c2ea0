SPECIFICATION FairSpec
CHECK_DEADLOCK FALSE
CONSTANTS
  Peers = {"u", "d3", "d30"}
  Lookalike <- LookalikeDef
  MaxCopies = 2
  Casts <- CastsDef
  Mails = {1, 2, 3, 4}
  To <- ToDef
  CrashMail = {2}
  Pollers = {"p1", "p2"}
  Items = {"f"}
  Scanners = {"a1", "a2"}
INVARIANT NothingAstray
PROPERTY EventuallyThere
