SPECIFICATION FairSpec
CHECK_DEADLOCK FALSE
CONSTANTS
  Syncs = {"tap", "job"}
  Caller = "caller"
  Conferences = {1, 2}
  Netmail = 0
  Limit = 1
  Long <- LongDef
  AppReplies = {1, 2, 3, 4}
  RepReplies = {5, 6, 7}
  Refused = {4, 6}
  Skipped = {3, 7}
  MaxMsg = 2
  MaxFaults = 2
  Casts <- CastsDef
INVARIANTS NothingSkipped RepliesOnce
PROPERTIES EventuallyHeard
