SPECIFICATION FairSpec
CONSTANTS
  CallerFiles = {1}
  AnswererFiles = {3, 4}
  Sizes <- MCSizes
  Settings <- MCSettings
  MaxFaults = 1
  MaxGets = 1
INVARIANTS TypeOK RemovedWasTaken NothingResent
PROPERTIES SessionEnds EventuallyExchanged
CHECK_DEADLOCK FALSE
