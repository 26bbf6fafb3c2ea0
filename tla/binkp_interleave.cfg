SPECIFICATION Spec
CONSTANTS
  CallerFiles = {1}
  AnswererFiles = {3}
  Sizes <- LongSizes
  Settings <- BinkdAnswers
  MaxFaults = 0
  MaxGets = 0
INVARIANTS InterleavedWhole
