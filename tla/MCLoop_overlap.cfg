SPECIFICATION FairSpec
CONSTANTS
  g1 = g1
  f1 = f1
  m1 = m1
  m2 = m2
  None = None
  Threshold = 1
  MaxAttempts = 1
  MaxSignatures = 1
  Parallel = 1
  Maintainers <- TwoMaintainers
  Gaps = {0, 1}
  Candidates <- Fix
  MaxRows = 1
  MaxOpenPrs = 1
  MinInterval = 1
  Breaker = 0
  MaxSessions = 3
  MaxFaults = 2
INVARIANTS
  NeverRepeatsKnownWork
  FinalWordStands
  GivesUpAfterThreshold
PROPERTIES
  StartsAgain
CHECK_DEADLOCK FALSE
