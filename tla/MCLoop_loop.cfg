SPECIFICATION Spec
CONSTANTS
  g1 = g1
  f1 = f1
  m1 = m1
  m2 = m2
  None = None
  Threshold = 1
  MaxAttempts = 1
  MaxSignatures = 1
  Parallel = 2
  Maintainers <- OneMaintainer
  Gaps = {1}
  Candidates <- Fix
  MaxRows = 1
  MaxOpenPrs = 1
  MinInterval = 1
  Breaker = 1
  MaxSessions = 3
  MaxFaults = 1
INVARIANTS
  TypeOK
  ReviewQueueBounded
  MemoryHoldsNewest
CHECK_DEADLOCK FALSE
