SPECIFICATION FairSpec
CONSTANTS
  f1 = f1
  f2 = f2
  g1 = g1
  g2 = g2
  None = None
  Families = {f1, f2}
  Signatures = {g1, g2}
  Analyses <- TwoFindings
  Parallel = 1
  MaxCommands = 2
  MaxRuns = 2
  MaxFaults = 1
INVARIANTS
  TypeOK
  RunIdIsOwn
  PlanIsSound
  ValidateAgreesWithMerge
  PlanIsOfOneBaseline
PROPERTIES
  CommandEnds
CHECK_DEADLOCK FALSE
