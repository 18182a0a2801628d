SPECIFICATION FairSpec
CONSTANTS
  i1 = i1
  i2 = i2
  None = None
  Targets = {t1, t2}
  Invocations = {i1, i2}
  Plans <- AllModes
  Parallel = 2
  MaxCommands = 1
  Commands <- RunCommands
  Resumes = {FALSE, TRUE}
  Cleans <- NoCleans
INVARIANTS
  LandedIsCommitted
PROPERTIES
  CommandEnds
CHECK_DEADLOCK FALSE
