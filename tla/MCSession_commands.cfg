SPECIFICATION Spec
CONSTANTS
  i1 = i1
  i2 = i2
  None = None
  Targets = {t1}
  Invocations = {i1, i2}
  Plans <- AnyPlan
  Parallel = 1
  MaxCommands = 2
  Commands <- AllCommands
  Resumes = {FALSE, TRUE}
  Cleans <- AllCleans
INVARIANTS
  TypeOK
  RunIsGrounded
  OneBuildPerRow
  PublishedOnce
  PrHeadIsFrozen
  FeedbackIsPublished
PROPERTIES
  RunRowsAreEvidence
  RunPrIsEvidence
CHECK_DEADLOCK FALSE
