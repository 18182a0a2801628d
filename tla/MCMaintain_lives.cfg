SPECIFICATION Spec
CONSTANTS
  p1 = p1
  p2 = p2
  s1 = s1
  None = None
  Clones = {c1}
  Runners = {}
  Prs = {p1}
  Issues = {}
  Started <- AllSameDay
  Limit = 2
  MaxHead = 2
  MaxFaults = 1
INVARIANTS
  TypeOK
  ProjectionIsTheLoop
PROPERTIES
  LedgerTellsLives
CHECK_DEADLOCK FALSE
