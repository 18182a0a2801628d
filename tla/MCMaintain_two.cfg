SPECIFICATION Spec
CONSTANTS
  p1 = p1
  p2 = p2
  s1 = s1
  None = None
  Clones = {c1, r1}
  Runners = {r1}
  Prs = {p1}
  Issues = {}
  Started <- AllSameDay
  Limit = 1
  MaxHead = 2
  MaxFaults = 0
INVARIANTS
  LedgerIsALifecycle
PROPERTIES
  OriginOnlyGrows
CHECK_DEADLOCK FALSE
