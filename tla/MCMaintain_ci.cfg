SPECIFICATION FairSpec
CONSTANTS
  p1 = p1
  p2 = p2
  s1 = s1
  None = None
  Clones = {r1}
  Runners = {r1}
  Prs = {p1}
  Issues = {s1}
  Started <- LaterIssue
  Limit = 1
  MaxHead = 1
  MaxFaults = 1
PROPERTIES
  FinishedIsRecorded
CHECK_DEADLOCK FALSE
