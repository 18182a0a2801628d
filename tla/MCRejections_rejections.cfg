SPECIFICATION FairSpec
CONSTANTS
  f1 = f1
  f2 = f2
  l1 = l1
  k1 = k1
  h1 = h1
  a = a
  b = b
  ab = ab
  Texts <- AllTexts
  Printed <- Line
  Blank = Blank
  Star = Star
  None = None
  Cut = Cut
  Torn = Torn
  Procs = {x, y}
  Asks <- SomeAsks
  Keeps = {1}
  MaxTs = 1
  MaxRecords = 3
  MaxEdits = 1
  MaxCrashes = 1
INVARIANTS
  TypeOK
  LossIsBounded
  ProbeFindsRejections
PROPERTIES
  RewriteDropsWhatWasAsked
  CommandsEnd
CHECK_DEADLOCK FALSE
