SPECIFICATION Spec
CONSTANTS
  None = None
  Sessions = {s1, s2}
  Foreign = {x1}
  Procs = {c1, c2}
  CacheIds = {k1}
  MaxCommands = 3
  MaxResults = 1
  MaxUpstream = 1
  MaxPeers = 1
  MaxFaults = 2
INVARIANTS
  TypeOK
  LedgerIsSound
  PrunedIsArchived
  LiveRunKeepsItsWorkspace
  FreshSource
PROPERTIES
  ArchiveIsPermanent
SYMMETRY Symmetry
CHECK_DEADLOCK FALSE
