SPECIFICATION Spec
CONSTANTS
  None = None
  Sessions = {s1, s2}
  Foreign = {x1}
  Procs = {c1, c2}
  CacheIds = {k1, k2}
  MaxCommands = 3
  MaxResults = 1
  MaxUpstream = 1
  MaxPeers = 1
  MaxFaults = 1
SYMMETRY Symmetry
INVARIANTS
  PeerAppendIsAbsorbed
CHECK_DEADLOCK FALSE
