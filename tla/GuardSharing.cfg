SPECIFICATION Spec
CONSTANTS
  a = a
  b = b
  o = o
  p = p
  Sessions = {a, b}
  Orphans = {o, p}
  GuardLimit = 2
  ClientLimit = 1
  MaxFaults = 1
SYMMETRY Symmetry
INVARIANTS ReclaimAlone HostRestored
PROPERTIES GuardSparesOrphans
CHECK_DEADLOCK FALSE
