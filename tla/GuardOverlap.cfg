SPECIFICATION Spec
CONSTANTS
  a = a
  b = b
  o = o
  p = p
  Sessions = {a, b}
  Orphans = {o, p}
  GuardLimit = 2
  ClientLimit = 1
  MaxFaults = 1
SYMMETRY Symmetry
INVARIANT ExactRestore
CHECK_DEADLOCK FALSE
