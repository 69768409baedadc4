\* Recovery reads a torn lease while the guard activates the network.
SPECIFICATION Spec
CHECK_DEADLOCK FALSE
CONSTANTS
  Backends = {"direct"}
  Failing = {"torn"}
  MaxFaults = 1
INVARIANTS
  IncompleteIsReported
