\* The status a stop before the trigger reaches.
SPECIFICATION Spec
CHECK_DEADLOCK FALSE
CONSTANTS
  Backends = {"direct"}
  Failing = {}
  MaxFaults = 0
INVARIANTS
  AckOnlyTerminal
