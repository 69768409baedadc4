\* Broker and both helpers over both backends, two faults.
SPECIFICATION FairSpec
CHECK_DEADLOCK FALSE
CONSTANTS
  Backends = {"direct", "networkmanager"}
  MaxFaults = 2
INVARIANTS
  TypeOK
  TraceKept
  SuccessMeansReleased
  GroupEnded
PROPERTY
  CleanupEnds
