SPECIFICATION FairSpec
CHECK_DEADLOCK FALSE
CONSTANTS
  Backends = {"direct", "networkmanager"}
  Failing = {"kill", "torn", "setup", "broker", "wfd", "interfaces", "resume", "rule", "networkd",
             "blind", "networkd-stop"}
  MaxFaults = 1
INVARIANTS
  TypeOK
  CleanedMeansRestored
  EvidenceKept
  HealthyCastKept
PROPERTIES
  GoneMeansRestored
