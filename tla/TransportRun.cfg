SPECIFICATION FairSpec
CONSTANTS
  Connect = 2
  Capture = 2
  Grace = 2
  Timeouts = {0, 4}
  MaxStep = 2
  MaxTime = 7
  Faults = {"spawn", "lease", "telemetry", "stage", "engine", "unkillable", "sampler", "collector", "drain", "marker"}
INVARIANTS
  StartupBounded
  LossProved
  NoUseAfterClose
  ReturnMeansCleaned
PROPERTIES
  RunEnds
  ContractKept
CHECK_DEADLOCK FALSE
