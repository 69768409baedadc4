SPECIFICATION Spec
CONSTANTS
  Digits3 = {0, 5, 9}
  MaxDevices = 2
  MaxDiagnostics = 2
  MaxPeers = 3
  MaxReceivers = 3
  HeadSize = 3
  Limit = 16
INVARIANTS
  TyposDetected
  HostTold
  ReceiversTold
  ContractAgrees
  RecordsWhole
  WfdInOrder
CHECK_DEADLOCK FALSE
