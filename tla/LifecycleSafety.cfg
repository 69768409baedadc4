\* Three process slots, two sessions, one fault.
SPECIFICATION Spec
CONSTANTS
  p1 = p1
  p2 = p2
  p3 = p3
  NoProc = NoProc
  Proc <- MCProc
  Issues <- IssuesMixed
  MaxSessions = 2
  MaxFaults = 1
INVARIANTS
  OrphanOnlyByFault
  NoForeignStop
  OwnerLostIsOver
  RecoveryNeverStuck
PROPERTY
  ContractKept
