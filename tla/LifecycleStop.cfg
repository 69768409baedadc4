\* One cast at a time; liveness of stop.
SPECIFICATION FairSpec
CONSTANTS
  p1 = p1
  p2 = p2
  p3 = p3
  NoProc = NoProc
  Proc <- MCProc
  Issues <- IssuesPanel
  MaxSessions = 2
  MaxFaults = 1
PROPERTY
  StopHonoured
