SPECIFICATION Spec
CONSTANTS
  MaxOutput = 1
  MaxWritten = 3
  TailLimit = 2
  MaxUnits = 4
  Lists = {"a", "b"}
  MaxLines = 3
  MaxScans = 5
  Span = 2
  Warm = 1
  ArchiveSize = 3
  MaxTime = 5
  MaxFails = 2
  MaxLost = 1
INVARIANTS
  AnswerHolds
  OutputKept
  ScanTold
  VerdictHolds
  ArchiveIsPrefix
PROPERTIES
  CommandEnds
CHECK_DEADLOCK FALSE
