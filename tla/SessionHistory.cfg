SPECIFICATION Spec
CONSTANTS
  MaxLogs = 2
  MaxSessions = 4
  MaxFaults = 2
INVARIANTS RetentionHolds TelemetryNamed
PROPERTIES OldestLogsGo
CHECK_DEADLOCK FALSE
