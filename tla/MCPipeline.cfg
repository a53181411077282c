SPECIFICATION Spec
CONSTANTS
  a = a
  b = b
  Logs <- FiveLogs
  WindowSeconds = 10
  BatchSize = 2
  RowBatch = 1
  MaxFaults = 3
INVARIANTS FaultsStayLocal PassedWindowsHaveRows
