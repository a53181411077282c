SPECIFICATION Spec
CONSTANTS
  MaxHead = 4
  MaxReorgs = 2
  MaxRuns = 3
  Depth = 2
  BatchSize = 2
  Requests <- LatestAndFixed
  LogsOf <- FourBlocks
  TimeOf <- AllDiffer
INVARIANTS OneBlockOneTime FinalLinesExact SettledBlocksComplete
\* the bounds on the chain and on the number of processes are reached
CHECK_DEADLOCK FALSE
