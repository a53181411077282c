SPECIFICATION FairSpec
CONSTANTS
  a = a
  b = b
  c = c
  Feed <- Events8
  NoMeta <- LacksMeta
  WindowSeconds = 10
  Cuts <- WholeWindows
  RecomputeChoices <- WindowBoundaries
  BatchSize = 2
  MaxRuns = 3
INVARIANTS RowsExact StateIsSafe SuccessIsComplete RowsHavePool
PROPERTIES IsWindowTable RunDelivers
\* the bound on the number of runs is reached
CHECK_DEADLOCK FALSE
