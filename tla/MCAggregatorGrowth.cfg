SPECIFICATION Spec
CONSTANTS
  a = a
  Feed <- OneWindow
  NoMeta <- AllHaveMeta
  WindowSeconds = 10
  Cuts <- Growing
  RecomputeChoices <- NoRecompute
  BatchSize = 2
  MaxRuns = 2
PROPERTY UpsertsIdempotent
\* the bound on the number of runs is reached
CHECK_DEADLOCK FALSE
