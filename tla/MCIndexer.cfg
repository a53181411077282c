SPECIFICATION FairSpec
CONSTANTS
  BlockOf <- ChainBlocks
  MaxBlock <- LastBlock
  Answers <- OneRepeated
  BatchSize = 2
  Requests <- Mixed
  MaxRetries = 1
  CheckpointEnabled = TRUE
  TornWrites = TRUE
  ClampingNode = FALSE
  MaxRuns = 3
INVARIANTS TypeOK CheckpointedLogsHaveLine DamageIsFirstLine SuccessCoversRequest
  NoRepeatInRun FirstLinesInChainOrder
PROPERTIES WritesAboveCheckpoint RunsEnd
\* the bound on the number of runs is reached
CHECK_DEADLOCK FALSE
