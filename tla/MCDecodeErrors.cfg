SPECIFICATION FairSpec
CONSTANTS
  p = p
  q = q
  x = x
  y = y
  z = z
  Input <- Lines6
  TokensOf <- TwoPools
  IncludeLiveMeta = TRUE
  MaxRuns = 2
PROPERTY FailuresAreAppended
\* the bound on the number of runs is reached
CHECK_DEADLOCK FALSE
