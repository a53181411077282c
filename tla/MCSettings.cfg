SPECIFICATION Spec
CONSTANTS
  MaxBlock = 3
  Modulus = 1000
  FlagChoices <- Quickstart
  EnvChoices <- Elsewhere
  FileChoices <- Elsewhere
INVARIANTS FetchedLogsSurvive ProgressHasRows RecomputeCovers
