SPECIFICATION Spec
CONSTANTS
  MaxBlock = 3
  Modulus = 1000
  FlagChoices <- FewFlags
  EnvChoices <- Nothing
  FileChoices <- ExampleFile
INVARIANT FetchedLogsSurvive
