SPECIFICATION Spec
CONSTANTS
  Modulus <- Width
  AddressBound = 8
  TickBound = 4
  TopicOf <- BuiltinTopics
  Topic0Maps <- Maps
  NoTopic <- EmptyKey
  EmittedLogs <- Logs
  StrayWords <- Stray
INVARIANTS RoundTrip DecodedFits EntriesWin
CHECK_DEADLOCK FALSE
