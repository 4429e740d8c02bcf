SPECIFICATION CallsSpec
CONSTANTS
  MaxAttempts = 2
  RequestKinds <- MCKinds
  MaxToolCalls = 2
  MaxParts = 2
  MaxWindow = 4
  MaxRequests = 2
INVARIANTS
  PayloadIsWellFormed
PROPERTIES
  StreamsAreReassembled
  EveryFetchEnds
CHECK_DEADLOCK FALSE
