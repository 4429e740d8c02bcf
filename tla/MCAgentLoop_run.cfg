SPECIFICATION FairSpec
CONSTANTS
  BaseMaxSteps = 3
  Modes = {"ask", "agent"}
  MaxBatch = 1
  MaxRuns = 1
  MaxCrashes = 0
  MaxFaults = 1
  ClosingTools = FALSE
INVARIANTS
  OutcomeIsAgreed
  EditsAreVerified
PROPERTIES
  RunEnds
CHECK_DEADLOCK FALSE
