SPECIFICATION Spec
CONSTANTS
  BaseMaxSteps = 3
  Modes = {"agent"}
  MaxBatch = 2
  MaxRuns = 2
  MaxCrashes = 1
  MaxFaults = 0
  ClosingTools = TRUE
INVARIANTS
  OnlyKnownRejections
  NoWorkAfterTheEnd
  KernelIsDurable
  BudgetBound
  LoopBodyEntered
CHECK_DEADLOCK FALSE
