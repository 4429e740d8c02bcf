SPECIFICATION Spec
CONSTANTS
  Retained = 3
  DefaultRetained = 2
  Threshold = 5
  MaxCalls = 2
  MaxMessages = 7
  MaxRuns = 3
  MaxFaults = 1
  MaxCrashes = 1
INVARIANTS
  LogHasNoHoles
  WindowIsInOrder
PROPERTIES
  RunForgetsNothing
CHECK_DEADLOCK FALSE
