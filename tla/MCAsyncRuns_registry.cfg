SPECIFICATION Spec
CONSTANTS
  j1 = j1
  j2 = j2
  Jobs = {j1, j2}
  MaxCompletedRuns = 1
  MaxSaves = 2
  MaxCrashes = 1
INVARIANTS
  ExecutingIsKnown
  AbortReachesRun
  FileIsNotAhead
PROPERTIES
  EndIsFinal
CHECK_DEADLOCK FALSE
SYMMETRY Symmetric
