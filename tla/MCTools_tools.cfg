SPECIFICATION Spec
CONSTANTS
  s1 = s1
  s2 = s2
  Sessions = {s1, s2}
  Paths <- MCPaths
  Draft <- MCDraft
  PathClass <- MCPathClass
  Lines = {"a", "b"}
  Special = {"b"}
  Asked <- MCAsked
  Present <- MCPresent
  Agents <- MCAgents
  RunModes = {"ask", "plan", "agent"}
  MaxCalls = 2
  MaxOutside = 1
  MaxUnsaved = 1
SYMMETRY Symmetric
INVARIANTS
  BaselinesAreKept
PROPERTIES
  ReadOnlyModesKeepFiles
CHECK_DEADLOCK FALSE
