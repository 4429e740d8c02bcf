SPECIFICATION Spec
CONSTANTS
  one = one
  two = two
  Shells = {one, two}
  Words <- MCWords
  Lines <- MCLines
  Existing <- MCExisting
  SlashCommands <- MCSlashCommands
  SkillModes <- MCSkillModes
  MaxLines = 3
  MaxWrites = 10
  MaxSessions = 6
SYMMETRY Symmetric
INVARIANTS
  ExplicitModeRuns
  ForksAreOwn
PROPERTIES
  DeletedStaysDeleted
CHECK_DEADLOCK FALSE
