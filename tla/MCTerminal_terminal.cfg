SPECIFICATION Spec
CONSTANTS
  Keys = {"edit"}
  Roots = {"here"}
  Surfaces = {"repl", "tui"}
  NoSession = NoSession
  MaxTurns = 2
  MaxRequests = 2
  MaxAnswers = 2
PROPERTIES
  PlainAnswersAreSeen
  AbortEndsTurn
  LinesAreHeard
CHECK_DEADLOCK FALSE
