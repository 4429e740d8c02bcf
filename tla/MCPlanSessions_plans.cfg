SPECIFICATION FairSpec
CONSTANTS
  p1 = p1
  c2 = c2
  c1 = c1
  Plans = {p1}
  Commands = {c1, c2}
  MaxCrashes = 1
INVARIANTS
  AnswerIsCarriedOut
  LinksAreTrue
PROPERTIES
  KeepsProtocol
  EveryTaskReturns
CHECK_DEADLOCK FALSE
