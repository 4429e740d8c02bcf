SPECIFICATION FairSpec
CONSTANTS
  r1 = r1
  r2 = r2
  Runs = {r1, r2}
  MaxCalls = 2
  MaxAsked = 2
  MaxCrashes = 1
INVARIANTS
  AskingRunIsServed
  AcceptedAnswerCounts
  RecordsAreTrue
PROPERTIES
  NoGrantAfterAbort
  EveryAskReturns
CHECK_DEADLOCK FALSE
