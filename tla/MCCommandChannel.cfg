SPECIFICATION FairSpec
CONSTANTS
  Commands = {c1, c2, c3}
  Capacity = 2
INVARIANTS
  AnswersFit
  AnsweredWasRun
PROPERTY CommandReturns
CHECK_DEADLOCK FALSE
