SPECIFICATION ClientSpec
CONSTANTS
  chop = chop
  plank = plank
  story = story
  typo = typo
  NoEvent = NoEvent
  NoClient = NoClient
  Events <- MCEvents
  UnknownIds = {typo}
  QueueIds = {0}
  Kind <- MCKind
  LoopTime <- MCLoopTime
  Prereq <- MCPrereq
  Cost <- MCCost
  Yield <- MCYield
  Targets <- MCTargets
  Rank <- MCRank
  Deltas = {3}
  InitStock = 1
  MaxLen = 3
  MaxPos = 3
  MaxTicks = 2
  MaxCommands = 2
INVARIANT ClientShowsQueue
CHECK_DEADLOCK FALSE
