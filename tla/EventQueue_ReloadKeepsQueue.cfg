SPECIFICATION Spec
CONSTANTS
  chop = chop
  plank = plank
  story = story
  still = still
  typo = typo
  NoEvent = NoEvent
  Events <- MCEvents
  UnknownIds = {typo}
  QueueIds = {0}
  Kind <- MCKind
  LoopTime <- MCLoopTime
  Prereq <- MCPrereq
  Cost <- MCCost
  Yield <- MCYield
  Targets <- MCTargets
  Deltas = {1}
  InitStock = 2
  MaxLen = 3
  MaxPos = 3
  MaxTicks = 2
  MaxCommands = 2
PROPERTY ReloadKeepsQueue
