SPECIFICATION FairSpec
CONSTANTS
  chop = chop
  plank = plank
  story = story
  still = still
  typo = typo
  NoEvent = NoEvent
  Events <- MCEvents
  UnknownIds = {typo}
  QueueIds = {0, 1}
  Kind <- MCKind
  LoopTime <- MCLoopTime
  Prereq <- MCPrereq
  Cost <- MCCost
  Yield <- MCYield
  Targets <- MCTargets
  Deltas = {3}
  InitStock = 2
  MaxLen = 2
  MaxPos = 3
  MaxTicks = 2
  MaxCommands = 2
INVARIANTS
  TypeOK
  GateRespected
  RoundDurable
  TableMatchesQueue
  StockLedger
PROPERTIES
  FastPathLosesNoTime
  SettleTerminates
