SPECIFICATION FairSpec
CONSTANTS
  NPlayers = 2
  Kinds = {"pig", "ox"}
  Loop <- LoopDef
  Combos <- CombosDef
  Interval = 3
  Attack = 2
  Delta = 2
  Heartbeat = 100
  PlayerHP = 2
  EnemyHP = 2
  MaxMP = 1
  HPRecovery = 0
  MPRecovery = 1
  Outcomes <- OutcomesDef
  Skills = {"basic", "guard"}
  Basic = "basic"
  Skill <- SkillDef
  PlayerPlan <- PlayerPlanDef
  EnemyPlan <- EnemyPlanDef
  MaxTime = 12
  Nil = Nil
INVARIANTS
  DownedHasTimer
  WaveScheduled
  WipeReported
  ShownIsTrue
PROPERTIES
  TickReturns
  CycleSpec
CHECK_DEADLOCK FALSE
