SPECIFICATION Spec
CONSTANTS
  u1 = u1
  u2 = u2
  s1 = s1
  s2 = s2
  s3 = s3
  Users = {u1, u2}
  Sessions = {s1, s2, s3}
  UserOf <- UserOfDef
  NumericIDs = {mine, cave}
  MaxBattles = 2
  None = None
  mine = mine
  cave = cave
SYMMETRY BattleSymmetry
INVARIANTS
  RegisteredRuns
  UnsharedTicked
  SentIsOwned
  BattleKeepsSession
CHECK_DEADLOCK FALSE
