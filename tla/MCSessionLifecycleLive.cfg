SPECIFICATION FairSpec
CONSTANTS
  Conns = {c1, c2}
  Sessions = {s1, s2}
  None = None
  Overlaps = {"any"}
  MaxEvicts = 2
PROPERTIES
  SessionFreed
  ConnectReturns
CHECK_DEADLOCK FALSE
