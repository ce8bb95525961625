SPECIFICATION Spec
CONSTANTS
  Conns = {c1, c2, c3}
  Sessions = {s1, s2}
  None = None
  Overlaps = {"any", "none"}
  MaxEvicts = 1
SYMMETRY Symmetry
INVARIANTS
  ExpiryIsExclusive
  ManagedNotDone
  IdleSessionHasTimer
  ConnectedNotInGrace
CHECK_DEADLOCK FALSE
