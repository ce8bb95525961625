SPECIFICATION Spec
CONSTANTS
  Names = {n1, n2}
  Emails = {e1, e2}
  Tokens = {t1, t2}
  Requests = {r1, r2, r3}
  TTL = 3
  Keep = 1
  MaxTime = 5
  None = None
SYMMETRY AccountsSymmetry
INVARIANT EndedIsRefused
PROPERTY LastsUntilLogout
CHECK_DEADLOCK FALSE
