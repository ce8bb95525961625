SPECIFICATION HubSpec
CONSTANTS
  c1 = c1
  c2 = c2
  Conns = {c1, c2}
  Users = {u}
  Messages = {full, diff, broken}
  Marshals = {full, diff}
  AllowAnonymous = FALSE
  SendBuffer = 1
  MaxSends <- MCMaxSends
  None = None
PROPERTIES
  ClientStreamSpec
  ConnectionEnds
  ShutdownEmpties
CHECK_DEADLOCK FALSE
