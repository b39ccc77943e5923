SPECIFICATION FairSpec
CONSTANTS
  c1 = c1
  c2 = c2
  c3 = c3
  u1 = u1
  u2 = u2
  wsA = wsA
  wsB = wsB
  Clients = {c1, c2, c3}
  Workspaces = {wsA, wsB}
  Principals = {u1, u2}
  Workspace <- MCWorkspace
  Principal <- MCPrincipal
  Declared <- MCDeclared
  MAX_CONNECTIONS_PER_WORKSPACE = 1
  MAX_CONNECTIONS_PER_PRINCIPAL = 1
  MAX_SUBS_PER_CONNECTION = 2
  CloseSeen = TRUE
INVARIANTS
  PlacesCounted
  ClosedForGood
PROPERTIES
  PlacesComeBack
CHECK_DEADLOCK FALSE
