SPECIFICATION Spec
CONSTANTS
  None = None
  l1 = l1
  l2 = l2
  k1 = k1
  k2 = k2
  c1 = c1
  c2 = c2
  Launches = {l1, l2}
  Clients = {k1, k2}
  ClientOf <- TwoClients
  Callers = {c1, c2}
  Calls = {"launch", "replace", "client", "revoke"}
  MaxCalls = 2
  Shutdown = TRUE
SYMMETRY SymmetricPairs
INVARIANTS
  TypeOK
  RevokedNotPending
  ShutdownClean
PROPERTIES
  RuntimeKept
\* The calls are bounded, and a server that has shut down stops.
CHECK_DEADLOCK FALSE
