SPECIFICATION Spec
CONSTANTS
  None = None
  l1 = l1
  l2 = l2
  k1 = k1
  k2 = k2
  c1 = c1
  c2 = c2
  Launches = {l1, l2}
  Clients = {k1, k2}
  ClientOf <- OneClient
  Callers = {c1}
  Calls = {"launch", "replace"}
  MaxCalls = 2
  Shutdown = FALSE
INVARIANTS
  NoCircularWait
\* The calls are bounded, and a server that has shut down stops.
CHECK_DEADLOCK FALSE
