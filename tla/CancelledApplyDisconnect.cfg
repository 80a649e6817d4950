SPECIFICATION Spec
CONSTANTS
  None = None
  Requests <- OnlyPlain
  Commands = {"Apply", "Disarm"}
  Events = {}
  Boots = {FALSE}
  MaxSends = 2
  MaxRetired = 1
  MaxEvents = 0
  MaxRetries = 1
INVARIANTS
  DisconnectDecided
\* The helper may exit, and the inputs are bounded.
CHECK_DEADLOCK FALSE
