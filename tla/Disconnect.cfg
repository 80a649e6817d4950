SPECIFICATION Spec
CONSTANTS
  None = None
  Requests <- KeptOrHdr
  Commands = {"Apply", "Revert", "Snapshot", "Stop", "Refresh"}
  Events = {}
  Boots = {FALSE}
  MaxSends = 2
  MaxRetired = 1
  MaxEvents = 0
  MaxRetries = 1
INVARIANTS
  TypeOK
  MutationFence
  RestoreLeased
  DisconnectDecided
PROPERTIES
  ExitKeepsIntent
\* The helper may exit, and the inputs are bounded.
CHECK_DEADLOCK FALSE
