SPECIFICATION Spec
CONSTANTS
  None = None
  Requests <- OnlyPlain
  Commands = {"Apply", "Revert", "ForceDisarm", "Reset"}
  Events = {}
  Boots = {FALSE}
  MaxSends = 3
  MaxRetired = 0
  MaxEvents = 0
  MaxRetries = 1
INVARIANTS
  IntentOrder
  ResetBarrier
  ProgressOwned
  RecoveryOwned
  NothingStranded
PROPERTIES
  AnsweredByOwnWork
\* The helper may exit, and the inputs are bounded.
CHECK_DEADLOCK FALSE
