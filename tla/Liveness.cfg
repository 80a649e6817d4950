SPECIFICATION FairSpec
CONSTANTS
  None = None
  Requests <- OnlyVirtual
  Commands = {"Apply", "Revert"}
  Events = {"arrival"}
  Boots = {FALSE}
  MaxSends = 2
  MaxRetired = 0
  MaxEvents = 1
  MaxRetries = 1
INVARIANTS
  VerificationOwned
PROPERTIES
  ComesToRest
  ApplyAnswered
\* The helper may exit, and the inputs are bounded.
CHECK_DEADLOCK FALSE
