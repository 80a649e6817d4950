SPECIFICATION Spec
CONSTANTS
  None = None
  Requests <- OnlyExtended
  Commands = {"Apply", "Disarm"}
  Events = {"generic"}
  Boots = {TRUE, FALSE}
  MaxSends = 2
  MaxRetired = 1
  MaxEvents = 1
  MaxRetries = 0
INVARIANTS
  ChangedDesktopLeased
  TaskRemembered
  SessionWatched
  AnsweredOnce
PROPERTIES
  RetiresReleased
\* The helper may exit, and the inputs are bounded.
CHECK_DEADLOCK FALSE
