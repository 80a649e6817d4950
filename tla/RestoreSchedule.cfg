CONSTANTS
  PrimaryWindow = 12
  EventWindow = 5
  Backoff <- MCBackoff
  Grace = 2
  Quiet = 1

SPECIFICATION Spec

INVARIANTS
  AttemptsFitWindow

PROPERTIES
  RetryHappens
