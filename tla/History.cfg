SPECIFICATION Spec
CONSTANTS
  None = None
  Sessions = {s1}
  Callers = {c1}
  Limits <- SmallLimits
  SampleBatch = 1
  MaxSaves = 1
  MaxPasses = 2
  MaxFaults = 1
INVARIANTS
  TimelyKept
  EndRecorded
  ActiveKept
  DrainedAtExit
  DeletesAnswered
\* The streams, the callers and the program come to their end.
CHECK_DEADLOCK FALSE
