SPECIFICATION Spec
CONSTANTS
  None = None
  Captures = {c1, c2}
  Pauses = {w1, w2}
  Pollers = {p1, p2}
SYMMETRY Symmetric
CONSTRAINT Apart
INVARIANTS
  TypeOK
  SinkOwed
  TerminalLapses
  BaselineTrue
  SaverOwed
