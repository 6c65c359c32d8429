CONSTANTS
  Handles = {h1, h2}
  Paths = {p1, p2}
  NoPath = NoPath
  MaxEntries = 2
  MaxFaults = 1
SPECIFICATION Spec
SYMMETRY Interchangeable
CHECK_DEADLOCK FALSE
INVARIANTS
  ReopensAsWritten
PROPERTY
  IsSessionLog
