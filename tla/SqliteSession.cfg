SPECIFICATION SqlSpec
CONSTANTS
  Callers = {c1, c2}
  MaxEntries = 4
CHECK_DEADLOCK FALSE
INVARIANTS Rooted ReadsSame MirrorsRows
