SPECIFICATION Spec
CONSTANTS
  NoCaller = NoCaller
  Callers = {c1, c2, c3}
  Operations = {"prompt", "compact", "move", "navigate", "write", "steer", "followUp", "nextTurn", "abort", "abortAndWait", "wait"}
  MaxCalls = 3
  MaxItems = 3
  MaxTurns = 2
  MaxFailures = 1
SYMMETRY Interchangeable
CHECK_DEADLOCK FALSE
INVARIANTS PhaseOwned QueuedAfterRun NothingSlips
