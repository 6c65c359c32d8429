SPECIFICATION FairSpec
CONSTANTS
  Callers = {c1, c2, c3}
  Operations = {"prompt", "continue", "reset", "abort", "wait", "steer", "followUp"}
  MaxCalls = 3
  MaxMessages = 2
  MaxEmits = 1
\* The calls are used up.
CHECK_DEADLOCK FALSE
INVARIANTS
  OneRun
  MessagesAccounted
PROPERTIES
  WaitsForRun
  WaiterReturns
