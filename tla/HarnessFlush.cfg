SPECIFICATION FairSpec
CONSTANTS
  NoCaller = NoCaller
  Callers = {c1, c2}
  Operations = {"prompt", "write"}
  MaxCalls = 2
  MaxItems = 2
  MaxTurns = 3
  MaxFailures = 1
CHECK_DEADLOCK FALSE
PROPERTY FlushReturns
