\* Requests of one session and of none, two of them at once. A task that is over
\* takes no step.
CONSTANTS
  Requests = {1, 2, 3}
  Sessions = {"s"}
  Plans <- SmallPlans
  MaxItems = 1
  MaxAge = 2
  IdleTtl = 1
  MaxRetries = 1
  MaxRunning = 2
  MaxEvents = 2
SPECIFICATION FairSpec
CHECK_DEADLOCK FALSE
INVARIANTS
  WholeContext
  OneReplyShown
PROPERTIES
  SocketsKept
  RequestsEnd
