SPECIFICATION FairSpec
CONSTANTS
  MaxTurns = 2
  MaxCalls = 2
  MaxUserMessages = 3
  Rewrites <- SmallRewrites
  Histories <- SmallHistories
\* A finished run takes no step.
CHECK_DEADLOCK FALSE
INVARIANTS
  RequestShowsTranscript
  ToolCallsAnswered
  MessagesKept
PROPERTIES
  RunEnds
