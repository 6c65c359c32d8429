\* The stream of each adapter. A task that is over takes no step.
CONSTANTS
  Apis = {"anthropic", "completions", "responses", "google", "mistral",
          "bedrock", "piMessages", "proxy"}
  MaxItems = 3
  MaxFragments = 2
  MaxRetries = 1
  Wrapped = FALSE
SPECIFICATION FairSpec
CHECK_DEADLOCK FALSE
INVARIANTS
  MessageTold
  CutIsNoReply
PROPERTIES
  IsAssistantStream
  ResultComes
