SPECIFICATION ConversationSpec
CONSTANTS
  Scenes <- MCScenes
INVARIANTS
  RequestWellFormed
  SaidToItsModel
  CallbacksPaired
PROPERTIES
  KeptOrSummarised
CHECK_DEADLOCK FALSE
