SPECIFICATION ModelsSpec
CONSTANTS
  NoCredential = NoCredential
  ApiKey = ApiKey
  Free = Free
  Callers = {c1, c2}
  Operations = {"getAuth", "refresh", "login", "logout"}
  MaxCalls = 3
  MaxTokens = 3
SYMMETRY Interchangeable
\* The calls are used up.
CHECK_DEADLOCK FALSE
INVARIANTS NoDoubleRefresh
PROPERTIES OnlyLoginsStore CatalogSaved
