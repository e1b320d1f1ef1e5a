SPECIFICATION Spec
CONSTANTS
  Endpoint <- MCEndpoint
  Allowance = 2
  NoLimit = NoLimit
  LastDay = 0
  Path = {"cik", "list", "one", "later"}
  Registry <- MCRegistry
  Orders <- MCOrders
  Tickers = "tickers"
  Submissions = "submissions"
  Cik = "cik"
  Filings = {"one", "later"}
  Suffix = {"xlsx", "pdf"}
  Bodies <- MCBodies
  Code = {403, 404}
  None = None
  Torn = Torn
  MaxRuns = 2
  MaxDisturbances = 1
INVARIANTS
  OnlyDataIsCached
  OkCanBeReplayed
  NoFailureHidden
CHECK_DEADLOCK FALSE
