\* One ticker whose latest FINRA session is not out yet.
SPECIFICATION Spec
CHECK_DEADLOCK FALSE
CONSTANTS
  k1 = k1
  k2 = k2
  Ticker = {k1, k2}
  Provider <- MCProvider
  None = None
  Configs <- MCConfigs
  Pages = 2
  Sessions = 2
  Filings = 1
  Series = 2
INVARIANT RoutineRunSucceeds
