SPECIFICATION FairSpec
CONSTANTS
  Proc = {live}
  Endpoint = {quote, calendar, options}
  Premium = {options}
  NoLimit = NoLimit
  Attempts = 2
  Allowance = 3
  LastDay = 2
  ClaimBound = 4
  MaxCrashes = 0
INVARIANTS
  TypeOK
  CounterIsExact
PROPERTIES
  NeverReprobed
  CallEnds
  ImplementsDailyAllowance
