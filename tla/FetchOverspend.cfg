SPECIFICATION Spec
CONSTANTS
  Proc = {live, backfill}
  Endpoint = {quote, calendar, options}
  Premium = {options}
  NoLimit = NoLimit
  Attempts = 2
  Allowance = 2
  LastDay = 0
  ClaimBound = 3
  MaxCrashes = 0
INVARIANTS
  ClaimedWithinAllowance
