SPECIFICATION Spec
CONSTANTS
  Proc = {live, backfill}
  Endpoint = {quote}
  Premium = {}
  NoLimit = NoLimit
  Attempts = 2
  Allowance = 1
  LastDay = 1
  ClaimBound = 2
  MaxCrashes = 1
INVARIANTS
  FilesNeverOverstate
  ParkedAfterTwo
