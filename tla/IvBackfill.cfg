SPECIFICATION Spec
CHECK_DEADLOCK FALSE
CONSTANTS
  Runs = {r1}
  Pairs = 4
  Endpoint = {options}
  Allowance = 7
  NoLimit = NoLimit
  LastDay = 0
  LiveReserve = 4
  RerunReserve = 1
  MaxRequests = NoCap
  NoCap = NoCap
  Attempts = 2
  Backfills = 2
INVARIANTS
  TypeOK
  WaitsForARun
  StarvedOnlyByFailures
  DrySpellBounded
  SucceededIsComplete
