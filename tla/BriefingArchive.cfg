SPECIFICATION Spec
CONSTANTS
  Run = {r1, r2}
  Ticker = {spy}
  None = None
  MarketDay = TRUE
  OneAtATime = TRUE
SYMMETRY Symmetry
INVARIANTS
  ArchiveHoldsItsRun
