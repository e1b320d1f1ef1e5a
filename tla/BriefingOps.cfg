SPECIFICATION Spec
CONSTANTS
  Run = {r1, r2}
  Ticker = {spy}
  None = None
  MarketDay = FALSE
  OneAtATime = TRUE
SYMMETRY Symmetry
INVARIANTS
  SyntheticNeverInBaseline
  LiveReportCarriesDiagnostics
  RowSpeaksForItsRun
  ManifestComesLast
