SPECIFICATION Spec
CONSTANTS
  Path = {"root", "feed", "data", "observations", "release_dates", "results"}
  Absent = Absent
  Unreadable = Unreadable
  Rejected = Rejected
  Configs <- MCConfigs
  Schedules <- MCSchedules
  Values <- MCValues
  Filings <- MCFilings
  Opinions <- MCOpinions
  Stories <- MCStories
  Disclosures <- MCDisclosures
  Attention <- MCAttention
  Lag = 1
  MacroAge = 3
  MinHistory = 3
  InsiderWindow = 1
  ValueScale = 5
  SignalAge = 0
  Baseline = 3
  PoliticalWindow = 3
  DisclosureLag = 2
  Spot = 100
  MaxFilings = 2
  MaxRows = 1
  MaxItems = 3
INVARIANTS
  NeverYoungerThanItsRelease
  CurrentPrintScores
  SentimentRestsOnAnalysts
  InsidersAgree
CHECK_DEADLOCK FALSE
