SPECIFICATION Spec
CONSTANTS
  Proc = {p1, p2}
  Ticker = {spy, qqq}
  None = None
  Cooldown = 1
  MaxEntries = 2
  LastDay = 2
  FlagBound = 2
SYMMETRY Symmetry
INVARIANTS
  NeverOverstated
  RepeatIsRecent
PROPERTIES
  AcceptedStartsOver
  CountMatchesReport
