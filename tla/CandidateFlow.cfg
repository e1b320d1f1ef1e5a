\* One candidate from the gate to the report; it ends there.
SPECIFICATION Spec
CHECK_DEADLOCK FALSE
CONSTANTS
  Candidates <- MCCandidates
  Settings <- MCSettings
  Pulls <- MCPulls
INVARIANTS
  TypeOK
  FixtureNeverTradeable
  EstimatedNeverTradeable
  OneTier
  WeakerEvidenceKeepsTier
  OneSidedVolatility
  TradeableIsGrounded
