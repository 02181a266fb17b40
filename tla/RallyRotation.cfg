CONSTANTS
  RiskOn <- MCRiskOn
  Defensive = {"bil"}
  Foreign = {"odd"}
  Markets <- MCMarkets
  Books <- MCBooks
  Gross = 12
  Slots = 2
  DefensiveSlots = 1
  EntryRank = 2
  ExitRank = 3
  Delta = 2
  Interval = 2
  Window = 2
  MinDays = 2
  Threshold = 3
  Notional = 1
  Drift = 2
  FirstDay = 3
  MaxDay = 4
SPECIFICATION Spec
INVARIANTS
  SettledBeforeEntry
  GrowthIsPaced
  PlanFundable
CHECK_DEADLOCK FALSE
