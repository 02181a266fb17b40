CONSTANTS
  Loaded = {"a", "b"}
  Dailies <- MCDailies
  Intradays <- MCIntradays
  Sources = {"near", "far"}
  Stored <- MCStored
  Providers <- MCProviders
  Feeds <- MCFeeds
  FirstDay = 1
  RowCount = 2
  RunDays = {2, 4, 5}
  BarsPerDay = 2
  Lookback = 2
  WindowSpan = 24
  OpenIn = "a"
  Spread = 1
  Prices = {2, 3}
  Balance = 10
  Orders <- MCOrders
SPECIFICATION ReplaySpec
INVARIANTS
  NoForesight
  DividendsSettled
  CoverageHonest
CHECK_DEADLOCK FALSE
