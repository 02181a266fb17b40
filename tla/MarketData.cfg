CONSTANTS
  c1 = c1
  c2 = c2
  Callers = {c1, c2}
  Symbols = {"a", "b"}
  Requests <- MCRequests
  QuoteOrder <- MCQuoteOrder
  BarOrder <- MCBarOrder
  NewsOrder <- MCNewsOrder
  Usable = {"finnhub", "alpaca"}
  BarsOff = {"yfinance"}
  Metered = {"finnhub"}
  Quoting = {"finnhub", "alpaca"}
  Grids <- MCGrids
  SessionBars = 4
  QuoteTTL = 1
  NewsTTL = 1
  LimitFor = 1
  FreshBars = 1
  FreshDays = 1
  Lookback = 5
  Reach = 8
  Depths = {2, 6}
  Times = {9, 15}
  MaxRequests = 2
SYMMETRY Threads
SPECIFICATION MarketSpec
INVARIANTS
  EveryProviderInTurn
PROPERTIES
  WindowCompleted
CHECK_DEADLOCK FALSE
