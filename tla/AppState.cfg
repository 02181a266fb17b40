CONSTANTS
  t1 = t1
  t2 = t2
  Threads <- MCThreads
  Bindings = {"x", "y"}
  AccountOf <- MCAccountOf
  Requests <- MCRequests
  JournalLimit = 2
  ConfigToken = 0
  MaxFills = 1
  MaxOps = 3
  MaxConfigs = 1
  MaxTokens = 2
SPECIFICATION Spec
SYMMETRY Symmetry
INVARIANTS
  SerialState
  CacheAnswersItsKey
  NextSessionWorks
CHECK_DEADLOCK FALSE
