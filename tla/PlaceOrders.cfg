CONSTANTS
    Symbols <- MCSymbols
    Plans <- MCPlans
    PricedSets <- MCPricedSets
    Mark <- MCMark
    CashEquivalents <- MCCashEquivalents
    MinTrade = 2
    Threshold = 30
    Buffer = 10
    EquityCap = 12
    Cash = {0, 1, 3, 6}
    Holdings <- MCAccounts
    MaxMoney = 40
    MaxRuns = 1
SPECIFICATION Spec
INVARIANTS
    BatchClears
    ReserveKept
    Settled
    StatusTells
CHECK_DEADLOCK FALSE
