SPECIFICATION Spec
CONSTANTS
    near = near
    close = close
    NoOrder = NoOrder
    NoContract = NoContract
    Names = {near, close}
    Markets <- MCMarkets
    Config <- MCConfig
    Fractions <- MCFractions
    GivenUp <- MCGivenUp
    Conceded <- MCConceded
    Days = 3
    MaxTrades = 2
INVARIANTS
    BidWithinLimits
    PrincipalKept
    OutByDeadline
CHECK_DEADLOCK FALSE
