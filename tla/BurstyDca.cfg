CONSTANTS
    Rate = 1
    Month = 2
    Prices = {3, 5}
    Dearest = 5
    Convictions = {0, 2}
    MaxConviction = 2
    Willingness = {100, 150}
    Relax = 1
    Multiple = 2
    Slots = {1}
    MaxAccrued = 5
    MaxHeld = 1
    MaxFaults = 1
SPECIFICATION LiveSpec
INVARIANTS
    AccrualExact
    NeverFasterThanEarned
    MonthlyCap
PROPERTY
    EventuallyTrades
