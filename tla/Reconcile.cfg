SPECIFICATION Spec
SYMMETRY Symmetry
CONSTANTS
    o1 = o1
    o2 = o2
    o3 = o3
    o4 = o4
    o5 = o5
    o6 = o6
    o7 = o7
    c1 = c1
    c2 = c2
    This = c1
    That = c2
    NoId = NoId
    OrderIds = {o1, o2, o3, o4, o5, o6, o7}
    Tolerance = 2
    Bids = {100}
    Asks <- AsksThere
    StopPrice = 50
    Contracts = 2
    Accounts <- BothVenues
    FaultKinds = {"crash", "lost answer", "lost cancel", "refusal", "replay", "no quote"}
    MaxFaults = 1
INVARIANTS
    OneOrderPerRole
    EveryOrderRecorded
    BoundedPosition
    Converged
PROPERTY
    Idempotent
CHECK_DEADLOCK TRUE
