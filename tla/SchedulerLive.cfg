SPECIFICATION FairSpec
CONSTANTS
    b1 = b1
    b2 = b2
    l1 = l1
    l2 = l2
    l3 = l3
    w1 = w1
    w2 = w2
    acctA = acctA
    acctB = acctB
    rally = rally
    dca = dca
    daily = daily
    later = later
    Absent = Absent
    NoCron = NoCron
    NoLoop = NoLoop
    Nobody = Nobody
    Main = Main
    Bindings = {b1, b2}
    Loops = {l1, l2, l3}
    Web = {w1}
    Settings <- MCDeployments
    Crons = {daily, later}
    Fires <- MCFires
    DefaultStrategy = rally
    FirstId = b1
    DefaultBinding <- Default
    InitialControls <- MCControls
    Grace = 2
    Poll = 1
    MaxRun = 1
    MaxClock = 3
    MaxEdits = 1
    MaxBreaks = 1
    MaxBoots = 1
PROPERTIES
    StoppedLoopEnds
    RegistryFollowsControls
CHECK_DEADLOCK FALSE
