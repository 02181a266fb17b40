SPECIFICATION Spec
CONSTANTS
    b1 = b1
    b2 = b2
    l1 = l1
    l2 = l2
    l3 = l3
    w1 = w1
    w2 = w2
    acctA = acctA
    acctB = acctB
    rally = rally
    dca = dca
    daily = daily
    later = later
    Absent = Absent
    NoCron = NoCron
    NoLoop = NoLoop
    Nobody = Nobody
    Main = Main
    Bindings = {b1, b2}
    Loops = {l1, l2, l3}
    Web = {w1, w2}
    Settings <- MCSettings
    Crons = {daily, later}
    Fires <- MCFires
    DefaultStrategy = rally
    FirstId = b1
    DefaultBinding <- Default
    InitialControls <- MCControls
    Grace = 2
    Poll = 2
    MaxRun = 1
    MaxClock = 5
    MaxEdits = 1
    MaxBreaks = 0
    MaxBoots = 1
SYMMETRY Symmetry
INVARIANTS
    OneActiveLoop
    QuietAfterStop
    OncePerFire
    NoMissedFire
CHECK_DEADLOCK FALSE
