CONSTANTS
    Threads <- ThreeThreads
    Instances <- MCInstances
    Handles <- ThreeHandles
    MaxCount = 3
    MaxMishaps = 1
    Session = 4
    NoTable = NoTable
    NoHandle = NoHandle
    Nobody = Nobody
    t1 = t1
    t2 = t2
    t3 = t3
    h1 = h1
    h2 = h2
    h3 = h3
SYMMETRY Symmetry
SPECIFICATION Spec
INVARIANTS
    BatchKeepsConnection
    CursorsStayLive
    NothingLeftOpen
    BarsKept
