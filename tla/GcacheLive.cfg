SPECIFICATION FairSpec
CONSTANTS
    Layers = {0}
    Experts = {0}
    NSlots = 2
    Heap = {h1, h2, h3}
    Bufs = {b1, b2, b3, b4, b5}
    Workers = {w1, w2}
    Compute = compute
    Pilot = pilot
    SpecCap = 1
    PlCap = 1
    Boost = FALSE
    RssPressure = TRUE
    OneLayer = TRUE
    SpuriousWakes = TRUE
    MaxClock = 3
    MaxGen = 2
    MaxReadFaults = 1
    MaxAllocFaults = 1
    NoSlot = noslot
    NoBuf = nobuf
    NoJob = nojob
    Junk = junk
PROPERTIES
    ResolveReturns
    CloseReturns
    NoDuplicateLoad
