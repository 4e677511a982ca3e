SPECIFICATION FairSpec
CONSTANTS
    Layers = {0, 1}
    Experts = {0}
    NSlots = 1
    Heap = {h1, h2}
    Bufs = {b1, b2, b3, b4, b5}
    Workers = {}
    Compute = compute
    Pilot = pilot
    SpecCap = 1
    PlCap = 1
    Boost = TRUE
    RssPressure = TRUE
    OneLayer = TRUE
    SpuriousWakes = FALSE
    MaxClock = 2
    MaxGen = 1
    MaxReadFaults = 1
    MaxAllocFaults = 0
    NoSlot = noslot
    NoBuf = nobuf
    NoJob = nojob
    Junk = junk
INVARIANT ViewsStable
PROPERTY ResolveReturns
