SPECIFICATION Spec
CONSTANTS
    Layers = {0}
    Experts = {0}
    NSlots = 1
    Heap = {h1, h2, h3}
    Bufs = {b1, b2, b3, b4, b5}
    Workers = {w1, w2}
    Compute = compute
    Pilot = pilot
    SpecCap = 1
    PlCap = 1
    Boost = TRUE
    RssPressure = FALSE
    OneLayer = TRUE
    SpuriousWakes = FALSE
    MaxClock = 2
    MaxGen = 2
    MaxReadFaults = 1
    MaxAllocFaults = 0
    NoSlot = noslot
    NoBuf = nobuf
    NoJob = nojob
    Junk = junk
PROPERTIES
    SpecFaultIsRetried
