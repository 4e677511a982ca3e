SPECIFICATION Spec
CONSTANTS
    Layers = {0}
    Experts = {0, 1}
    NSlots = 2
    Heap = {h1, h2}
    Bufs = {b1, b2, b3, b4, b5, b6}
    Workers = {w1}
    Compute = compute
    Pilot = pilot
    SpecCap = 1
    PlCap = 1
    Boost = TRUE
    RssPressure = TRUE
    OneLayer = TRUE
    SpuriousWakes = FALSE
    MaxClock = 3
    MaxGen = 2
    MaxReadFaults = 0
    MaxAllocFaults = 0
    NoSlot = noslot
    NoBuf = nobuf
    NoJob = nojob
    Junk = junk
INVARIANT Dedupes
