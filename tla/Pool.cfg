SPECIFICATION FairSpec
CONSTANTS
    NThreads = 4
    MaxRows = 5
    MaxCalls = 3
    SpuriousWakes = TRUE
CHECK_DEADLOCK FALSE
INVARIANTS
    ReturnsDone
    LanesApart
PROPERTY RunReturns
