SPECIFICATION FairDownload
CONSTANTS
    Shards = {1, 2, 3}
    Order <- MCOrder
    Slabs <- MCSlabs
    NoSlab = "none"
    SlabOf <- MCSlabOf
    GroupOf <- MCGroupOf
    Layouts <- MCLayouts
    Target = 2
    Jobs = {}
    Windows = {"first", "seal", "resolve", "verify"}
    MaxCrashes = 2
CHECK_DEADLOCK FALSE
INVARIANTS
    PendingIsHeld
    HoldsNoMore
    DeletedIsWhole
PROPERTIES
    Implements
    Ends
