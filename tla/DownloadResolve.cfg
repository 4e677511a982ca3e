SPECIFICATION DownloadSpec
CONSTANTS
    Shards = {1, 2, 3}
    Order <- MCOrder
    Slabs <- MCSlabs
    NoSlab = "none"
    SlabOf <- MCSlabOf
    GroupOf <- MCGroupOf
    Layouts <- MCLayouts
    Target = 2
    Jobs = {}
    Windows = {"resolve"}
    MaxCrashes = 1
CHECK_DEADLOCK FALSE
INVARIANT Restartable
