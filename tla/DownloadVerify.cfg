SPECIFICATION DownloadSpec
CONSTANTS
    Shards = {1, 2, 3}
    Order <- MCOrder
    Slabs <- MCSlabs
    NoSlab = "none"
    SlabOf <- MCSlabOf
    GroupOf <- MCGroupOf
    Layouts <- MCLayouts
    Target = 2
    Jobs = {}
    Windows = {"verify"}
    MaxCrashes = 1
CHECK_DEADLOCK FALSE
INVARIANT DeletedIsVerified
