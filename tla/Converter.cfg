SPECIFICATION FairSpec
CONSTANTS
    Shards = {1, 2}
    Order <- MCOrder
    Slabs <- MCSlabs
    NoSlab = "none"
    SlabOf <- MCSlabOf
    GroupOf <- MCGroupOf
    Layouts <- MCLayouts
    Target = 2
    Jobs <- MCAny
    Windows = {"first", "seal", "resolve", "shard"}
    MaxCrashes = 2
CHECK_DEADLOCK FALSE
INVARIANTS
    DiskIsSound
    SameAsUninterrupted
PROPERTY Completes
