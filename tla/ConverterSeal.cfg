SPECIFICATION Spec
CONSTANTS
    Shards = {1, 2}
    Order <- MCOrder
    Slabs <- MCSlabs
    NoSlab = "none"
    SlabOf <- MCSlabOf
    GroupOf <- MCGroupOf
    Layouts <- MCLayouts
    Target = 2
    Jobs <- MCAny
    Windows = {"seal"}
    MaxCrashes = 1
CHECK_DEADLOCK FALSE
INVARIANT AlwaysRestarts
