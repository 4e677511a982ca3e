CONSTANTS
    Tokens = {1, 2}
    Cap = 5
    MaxBatch = 3
    MaxFaults = 1
    Attention <- AttentionOfLayers
    Mlp <- MlpOfLayers
    E = 5
    TopK = 2
    Chunks = {2}
    KPool = 2
    Pools = 1
    PilotKs = {0, 1, 6}
    PilotRoom = 7
    Backlog = 1
    MaxHints = 3
    Null = Null
    Stray = Stray
    Embed <- MCEmbed
    In <- MCIn
    Out <- MCOut
    KdaZero = 0
    KdaStep <- MCKdaStep
    KdaRead <- MCKdaRead
    PoolScore <- MCPoolScore
    Attend <- MCAttend
    Gate <- MCGate
    Expert <- MCExpert
    Weighted <- MCWeighted
    Add <- MCAdd
    Unembed <- MCUnembed
SPECIFICATION FewSpec
INVARIANTS RowsAreTheModels ViewsResolved LiveUnionBounded
