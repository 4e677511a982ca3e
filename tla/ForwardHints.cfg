CONSTANTS
    Tokens = {1}
    Cap = 4
    MaxBatch = 3
    MaxFaults = 0
    Attention <- AttentionOfLayers
    Mlp <- MlpOfLayers
    E = 5
    TopK = 2
    Chunks = {2}
    KPool = 2
    Pools = 1
    PilotKs = {6}
    PilotRoom = 7
    Backlog = 0
    MaxHints = 5
    Null = Null
    Stray = Stray
    Embed <- MCEmbed
    In <- MCIn
    Out <- MCOut
    KdaZero = 0
    KdaStep <- MCKdaStep
    KdaRead <- MCKdaRead
    PoolScore <- MCPoolScore
    Attend <- MCAttend
    Gate <- MCGate
    Expert <- MCExpert
    Weighted <- MCWeighted
    Add <- MCAdd
    Unembed <- MCUnembed
SPECIFICATION Spec
INVARIANT ChunkBoundsLive
