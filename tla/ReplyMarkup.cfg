\* Malformed markup of an argument is passed over.
SPECIFICATION AlgorithmsSpec
CONSTANTS
    P = 5
    D = 2
    K = 3
    C = 3
    W <- ConvWeights
    Inputs <- TokenRows
    MaxTokens = 4
    MaxDepth = 2
    MaxText = 7
    Chars = {"a", "s", "'", "!", "1", " ", "nl", "tab", "E", "r", "e", "l"}
    MB = 5
    EB = 3
    HB = 2
    LB = 3
    Chunk = 2
    Vec = 2
    Group = 3
    Block = 16
    L = 2
    E = 2
    DsaLayers = {1}
    Sparse = {1}
    Pieces <- TokenPieces
    MaxStops = 2
INVARIANT MalformedMarkupIsContent
\* Inputs end.
CHECK_DEADLOCK FALSE
