\* Two handler threads, three requests, replies of up to one token, a pipe of
\* one line.
SPECIFICATION Spec
CONSTANTS
    Handlers = {h1, h2}
    NoOne = NoOne
    MaxIds = 3
    MaxTok = 1
    Cap = 1
INVARIANT OwnReply
PROPERTIES NobodyWaitsForever EngineEnds
\* The gateway ends.
CHECK_DEADLOCK FALSE
