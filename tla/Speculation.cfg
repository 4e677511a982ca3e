SPECIFICATION Spec
CONSTANTS
    Tokens = {0, 1, 2}
    Eos = 2
    Dead = 0
    Torn <- MCTorn
    OwnHidden <- MCOwn
    Prompts <- MCPrompts
    Depths = {1, 3}
    MaxTokens = 4
    MaxFaults = 1
INVARIANTS
    RollbackExact
    TruePairs
    WholeText
PROPERTY SameAsOneByOne
