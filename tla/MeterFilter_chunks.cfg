SPECIFICATION Spec
CONSTANTS
    Chunks <- TokensAndLines
    MaxChunks = 5
CHECK_DEADLOCK FALSE
INVARIANTS
    PrefixOneLineBehind
    AgreesWithStrip
