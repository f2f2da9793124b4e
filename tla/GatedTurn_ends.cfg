SPECIFICATION FairSpec
CONSTANTS
    t1 = t1
    t2 = t2
    Turn = {t1}
    Streamed = {t1}
    ProxyOn = TRUE
    ProxyCap = 0
    FlipBack = TRUE
    MaxRounds = 2
    CutShort = TRUE
CHECK_DEADLOCK FALSE
PROPERTIES EveryTurnEnds
