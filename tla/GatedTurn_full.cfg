SPECIFICATION Spec
CONSTANTS
    t1 = t1
    t2 = t2
    Turn = {t1, t2}
    Streamed = {t1}
    ProxyOn = TRUE
    ProxyCap = 1
    FlipBack = TRUE
    MaxRounds = 1
    CutShort = FALSE
CHECK_DEADLOCK FALSE
INVARIANTS
    VerdictIsOfThisAnswer
    InterruptedNeverCompletes
    UnreplacedDelivered
    StoreIsShownVerdict
