SPECIFICATION FairSpec
CONSTANTS
    c1 = c1
    c2 = c2
    Caller = {c1, c2}
    Sizes = {1, 3}
    Response <- Responses
    Usages = {1}
    Rpm = 0
    Tpm = 210
    Rpd = 2
    Window = 2
    Day = 2
    MaxWait = 1
    MaxLoops = 2
    GrowAfter = 1
    MinRpm = 200
    MinTpm = 200
    MaxBackoff = 2
    DefaultReset = 2
    MaxEntries = 2
INVARIANTS
    WindowsConsistent
    QueueMatches
    BudgetWithinCeiling
    EstimateIsReadiness
PROPERTIES
    AdmittedWithinBudget
    EveryCallerLeaves
