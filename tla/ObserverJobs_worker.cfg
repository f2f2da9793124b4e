SPECIFICATION FairSpec
CONSTANTS
    j1 = j1
    j2 = j2
    j3 = j3
    r1 = r1
    w1 = w1
    w2 = w2
    Run = {r1}
    Job <- ThreeJobs
    Worker = {w1, w2}
    RunOf <- OneRunOf
    ObservedAt <- OneRunObservedAt
    RowId <- OneRunRowId
    MaxAttempts = 2
    Slots = 1
    MoveLimit = 2
    MemoryEnabled = TRUE
    MaxFaults = 1
INVARIANTS
    Serialized
    PrevFresh
    LedgerOrdered
    MemoryOfLastReview
    DoneAccounted
PROPERTIES
    ImplementsLedger
    EventuallySettled
