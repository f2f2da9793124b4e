SPECIFICATION Spec
CONSTANTS
    None = None
    Agent = {"ann", "bob"}
    Earlier <- MCEarlier
    Recent = 2
    Relevant = 1
    Room = 6
    Reserve = 2
    Overhead = 1
    Floor = 2
    PageSize = 2
    r1 = r1
    r2 = r2
    i1 = i1
    i2 = i2
    Request = {r1, r2}
    Asks <- MCAsks
    Ingest = {i1, i2}
    KeyOf <- SameKey
    EventRun = "x"
    EarlierHits <- MCEarlierHits
    RpmLimit = 2
    TpmLimit = 3
    Window = 1
    MaxTime = 1
    MaxCrashes = 1
SYMMETRY Symmetry
CONSTRAINT Focus
CHECK_DEADLOCK FALSE
INVARIANTS SuppressedRemembered
