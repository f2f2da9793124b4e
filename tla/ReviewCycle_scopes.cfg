SPECIFICATION CycleSpec
CONSTANTS
    Scopes = {"first", "second"}
    Enabled = TRUE
    ContextMemoryEnabled = TRUE
    ClaimsEnabled = TRUE
    SensingEnabled = TRUE
    RoutingEnabled = TRUE
    MaxRounds = 2
    OpsPerRun = 2
    StateTtl = 1
    MemoryTtl = 2
    Cooldown = 1
    MaxTime = 4
    MaxCycles = 3
CHECK_DEADLOCK FALSE
INVARIANTS
    ScopesKeptApart
    FindingsGrounded
    EvidenceWithinBudget
