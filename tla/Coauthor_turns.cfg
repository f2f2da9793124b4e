SPECIFICATION Spec
CONSTANTS
    Values = {"ssn", "name"}
    Shaped = {"ssn"}
    Missed = {}
    Notes = TRUE
    StrayCalls = {"consult", "handoff"}
    MaxRequests = 2
CHECK_DEADLOCK FALSE
INVARIANTS
    GuardedCallsClean
    AnswersRestored
    CrossChecked
PROPERTIES
    KeptClean
    ResumedByOwner
