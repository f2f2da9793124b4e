SPECIFICATION Spec
CONSTANTS
    Values = {"ssn", "name", "key"}
    Shaped = {"ssn", "key"}
    Missed = {"key"}
    Notes = TRUE
    StrayCalls = {}
    MaxRequests = 1
CHECK_DEADLOCK FALSE
INVARIANTS PrivateStaysLocal
