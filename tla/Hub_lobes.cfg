SPECIFICATION FairSpec
CONSTANTS
    c1 = c1
    c2 = c2
    c3 = c3
    pa = pa
    s1 = s1
    s2 = s2
    Call = {c1, c2, c3}
    Streams = {c1, c3}
    Pool <- ThreeSlots
    Own <- TwoLobes
    CoolTimes = {0, 2}
    Paces = {0, 1}
    Fastest = TRUE
CHECK_DEADLOCK FALSE
INVARIANTS
    NoSplice
    FailsOnlyWhenAllFailed
PROPERTIES EveryCallEnds
