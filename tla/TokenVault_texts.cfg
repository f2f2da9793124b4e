SPECIFICATION Spec
CONSTANTS
    Blank = Blank
    Keyword = Keyword
    Dot = Dot
    a = a
    b = b
    p = p
    at = at
    Shaped = {at}
    Letters = {a, b, p}
    Phrase <- Announcing
    Scalars <- Numbers
    MaxTokens = 5
    MaxTexts = 2
    Texts <- ShortTexts
    Raws <- GateValues
    Records <- NameRecords
CHECK_DEADLOCK FALSE
INVARIANTS
    NoneLeft
    NothingLost
    RoundTripWhenFlat
