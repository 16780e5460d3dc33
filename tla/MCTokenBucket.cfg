CONSTANTS
    ApiKeys = {k1}
    Calls = {c1, c2}
    Limits <- Pairs
    Window = 2
    MaxTime = 4
SPECIFICATION FairSpec
INVARIANT RateBound
PROPERTIES
    CountInZone
    ChecksEnd
