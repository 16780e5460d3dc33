CONSTANTS
    ApiKeys = {k1}
    Key = k1
    SoftLimit = 1
    HardLimit = 2
    Window = 2
    MaxTime = 2
    MaxDelay = 1
    Callers = {c1, c2}
    Freezes = {TRUE, FALSE}
    Reqs = {r1, r2}
SPECIFICATION Spec
INVARIANTS
    TypeOK
    WindowBound
    RedisWindowBound
PROPERTIES
    KeepsPromise
    FreezeHonoured
SYMMETRY Symmetry
