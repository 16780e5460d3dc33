SPECIFICATION Spec
CONSTANTS
    Reqs = {r1, r2}
    ApiKeys = {k1}
    LastMonth = 3
    MaxBursts = 3
    MaxLost = 1
    Faults = TRUE
SYMMETRY ReqSymmetry
INVARIANTS NeverOverbilled AnnouncedOnce
