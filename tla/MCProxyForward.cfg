CONSTANTS
    FailureThreshold = 2
    Cooldown = 2
    Keys = {u1}
    Values = {v}
    TTLs = {1}
    Grace = 1
    Interval = 2
    MaxLag = 0
    Reqs = {r1, r2, r3}
    Outcomes = {"failed", "slow", "ok", "other", "abort"}
SPECIFICATION Spec
INVARIANTS
    TypeOK
    ClosedIsHealthy
    ProbeSlotOnlyHalfOpen
    RecoveryProbesBounded
    StalenessBounded
    CutoffShields
PROPERTIES
    OrderlyTransitions
    KeptThroughGrace
    FallbackAvailable
SYMMETRY ReqSymmetry
