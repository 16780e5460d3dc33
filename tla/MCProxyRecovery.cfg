CONSTANTS
    FailureThreshold = 2
    Cooldown = 2
    Keys = {u1}
    Values = {v}
    TTLs = {1}
    Grace = 0
    Interval = 1
    MaxLag = 0
    Reqs = {r1, r2}
    Outcomes = {"failed", "slow", "ok"}
SPECIFICATION FairSpec
INVARIANT ProbeSlotHasOwner
PROPERTIES
    Recovers
    CloseEndsSweeper
