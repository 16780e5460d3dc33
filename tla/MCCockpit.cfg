SPECIFICATION FairSpec
CONSTANTS
    Remotes = {r1}
    Embedded = e
    JitterDefault = "on"
    MaxPresses = 3
    MaxMoves = 1
    MaxLate = 1
INVARIANTS
    TwoStep
PROPERTY ViewSettles
