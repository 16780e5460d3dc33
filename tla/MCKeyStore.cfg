SPECIFICATION FairSpec
CONSTANTS
    Gateways = {g1, g2}
    Reqs = {r1, r2}
    Kills = {k1}
    HasRedis = TRUE
    HasDB = TRUE
    Seeded = FALSE
    ById = FALSE
    Faults = TRUE
    MarkerTTL = 1
INVARIANTS TypeOK KillHolds
PROPERTY LookupsEnd
