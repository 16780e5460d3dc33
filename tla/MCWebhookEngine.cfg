SPECIFICATION FairSpec
CONSTANTS
    Events = {e1, e2}
    Sinks = {slack}
    Operators = {o1}
    HasRedis = TRUE
    Faults = TRUE
    Workers = {w1}
    Buffer = 1
    MaxRetries = 2
INVARIANTS TypeOK NoLetterLost
PROPERTIES EventsSettle StopReturns SettledOnce
CHECK_DEADLOCK FALSE
