SPECIFICATION QueueSpec
CONSTANTS
    Events = {e1, e2}
    Sinks = {slack}
    Operators = {o1, o2}
    HasRedis = TRUE
    Faults = FALSE
PROPERTY ClearedStaysCleared
