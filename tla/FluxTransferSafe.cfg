\* Two transfers at once, with two slots on each side and every kind of trouble.
SPECIFICATION Spec
CONSTANTS
    MaxFragments = 3
    MaxRetries = 1
    MaxBatch = 2
    NumStreams = 2
    MaxTransfers = 2
    MaxSends = 2
    MaxRecvs = 2
    Totals = {1, 3}
    Windows = {2}
    Thresholds = {200}
    WireCap = 3
    Faults = TRUE
    Timers = TRUE
    Resets = TRUE
INVARIANTS TypeOK DeliveredIntact AtMostOnce
PROPERTY OldestFirst
CHECK_DEADLOCK FALSE
