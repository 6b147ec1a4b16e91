\* All stream ids are used once and come round again.
SPECIFICATION Spec
CONSTANTS
    MaxFragments = 2
    MaxRetries = 1
    MaxBatch = 2
    NumStreams = 8
    MaxTransfers = 9
    MaxSends = 1
    MaxRecvs = 1
    Totals = {2}
    Windows = {255}
    Thresholds = {50}
    WireCap = 2
    Faults = TRUE
    Timers = TRUE
    Resets = TRUE
INVARIANT DeliveredIntact
CHECK_DEADLOCK FALSE
