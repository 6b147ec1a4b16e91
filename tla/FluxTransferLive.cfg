\* Nothing is lost and no timer expires: every transfer must come through.
SPECIFICATION FairSpec
CONSTANTS
    MaxFragments = 3
    MaxRetries = 1
    MaxBatch = 2
    NumStreams = 3
    MaxTransfers = 4
    MaxSends = 2
    MaxRecvs = 2
    Totals = {1, 3}
    Windows = {1, 2, 255}
    Thresholds = {50, 100}
    WireCap = 6
    Faults = FALSE
    Timers = FALSE
    Resets = FALSE
PROPERTY LosslessDelivery
CHECK_DEADLOCK FALSE
