\* A retransmission timer that expires after the last fragment was dispatched.
SPECIFICATION Spec
CONSTANTS
    MaxFragments = 3
    MaxRetries = 1
    MaxBatch = 2
    NumStreams = 2
    MaxTransfers = 1
    MaxSends = 1
    MaxRecvs = 1
    Totals = {1, 3}
    Windows = {2}
    Thresholds = {50}
    WireCap = 3
    Faults = TRUE
    Timers = TRUE
    Resets = FALSE
INVARIANT NeedRetransmitIsServed
CHECK_DEADLOCK FALSE
