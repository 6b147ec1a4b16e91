\* A retransmitted START after a SACK: ESP_OK without a delivery.
SPECIFICATION Spec
CONSTANTS
    MaxFragments = 3
    MaxRetries = 1
    MaxBatch = 2
    NumStreams = 2
    MaxTransfers = 1
    MaxSends = 1
    MaxRecvs = 1
    Totals = {3}
    Windows = {2}
    Thresholds = {50}
    WireCap = 5
    Faults = TRUE
    Timers = TRUE
    Resets = FALSE
INVARIANT OkMeansDelivered
CHECK_DEADLOCK FALSE
