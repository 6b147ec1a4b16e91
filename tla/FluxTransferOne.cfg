\* One transfer of up to four fragments, whatever the transport and the timers do; it
\* ends, and is reported.
SPECIFICATION FairSpec
CONSTANTS
    MaxFragments = 4
    MaxRetries = 1
    MaxBatch = 2
    NumStreams = 2
    MaxTransfers = 1
    MaxSends = 2
    MaxRecvs = 1
    Totals = {2, 4}
    Windows = {1, 2, 3, 255}
    Thresholds = {200}
    WireCap = 4
    Faults = TRUE
    Timers = TRUE
    Resets = TRUE
INVARIANTS AckSound WindowRespected CountersAgree OkMeansArrived
PROPERTIES KeepsPromise EverySendReported
CHECK_DEADLOCK FALSE
