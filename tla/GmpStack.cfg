\* Two links, one after the other in the only entry, one sending task beside the
\* transmit task, the poll loop and the task that connects and disconnects.
SPECIFICATION FairSpec
CONSTANTS
    Links = {l1, l2}
    MaxLinks = 1
    FluxSlots = 1
    TxDepth = 2
    MaxFrames = 4
    Senders = {s1}
INVARIANTS TypeOK FramesOutliveUse FramesKeepTheirLink FramesAccounted ClosingWaits OpenLinksHooked
PROPERTY EveryFrameEnds
CHECK_DEADLOCK FALSE
