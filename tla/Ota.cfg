\* Two uploads of an image of two chunks; the link is torn down, lost and made
\* again. The ring buffer and the receive queue hold one chunk each.
SPECIFICATION Spec
CONSTANTS
    Chunks = 2
    RingSlots = 1
    HoldSlots = 2
    QueueDepth = 1
    PipeDepth = 2
    BusyRetries = 1
    MaxUploads = 2
    MaxLinks = 2
    MaxStale = 0
INVARIANTS TypeOK BootsWhole AbortedNeverBoots CompletedBoots AcceptedIsKept StreamContiguous IdleHoldsNothing FinishAnsweredOnce
PROPERTIES FinishAnswered TeardownReturns
CHECK_DEADLOCK FALSE
