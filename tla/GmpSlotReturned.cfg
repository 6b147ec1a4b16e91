\* A link whose session is destroyed while a frame is in flight.
SPECIFICATION Spec
CONSTANTS
    Links = {l1}
    MaxLinks = 4
    FluxSlots = 2
    TxDepth = 4
    MaxFrames = 2
    Senders = {s1}
INVARIANT LinkSlotReturned
CHECK_DEADLOCK FALSE
