\* A device sends an empty file and one of two blocks. One request waits at a time in
\* each queue, and one thing goes wrong besides timers that expire early.
SPECIFICATION FairSpec
CONSTANTS
    Devices = {a, b}
    Senders = {a}
    Sizes = {0, 2}
    PipeDepth = 2
    QueueLen = 1
    UrgentLen = 1
    MaxTrouble = 1
INVARIANTS TypeOK CompletedIsSaved AckedIsWritten Driven AbortAnswered
PROPERTY TransfersEnd
CHECK_DEADLOCK FALSE
