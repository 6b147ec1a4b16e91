\* A completion reserved before destroy and dropped by it.
SPECIFICATION Spec
CONSTANTS
    Sessions = {s1, s2}
    Controls = {host}
    Sends = 2
    QueueCap = 2
    EventCap = 16
INVARIANT EverySendTold
CHECK_DEADLOCK FALSE
