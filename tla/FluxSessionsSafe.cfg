\* Two sessions created and destroyed by one task, next to the transmit task.
SPECIFICATION FairSpec
CONSTANTS
    Sessions = {s1, s2}
    Controls = {host}
    Sends = 2
    QueueCap = 2
    EventCap = 3
INVARIANTS TypeOK NoUseAfterFree DestroyDrains SessionsServed ToldOnce
PROPERTY DestroyReturns
CHECK_DEADLOCK FALSE
