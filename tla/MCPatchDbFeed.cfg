CONSTANTS
    Pointer <- MCPointer
    Touch <- MCTouch
    Accept <- MCAccept
    Watch = {w1}
    Json = {j1, j2}
    Capacity = 1
    MaxRevision = 3
    MaxSilent = 1
SPECIFICATION FairSpec
INVARIANTS
    WatchFollows
    NoLostWakeup
    JsonFollows
PROPERTIES
    WaitReturns
