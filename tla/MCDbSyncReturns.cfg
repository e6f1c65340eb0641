SPECIFICATION FairSpec
CONSTANTS
    c1 = c1
    c2 = c2
    Call <- MCOneCall
    First = 2
    MaxRevision = 4
    MaxSilent = 0
    MaxDrops = 0
PROPERTIES
    CallReturns
CHECK_DEADLOCK FALSE
