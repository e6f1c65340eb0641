SPECIFICATION FairSpec
CONSTANTS
    c1 = c1
    c2 = c2
    Call <- MCCall
    First = 2
    MaxRevision = 4
    MaxSilent = 1
    MaxDrops = 1
INVARIANTS
    CacheConsistent
    ReadYourWrites
PROPERTIES
    EventuallyShown
CHECK_DEADLOCK FALSE
