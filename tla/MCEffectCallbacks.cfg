SPECIFICATION FairSpec
CONSTANTS
    r1 = r1
    r2 = r2
    sA = sA
    sB = sB
    Reg <- MCReg
    Service <- MCService
    Owner <- MCOwner
    Rewatching <- MCRewatching
    MaxChanges = 2
    MaxCleared = 2
    NoTask = NoTask
INVARIANTS
    CalledOnce
    SomebodyCalls
PROPERTIES
    ChangeCalls
CHECK_DEADLOCK FALSE
