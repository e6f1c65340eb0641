CONSTANTS
    Faults = {"download", "snapshot", "uninit", "init", "rename",
              "cancel"}
    MaxCrashes = 3
    MaxUpdates = 2
SPECIFICATION Spec
CHECK_DEADLOCK FALSE
INVARIANTS
    OldDataKept
    NeverOnEmptyRoot
    Consistent
PROPERTY ComesToRest
