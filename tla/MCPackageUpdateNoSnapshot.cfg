CONSTANTS
    Faults = {"init"}
    MaxCrashes = 1
    MaxUpdates = 2
SPECIFICATION Spec
CHECK_DEADLOCK FALSE
INVARIANT OldNeverOnNewData
