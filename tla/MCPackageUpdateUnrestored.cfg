CONSTANTS
    Faults = {"init", "rename"}
    MaxCrashes = 0
    MaxUpdates = 2
SPECIFICATION Spec
CHECK_DEADLOCK FALSE
INVARIANT OldNeverOnNewData
