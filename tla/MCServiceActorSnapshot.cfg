CONSTANTS
    Systems = {"startos"}
    Faults = {}
    MaxRequests = 5
    MaxLate = 2
SPECIFICATION Spec
CHECK_DEADLOCK FALSE
INVARIANT SnapshotOfStopped
