CONSTANTS
    Patch = {p1}
    CompactEvery = 3
    MaxRevision = 4
    Faults = {"remove"}
SPECIFICATION Spec
INVARIANT AcknowledgedSurvives
