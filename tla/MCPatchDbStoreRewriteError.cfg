CONSTANTS
    Patch = {p1}
    CompactEvery = 3
    MaxRevision = 4
    Faults = {"rewrite"}
SPECIFICATION Spec
INVARIANT AcknowledgedSurvives
