CONSTANTS
    Patch = {p1}
    CompactEvery = 3
    MaxRevision = 7
    Faults = {"append", "precommit", "rewrite", "remove"}
SPECIFICATION Spec
INVARIANTS
    AlwaysOpens
    RevisionSurvives
    KeepsAcknowledged
