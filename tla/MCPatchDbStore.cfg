CONSTANTS
    Patch = {p1, p2}
    CompactEvery = 2
    MaxRevision = 5
    Faults = {"append", "precommit"}
SPECIFICATION Spec
SYMMETRY PatchSymmetry
INVARIANTS
    CrashSafe
    ReadsAcknowledged
PROPERTY LogSpec
