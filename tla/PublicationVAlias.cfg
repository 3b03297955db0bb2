SPECIFICATION Spec
CONSTANTS
    b1 = b1
    op = op
    Builders = {b1}
    Operators = {op}
    Collects = FALSE
    Retention = 1
    Overlap = FALSE
    InPod = FALSE
    MaxRuns = 4
    MaxClock = 0
    MaxCrashes = 0
INVARIANT PinnedSnapshotIsFrozen
