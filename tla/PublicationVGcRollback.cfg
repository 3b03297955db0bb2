SPECIFICATION Spec
CONSTANTS
    b1 = b1
    op = op
    Builders = {b1}
    Operators = {op}
    Collects = TRUE
    Retention = 1
    Overlap = TRUE
    InPod = TRUE
    MaxRuns = 3
    MaxClock = 3
    MaxCrashes = 0
INVARIANT PointerNamesArtifact
