SPECIFICATION Spec
CONSTANTS
    b1 = b1
    b2 = b2
    Builders = {b1, b2}
    Operators = {}
    Collects = FALSE
    Retention = 0
    Overlap = TRUE
    InPod = FALSE
    MaxRuns = 4
    MaxClock = 0
    MaxCrashes = 1
SYMMETRY Symmetry
INVARIANT TypeOK
INVARIANT PointerNamesArtifact
INVARIANT NumberNamesOneCatalog
INVARIANT SummaryTellsOfArtifact
INVARIANT WriterOwnsNumber
INVARIANT GivesUpOnlyWhenOutrun
PROPERTY LogSpec
CHECK_DEADLOCK FALSE
