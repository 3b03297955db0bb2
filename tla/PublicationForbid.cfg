SPECIFICATION Spec
CONSTANTS
    b1 = b1
    op = op
    Builders = {b1}
    Operators = {op}
    Collects = TRUE
    Retention = 1
    Overlap = FALSE
    InPod = FALSE
    MaxRuns = 3
    MaxClock = 4
    MaxCrashes = 1
INVARIANT NumberNamesOneCatalog
INVARIANT PinnedIdIsServed
INVARIANT LoneBuilderNeverCollides
PROPERTY PublishForgetsOnlyThePast
PROPERTY CleanupSparesWhatIsServed
PROPERTY LogSpec
