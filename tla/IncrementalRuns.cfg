SPECIFICATION Spec
CONSTANTS
    b1 = b1
    k1 = k1
    k2 = k2
    null = null
    Builders = {b1}
    Keys = {k1, k2}
    NullKey = null
    MaxCursor = 3
    Lookback = 2
    MaxRows = 3
    MaxPurges = 1
    MaxRuns = 3
SYMMETRY Symmetry
INVARIANT OneRowPerKey
INVARIANT NothingTimelyIsBehindTheMark
INVARIANT MarkCoversTheData
INVARIANT ReplayChangesNothing
