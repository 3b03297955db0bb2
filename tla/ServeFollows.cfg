SPECIFICATION FairSpec
CONSTANTS
    r1 = r1
    a1 = a1
    free = free
    Readers = {r1}
    Agents = {a1}
    Free = free
    MaxExecutions = 2
    MaxMoves = 2
    MaxFailures = 1
    MaxRestarts = 1
INVARIANT TypeOK
INVARIANT SettledStateAgrees
INVARIANT NoRequestSpansTwoCatalogs
INVARIANT ProvenanceIsOfTheExecutionNamed
PROPERTY ServerFollowsLatest
PROPERTY SummaryIsNeverOrphaned
