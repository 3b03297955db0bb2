SPECIFICATION Spec
CONSTANTS
    a1 = a1
    free = free
    Readers = {}
    Agents = {a1}
    Free = free
    MaxExecutions = 2
    MaxMoves = 0
    MaxFailures = 0
    MaxRestarts = 0
INVARIANT ProvenanceDatesItsOwnData
