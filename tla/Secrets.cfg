CONSTANTS
    k1 = k1
    k2 = k2
    a = a
    b = b
    empty = empty
    c1 = c1
    c2 = c2
    Keys = {k1, k2}
    Clients = {c1, c2}
    Values = {a, b, empty}
    Empty = empty
    Requests <- MixedRequests
    Initial <- Histories
    Start = 2
    Skews <- BothWays
    MaxFaults = 1
SPECIFICATION Spec
SYMMETRY Symmetry
INVARIANTS TypeOK AnswerHolds CleanupComplete
