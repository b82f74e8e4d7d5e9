CONSTANTS
    k1 = k1
    k2 = k2
    a = a
    b = b
    empty = empty
    c1 = c1
    c2 = c2
    c3 = c3
    Keys = {k1}
    Clients = {c1, c2, c3}
    Values = {a, b, empty}
    Empty = empty
    Requests <- KeyRequests
    Initial <- Histories
    Start = 2
    Skews <- BothWays
    MaxFaults = 0
SPECIFICATION Spec
SYMMETRY Symmetry
PROPERTIES NoValueLost
