CONSTANTS
    Files = {1, 2, 3}
    c1 = c1
    c2 = c2
    c3 = c3
    Clients = {c1, c2, c3}
    Requests <- RingRequests
    MaxLockWait = 1
    MaxFaults = 0
    ForceUnlockers = {}
SPECIFICATION Spec
SYMMETRY Symmetry
INVARIANTS NoCircularWait
