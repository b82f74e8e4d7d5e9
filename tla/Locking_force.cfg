CONSTANTS
    Files = {1, 2, 3}
    c1 = c1
    c2 = c2
    c3 = c3
    Clients = {c1, c2, c3}
    Requests <- NestedRequests
    MaxLockWait = 0
    MaxFaults = 0
    ForceUnlockers = {c3}
SPECIFICATION Spec
INVARIANTS MutualExclusion
PROPERTIES OnlyOwnerReleases
