CONSTANTS
    Files = {1, 2}
    Clients = {c1, c2}
    c1 = c1
    c2 = c2
    Requests <- MixedRequests
    MaxLockWait = 1
    MaxFaults = 2
    ForceUnlockers = {c2}
SPECIFICATION Spec
INVARIANTS TypeOK GrantIsComplete NoOrphans
PROPERTIES GrantsAreAtomic Answered
