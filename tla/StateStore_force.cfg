CONSTANTS
    StateLock = 1
    Files = {1}
    c1 = c1
    c2 = c2
    c3 = c3
    Clients = {c1, c2, c3}
    MaxLockWait = 0
    MaxSaves = 1
    MaxFaults = 1
    ForceUnlockers = {c3}
SPECIFICATION Spec
INVARIANTS OneEditor CopyIsCurrent
