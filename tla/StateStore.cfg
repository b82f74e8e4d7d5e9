CONSTANTS
    StateLock = 1
    Files = {1}
    c1 = c1
    c2 = c2
    Clients = {c1, c2}
    MaxLockWait = 1
    MaxSaves = 2
    MaxFaults = 2
    ForceUnlockers = {c2}
SPECIFICATION Spec
INVARIANTS TypeOK NoLostUpdate NoOrphanLock
PROPERTIES Answered
