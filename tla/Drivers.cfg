CONSTANTS
    r1 = r1
    r2 = r2
    None = None
    Res = {r1, r2}
    Assignments <- Groups
    MaxFaults = 2
    MaxEdits = 1
SPECIFICATION Spec
INVARIANTS TypeOK OneAtATime
PROPERTIES OkMeansDone NoBlindOverwrite 
