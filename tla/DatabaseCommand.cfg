CONSTANTS
    c1 = c1
    c2 = c2
    None = None
    Cmds = {c1, c2}
    MaxFaults = 1
SPECIFICATION Spec
INVARIANTS TypeOK WorksOnItsOwn DoneIsWhole
PROPERTIES Ends
CHECK_DEADLOCK FALSE
