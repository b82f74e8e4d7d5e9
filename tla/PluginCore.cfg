CONSTANTS
    c1 = c1
    c2 = c2
    a1 = a1
    a2 = a2
    None = None
    Calls = {c1, c2}
    APIs = {a1, a2}
    Needs <- Shared
SPECIFICATION Spec
INVARIANTS TypeOK CacheIsTrue
PROPERTIES GivesUpOnlyOnCached CallEnds StartRecovers
