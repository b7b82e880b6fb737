SPECIFICATION FairSpec
CONSTANTS
    i1 = i1
    i2 = i2
    p1 = p1
    p2 = p2
    r1 = r1
    r2 = r2
    r3 = r3
    b1 = b1
    b2 = b2
    Items = {i1}
    Verbatim = {i1}
    Pages = {p1, p2}
    Runs = {r1, r2}
    PageOf <- TwoPages
    Books = {b1}
    NoBook = NoBook
    Keys = {k1, k2, k3, k4, k5, k6}
    NoKey = NoKey
    MaxTries = 2
INVARIANTS
    SyncedIsTaken
    ClearedIsTaken
    SyncingIsHeld
    TwiceIsExplained
PROPERTIES
    RemovedStaysRemoved
    LoopEnds
CHECK_DEADLOCK FALSE
