SPECIFICATION Spec
CONSTANTS
    r1 = r1
    r2 = r2
    r3 = r3
    r4 = r4
    r5 = r5
    w1 = w1
    w2 = w2
    Requests = {r1, r2, r3, r4, r5}
    Mixes <- Every
    Locations = {w1, w2}
    Home = w1
    Limit = 2
    LockTime = 2
    Life <- ShortLives
    SessionLife = 3
    MaxTime = 4
    MaxOps = 2
    None = None
SYMMETRY Alike
ACTION_CONSTRAINT Bounds
CHECK_DEADLOCK FALSE
INVARIANTS
    LinkOnce
    OneSurvivor
PROPERTIES
    LockIsFixed
    NoRevival
