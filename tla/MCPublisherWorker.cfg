SPECIFICATION WorkerSpec
CONSTANTS
    o1 = o1
    o2 = o2
    w1 = w1
    w2 = w2
    i1 = i1
    i2 = i2
    Ops = {o1, o2}
    Workers = {w1, w2}
    Ids = {i1, i2}
    NoId = NoId
    NoWorker = NoWorker
    Stale = Stale
    MaxGen = 2
    FirstDraft = o1
    FirstId = i1
    FirstWorker = w1
SYMMETRY WorkerSymmetry
ACTION_CONSTRAINT DraftAndStop
CHECK_DEADLOCK FALSE
INVARIANTS
    NoDuplicates
    CancelledReachedNobody
    DraftReadyIsWhole
    DraftRecoveryIsDead
PROPERTIES
    PromiseKept
