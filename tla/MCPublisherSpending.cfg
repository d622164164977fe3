SPECIFICATION DraftedWorkerSpec
CONSTANTS
    o1 = o1
    o2 = o2
    o3 = o3
    w0 = w0
    w1 = w1
    w2 = w2
    i1 = i1
    i2 = i2
    Ops = {o1, o2, o3}
    Workers = {w1, w2}
    Ids = {i1, i2}
    NoId = NoId
    NoWorker = NoWorker
    Stale = Stale
    MaxGen = 2
    FirstDraft = o1
    FirstId = i1
    FirstWorker = w0
SYMMETRY LaterWorkerSymmetry
ACTION_CONSTRAINT PublishAndPause
CHECK_DEADLOCK FALSE
INVARIANTS
    SentOnce
    CancelledNeverSends
    LiveWasPublished
PROPERTIES
    PromiseStays
