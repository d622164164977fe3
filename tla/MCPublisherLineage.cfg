SPECIFICATION EitherSpec
CONSTANTS
    o1 = o1
    o2 = o2
    o3 = o3
    w1 = w1
    i1 = i1
    Ops = {o1, o2, o3}
    Workers = {w1}
    Ids = {i1}
    NoId = NoId
    NoWorker = NoWorker
    Stale = Stale
    MaxGen = 2
    FirstDraft = o1
    FirstId = i1
    FirstWorker = w1
SYMMETRY LaterSymmetry
ACTION_CONSTRAINT BrowseForLater
CHECK_DEADLOCK FALSE
INVARIANTS
    ActiveDeliverable
    CancelledIsClean
    DispatchedOnce
    UnconfirmedHolds
PROPERTIES
    ClosedIsFinal
