SPECIFICATION EitherSpec
CONSTANTS
    x1 = x1
    q1 = q1
    q2 = q2
    c1 = c1
    c2 = c2
    f1 = f1
    f2 = f2
    f3 = f3
    v1 = v1
    v2 = v2
    Releases = {x1}
    Records = {quote}
    Revisions = {v1, v2}
    Forms = {f1, f2, f3}
    Requests = {q1, q2}
    Target <- OneTarget
    Contents = {c1, c2}
    Unset = Unset
    MaxTries = 2
SYMMETRY Alike
CHECK_DEADLOCK FALSE
INVARIANTS
    OneInForce
    AnswersAreTrue
    PendingIsServable
    OneReceipt
PROPERTIES
    PromiseKept
