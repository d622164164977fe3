SPECIFICATION EitherSpec
CONSTANTS
    h1 = h1
    h2 = h2
    r1 = r1
    r2 = r2
    r3 = r3
    c1 = c1
    c2 = c2
    Homes = {h1, h2}
    Workspace <- OneWorkspace
    Requests = {r1, r2, r3}
    Target <- Asked
    Kind <- Kinds
    Calls = {c1, c2}
    MonthlyLimit = 2
    ProviderLimit = 1
    MaxMonth = 2
    None = None
SYMMETRY Alike
CHECK_DEADLOCK FALSE
INVARIANTS
    TypeOK
    LookedUpOnce
    BudgetIsCount
    HandedOnce
    DeliveryIsTrue
    OnHasDate
PROPERTIES
    OwnerDecides
