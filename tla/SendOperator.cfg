CONSTANTS
    m1 = m1
    m2 = m2
    w1 = w1
    w2 = w2
    NoMsg = NoMsg
    NoOne = NoOne
    Recipients = {1, 2, 3}
    Blocked = {}
    Msgs = {m1, m2}
    WindowOf <- DisjointWindows
    Workers = {w1, w2}
    MaxReceives = 4
    RejectLimit = 2
    HaltCheckEvery = 1
    HasSchedule = TRUE
    Budget <- OperatorBudget
SPECIFICATION Spec
SYMMETRY WorkerSymmetry
CHECK_DEADLOCK FALSE
INVARIANTS HaltBound RetryDeliversRemainder
PROPERTIES SuppressionSticks
