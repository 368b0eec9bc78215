CONSTANTS
    m1 = m1
    m2 = m2
    w1 = w1
    w2 = w2
    NoMsg = NoMsg
    NoOne = NoOne
    Recipients = {1, 2, 3, 4}
    Blocked = {4}
    Msgs = {m1, m2}
    WindowOf <- OverlappingWindows
    Workers = {w1, w2}
    MaxReceives = 2
    RejectLimit = 2
    HaltCheckEvery = 2
    HasSchedule = TRUE
    Budget <- FaultBudget
SPECIFICATION Spec
SYMMETRY WorkerSymmetry
CHECK_DEADLOCK FALSE
INVARIANTS TypeOK AtMostOnce CompletedOwesNobody NoStrandedClaim StrandedBound
