CONSTANTS
    w1 = w1
    w2 = w2
    q1 = q1
    q2 = q2
    Keys = {1, 2, 3}
    Slices <- AllSlices
    Kinds = {"one_off", "recurring"}
    Workers = {w1, w2}
    SliceOf <- TwoWindows
    Requests = {q1, q2}
    Attempts = 2
    RequestBudget = 4
    RedeliverBudget = 1
SPECIFICATION Spec
SYMMETRY RequestSymmetry
CHECK_DEADLOCK FALSE
INVARIANTS FullIsClosed ExhaustionNeedsContention DoneIsRecorded
PROPERTIES LedgerSpec
