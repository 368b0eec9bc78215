CONSTANTS
    l1 = l1
    Lists = {l1}
    ClosedLists = {}
    Trigger = l1
    Handlers = {h1}
    Surfaces = {"signup", "confirm", "leaveAll"}
    MaxRequests = 2
    Steps = 2
    ListOf <- OneList
    Entitled = {2}
    Retries = 1
    FaultBudget = 2
SPECIFICATION DripSpec
VIEW View
INVARIANTS StepOnce OutdatedMailsOnce UndisturbedInFull
