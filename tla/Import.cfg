CONSTANTS
    h1 = h1
    LastLine = 2
    Wanted <- JoinAndDecline
    Attempts = 2
    Retries = 2
    Handlers = {h1}
    Surfaces = {"signup", "join", "override", "confirm", "leave"}
    Budget <- ImportBudget
SPECIFICATION FairSpec
CHECK_DEADLOCK FALSE
INVARIANTS Reversible NobodyLeftOut
PROPERTIES RevivesByAbaOnly BatchCloses
