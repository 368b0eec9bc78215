CONSTANTS
    l1 = l1
    Lists = {l1}
    ClosedLists = {}
    Trigger = l1
    Handlers = {h1, h2}
    Surfaces <- Kinds
    MaxRequests = 2
SPECIFICATION Spec
SYMMETRY HandlerSymmetry
INVARIANTS TypeOK LeavingHolds FeedbackHolds
