CONSTANTS
    n1 = n1
    n3 = n3
    n4 = n4
    ann = ann
    bob = bob
    w1 = w1
    w2 = w2
    e1 = e1
    NoNotice = NoNotice
    Notices = {n1, n3, n4}
    KindOf <- MixedKinds
    ReaderOf <- MixedReaders
    Workers = {w1, w2}
    Editors = {e1}
    RowAtStart = {TRUE, FALSE}
    HaltAt = 2
    MaxReceives = 2
    Budget <- FaultBudget
SPECIFICATION Spec
SYMMETRY WorkerSymmetry
CHECK_DEADLOCK FALSE
INVARIANTS AcknowledgedInFull CountsAreBacked BreachHalts
PROPERTIES HaltSurvivesLaterSaves
