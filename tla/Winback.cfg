CONSTANTS
    LastReader = 2
    Steps = 2
    ColdAfter = 1
    PageLimit = 2
    Quotas = {1, 2}
    Writers = {w}
    Periods = 3
    Budget <- SweepBudget
SPECIFICATION Spec
CHECK_DEADLOCK FALSE
INVARIANTS AdvancedByMail StepOncePerCycle
PROPERTIES SunsetIsEarned PassCoversAll
