CONSTANTS
    w1 = w1
    w2 = w2
    RootMsg = RootMsg
    NoMsg = NoMsg
    MaxKey = 4
    Chunk = 2
    Workers = {w1, w2}
    JoinBudget = 1
    LeaveBudget = 1
    CrashBudget = 1
SPECIFICATION FairSpec
CHECK_DEADLOCK FALSE
INVARIANTS PlanPartitions DeliveredIsMailed NoKeyLost
PROPERTIES FanOutCompletes RecordIsExact
