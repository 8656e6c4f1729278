SPECIFICATION SpawnFairSpec
CONSTANTS
    TaskIdMax = 4
    PidMax = 4
    TaskLimit = 4
    ProcessLimit = 3
INVARIANTS
    NoLostExit
PROPERTIES
    ReapedByRightCaller
    WaiterServed
    DetachedReaped
CHECK_DEADLOCK FALSE
