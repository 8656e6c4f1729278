SPECIFICATION SpawnSpec
CONSTANTS
    TaskIdMax = 4
    PidMax = 4
    TaskLimit = 4
    ProcessLimit = 4
INVARIANT NeverBackToBoot
CHECK_DEADLOCK FALSE
