SPECIFICATION SuiteSpec
CONSTANTS
    TaskIdMax = 3
    PidMax = 3
    TaskLimit = 3
    ProcessLimit = 2
    Process = {p1, p2}
    NoProcess = none
    Key = {"left_shift", "right_shift"}
    ButtonMax = 1
    QueueCapacity = 2
    ReadMax = 2
    DroppedMax = 1
INVARIANTS
    OneRunning
    ActiveSpaceAlive
    RegistriesAgree
    NoFaultNoHalt
    NoLostWakeup
    StreamTrue
PROPERTIES
    RunsOnlyWhenReady
    ReadyRuns
    OwnerReturns
CHECK_DEADLOCK FALSE
