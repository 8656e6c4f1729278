SPECIFICATION FairSpec
CONSTANTS
    Process = {p1, p2}
    Name = {"a"}
    ServiceMax = 1
    ConnectionMax = 1
    HandleMax = 3
    PendingMax = 1
    QueueMax = 2
    MessageMax = 2
    ObjectMax = 1
    BufferHandleMax = 1
    MappingMax = 1
    ReferenceMax = 3
INVARIANTS
    RefsExact
    NoLostWakeup
PROPERTIES
    DrainAfterClose
    WaiterReturns
CHECK_DEADLOCK FALSE
