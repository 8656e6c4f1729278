SPECIFICATION Spec
CONSTANTS
    RxRing = 2
    ArpCache = 1
    PingCount = 1
    DhcpServer = {"s1"}
    Refusing = {}
    Poor = {}
    HostName = {"a"}
    TicksInCall = FALSE
    CallMax = 1
PROPERTY PingReturns
CHECK_DEADLOCK FALSE
