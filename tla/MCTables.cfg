SPECIFICATION Spec
CONSTANTS
    Value = {1, 2}
    NoValue = 0
    Capacity = 3
    StoredTail = TRUE
    SlotMax = 3
    SlotSpan = 4
    GenerationMax = 3
    Bias = 1
    OpenMax = 5
    PmmPage = 2
    RegionMax = 2
    FrameMax = 3
    AddressMax = 7
    EntryBases = {0, 1, 2, 4, 7}
    EntryLengths = {0, 2, 3, 5}
    EntryMax = 3
    HeapPage = 8
    HeaderSize = 2
    Alignment = 2
    InitialPages = 2
    HeapPageMax = 3
    RequestSizes = {1, 3, 4, 9}
    Owner = {1, 2}
    FrameCount = 15
    Depth = 3
    Fanout = 2
    OwnedMax = 5
    ArenaPages = 3
    StackPage = 5
    ImageBases = {1, 4}
    AreaMax = 2
    ViewMax = 1
    BufferMax = 2
    HeldMax = 2
    PageCounts = {1, 2}
    HeapFrameMax = 2
    DiskBlocks = 2
    TransferMax = 1
    DeviceMax = 3
    SliceRequests <- Slices
    Datum = {1, 2}
    Lba28Limit = 1
    EngineStops = TRUE
    SlowDisk = FALSE
    EventRingTrbs = 3
    InterruptRingUsable = 2
    UsbKey = {1, 2}
    UsbModifier = {1}
    UsbButton = {3}
    BadReports = FALSE
    BulkUsable = 2
    TagMax = 7
    SlowStick = TRUE
    RootPorts <- Roots
    HubPorts <- Hubs
    SlotCount = 3
    DeviceTable = 3
    CommandUsable = 4
    Ep0Usable = 38
    RxRing = 2
    ArpCache = 1
    PingCount = 1
    DhcpServer = {"s1", "s2", "s3"}
    Refusing = {"s2"}
    Poor = {"s3"}
    HostName = {"a", "b"}
    TicksInCall = TRUE
    CallMax = 2
INVARIANTS
    StaleRefused
    FramesTrue
    HeapHolds
    FramesOwned
    OkMeansDurable
    PortKeepsToItsFrames
    ReportsTrue
    DevicesTrue
    AnswersTrue
PROPERTY Fifo
VIEW View
CHECK_DEADLOCK FALSE
