SPECIFICATION Spec
CONSTANTS
    ObjectCount = 4
    BlockCount = 3
    RecordsPerBlock = 1
    MaxExtents = 2
    ReferenceMax = 1
    RollbackFaults = FALSE
    Name = {a, b}
    Payload = {x}
    SectorCount = 3
    BounceSectors = 2
    IndexModulus = 4
    Value = {1, 2}
    SlowDevice = FALSE
    Instance = {i, j}
    NodeMax = 4
    FileName = {a, b}
    FileMax = 3
    TotalDataMax = 4
    Byte = {1}
    MountMax = 2
    Holder = {h, k}
    Reader = {r}
    PathMax = 2
    Program = {1, 2}
    FdMax = 1
    TextMax = 2
    VfsNodes = 4
    CallNodes = 3
    MountedNodes = 5
SYMMETRY Alike
INVARIANTS RolledBack OnlyLeaks OkMeansTransferred ContentTrue RefsTrue CwdTextTrue
PROPERTY AtomicOperations
CHECK_DEADLOCK FALSE
