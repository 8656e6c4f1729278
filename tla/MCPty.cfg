SPECIFICATION FairSpec
CONSTANTS
    Process = {p1, p2, p3}
    FirstProcess = p1
    NoProcess = none
    PairMax = 1
    FirstRegular = 2
    FdMax = 4
    RingCapacity = 1
    ExclusiveReaders = TRUE
INVARIANTS
    RefsExact
    NoLostWakeup
PROPERTY ReaderReturns
CHECK_DEADLOCK FALSE
