SPECIFICATION Spec
CONSTANTS
    Process = {p1, p2, p3}
    FirstProcess = p1
    NoProcess = none
    PairMax = 1
    FirstRegular = 2
    FdMax = 4
    RingCapacity = 2
    ExclusiveReaders = FALSE
SYMMETRY Symmetry
INVARIANT PeerCloseWakesWaiters
CHECK_DEADLOCK FALSE
