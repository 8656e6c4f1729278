SPECIFICATION BlkSpec
CONSTANTS
    SectorCount = 2
    BounceSectors = 1
    IndexModulus = 4
    Value = {1, 2}
    SlowDevice = TRUE
INVARIANT OkMeansTransferred
