\* The bounds of MCStore without lookups, which move no region: every
\* region goes around the cycle and the reused one is acquired again.
CONSTANTS
    NoBuffer = NoBuffer
    NoItem = NoItem
    None = None
    Keys = {k1, k2}
    RegionIds = {r1, r2, r3, r4}
    RegionSize = 3
    FlusherCount = 2
    RunnerCount = 2
    Threshold = 1
    Inserters = {i1, i2}
    Lookups = {}
    MaxSeq = 4
    ShortReads = TRUE
    MaxDeviceErrors = 0
SYMMETRY MCSymmetry
SPECIFICATION Spec
PROPERTY LifecycleRefined
