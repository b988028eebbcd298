\* A lookup whose read fails removes the key after a newer insert.
\* Short reads are off: the failure comes from the region being reused.
CONSTANTS
    NoBuffer = NoBuffer
    NoItem = NoItem
    None = None
    Keys = {k1, k2}
    RegionIds = {r1, r2}
    RegionSize = 3
    FlusherCount = 1
    RunnerCount = 1
    Threshold = 1
    Inserters = {i1}
    Lookups = {l1}
    MaxSeq = 3
    ShortReads = FALSE
    MaxDeviceErrors = 0
SYMMETRY MCSymmetry
SPECIFICATION Spec
INVARIANT FinishedInsertVisible
