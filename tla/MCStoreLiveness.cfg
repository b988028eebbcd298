\* The region lifecycle refinement, with a lookup whose device reads may
\* come back short or fail.
CONSTANTS
    NoBuffer = NoBuffer
    NoItem = NoItem
    None = None
    Keys = {k1, k2}
    RegionIds = {r1, r2}
    RegionSize = 3
    FlusherCount = 1
    RunnerCount = 1
    Threshold = 1
    Inserters = {i1}
    Lookups = {l1}
    MaxSeq = 3
    ShortReads = TRUE
    MaxDeviceErrors = 1
SPECIFICATION Spec
PROPERTY LifecycleRefined
