\* A lookup stalled between its catalog hit and region.load while the
\* region is reclaimed and refilled (spec.md section 8, scenario 4).
CONSTANTS
    NoBuffer = NoBuffer
    NoItem = NoItem
    None = None
    Keys = {k1, k2}
    RegionIds = {r1, r2}
    RegionSize = 3
    FlusherCount = 1
    RunnerCount = 1
    Threshold = 1
    Inserters = {i1}
    Lookups = {l1}
    MaxSeq = 3
    ShortReads = FALSE
    MaxDeviceErrors = 0
SYMMETRY MCSymmetry
SPECIFICATION Spec
INVARIANT LookupReturnsOwnKey
