\* remove() while the value is still on its way to the flusher.
CONSTANTS
    NoBuffer = NoBuffer
    NoItem = NoItem
    None = None
    Keys = {k1, k2}
    RegionIds = {r1, r2}
    RegionSize = 3
    FlusherCount = 1
    RunnerCount = 1
    Threshold = 1
    Inserters = {i1}
    Lookups = {l1}
    MaxSeq = 3
    ShortReads = FALSE
    MaxDeviceErrors = 0
SYMMETRY MCSymmetry
SPECIFICATION Spec
INVARIANT LookupReturnsLive
