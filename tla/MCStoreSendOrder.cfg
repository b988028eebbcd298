\* Two inserters sharing the one flusher, no lookups: the second inserter
\* mints after the first and sends before it.
CONSTANTS
    NoBuffer = NoBuffer
    NoItem = NoItem
    None = None
    Keys = {k1, k2}
    RegionIds = {r1, r2}
    RegionSize = 3
    FlusherCount = 1
    RunnerCount = 1
    Threshold = 1
    Inserters = {i1, i2}
    Lookups = {}
    MaxSeq = 3
    ShortReads = FALSE
    MaxDeviceErrors = 0
SYMMETRY MCSymmetry
SPECIFICATION Spec
INVARIANT SameFlusherInSequenceOrder
