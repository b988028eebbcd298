\* A lookup whose physical read fails leaves physical_readers raised, so
\* reclaim's exclusive(false, false, false) never succeeds and the flusher
\* waits for a clean region forever.  One lookup, one device error.
CONSTANTS
    NoBuffer = NoBuffer
    NoItem = NoItem
    None = None
    Keys = {k1, k2}
    RegionIds = {r1, r2}
    RegionSize = 3
    FlusherCount = 1
    RunnerCount = 1
    Threshold = 1
    Inserters = {i1}
    Lookups = {l1}
    MaxSeq = 3
    ShortReads = FALSE
    MaxDeviceErrors = 1
SPECIFICATION Spec
PROPERTY QueuesDrain
