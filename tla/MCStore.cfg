\* Two keys, two one-entry regions (the fewest open() accepts for one
\* flusher), one flusher and one runner, one inserter, two concurrent
\* lookups and three sequences: a region is filled, sealed, evicted,
\* reclaimed and filled again while both lookups hold views into it.
CONSTANTS
    NoBuffer = NoBuffer
    NoItem = NoItem
    None = None
    Keys = {k1, k2}
    RegionIds = {r1, r2}
    RegionSize = 3
    FlusherCount = 1
    RunnerCount = 1
    Threshold = 1
    Inserters = {i1}
    Lookups = {l1, l2}
    MaxSeq = 3
    ShortReads = TRUE
    MaxDeviceErrors = 1
SYMMETRY MCSymmetry
SPECIFICATION Spec
INVARIANT TypeOKStore
INVARIANT RegionPartition
INVARIANT CatalogViewsValid
INVARIANT NoBufferedReaderWithoutBuffer
PROPERTY AttachAssertionsHold
