\* A lookup whose read fails removes its key while a newer insert of the
\* key is inflight; the flusher then migrates the older, superseded entry
\* into the emptied catalog slot.  One key, one lookup, short reads.
CONSTANTS
    NoBuffer = NoBuffer
    NoItem = NoItem
    None = None
    Keys = {k1}
    RegionIds = {r1, r2}
    RegionSize = 3
    FlusherCount = 1
    RunnerCount = 1
    Threshold = 1
    Inserters = {i1}
    Lookups = {l1}
    MaxSeq = 3
    ShortReads = TRUE
    MaxDeviceErrors = 0
SYMMETRY MCSymmetry
SPECIFICATION Spec
INVARIANT LatestAdmissionWins
