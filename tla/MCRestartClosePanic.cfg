\* close() while an insert is between its sequence and its send.
CONSTANTS
    NoBuffer = NoBuffer
    NoItem = NoItem
    None = None
    Keys = {k1, k2}
    RegionIds = {r1, r2}
    RegionSize = 3
    FlusherCount = 1
    RunnerCount = 1
    Threshold = 1
    Inserters = {i1}
    Lookups = {}
    MaxSeq = 3
    ShortReads = FALSE
    MaxDeviceErrors = 0
    RecoverConcurrency = 2
    MaxRestarts = 1
    MagicChecked = FALSE
    CloseAfterInserts = FALSE
SYMMETRY MCSymmetry
SPECIFICATION LifeSpec
INVARIANT NoSendToExitedFlusher
