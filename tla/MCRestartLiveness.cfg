\* close() returns: the bounds of MCRestart with two sequences, without
\* symmetry (liveness), and inserts still in flight at close() are allowed
\* only as far as they are sent before the flushers exit.
CONSTANTS
    NoBuffer = NoBuffer
    NoItem = NoItem
    None = None
    Keys = {k1, k2}
    RegionIds = {r1, r2}
    RegionSize = 3
    FlusherCount = 1
    RunnerCount = 1
    Threshold = 1
    Inserters = {i1}
    Lookups = {}
    MaxSeq = 2
    ShortReads = FALSE
    MaxDeviceErrors = 0
    RecoverConcurrency = 2
    MaxRestarts = 1
    MagicChecked = TRUE
    CloseAfterInserts = TRUE
SPECIFICATION LifeSpec
PROPERTY CloseCompletes
