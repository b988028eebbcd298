\* A value removed or reclaimed before the restart, still on the device.
CONSTANTS
    NoBuffer = NoBuffer
    NoItem = NoItem
    None = None
    Keys = {k1, k2}
    RegionIds = {r1, r2}
    RegionSize = 3
    FlusherCount = 1
    RunnerCount = 1
    Threshold = 1
    Inserters = {i1}
    Lookups = {}
    MaxSeq = 3
    ShortReads = FALSE
    MaxDeviceErrors = 0
    RecoverConcurrency = 2
    MaxRestarts = 1
    MagicChecked = FALSE
    CloseAfterInserts = TRUE
SYMMETRY MCSymmetry
SPECIFICATION LifeSpec
PROPERTY RecoveryRestoresOnlyHeld
