\* Open on an empty device, run, close or crash, and open again once: one
\* key (two regions may still hold two values of it), two regions of two
\* entries, so that recovery walks a region past its first entry to the
\* footer, one flusher, one runner, one inserter, no lookups (they move no
\* region and take nothing from recovery), five sequences, both recovery
\* tasks running at once, whole reads, and the magic unchecked as in
\* region.rs.  No symmetry, as CloseCompletes and OpenCompletes are
\* liveness properties.
CONSTANTS
    NoBuffer = NoBuffer
    NoItem = NoItem
    None = None
    Keys = {k1}
    RegionIds = {r1, r2}
    RegionSize = 4
    FlusherCount = 1
    RunnerCount = 1
    Threshold = 1
    Inserters = {i1}
    Lookups = {}
    MaxSeq = 5
    ShortReads = FALSE
    MaxDeviceErrors = 0
    RecoverConcurrency = 2
    MaxRestarts = 1
    MagicChecked = FALSE
    CloseAfterInserts = TRUE
SPECIFICATION LifeSpec
INVARIANT TypeOKRestart
INVARIANT RegionPartitionServing
INVARIANT CatalogViewsValid
INVARIANT SequenceAheadOfCatalog
PROPERTY RecoveryRestoresSurvivors
PROPERTY RecoveryMatchesWalk
PROPERTY CloseCompletes
PROPERTY OpenCompletes
PROPERTY QueuesDrainAcrossRestart
