\* A reader holding a view of the first generation of a region, after the
\* region was reclaimed (version advanced) and refilled.
CONSTANTS
    NoBuffer = NoBuffer
    RegionIds = {r1, r2}
    Readers = {rd1}
    RegionSize = 3
    EntrySizes = {1}
    MaxWrites = 3
    MaxVersion = 1
SYMMETRY MCSymmetry
SPECIFICATION Spec
INVARIANT ViewReadsOwnEntry
