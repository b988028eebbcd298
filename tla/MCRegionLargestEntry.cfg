\* An entry whose aligned size is region_size - align, on an empty region.
CONSTANTS
    NoBuffer = NoBuffer
    RegionIds = {r1, r2}
    Readers = {rd1}
    RegionSize = 4
    EntrySizes = {3}
    MaxWrites = 1
    MaxVersion = 1
SYMMETRY MCSymmetry
SPECIFICATION Spec
INVARIANT LargestEntryFits
