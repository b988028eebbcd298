\* Region layout and lifecycle: entries of 1 or 2 blocks in a 5-block region.
CONSTANTS
    NoBuffer = NoBuffer
    RegionIds = {r1, r2}
    Readers = {rd1, rd2}
    RegionSize = 5
    EntrySizes = {1, 2}
    MaxWrites = 5
    MaxVersion = 2
SYMMETRY MCSymmetry
SPECIFICATION Spec
INVARIANT TypeOKClients
INVARIANT AllocationsDisjoint
