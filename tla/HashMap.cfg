CONSTANTS
    o1 = o1
    o2 = o2
    o3 = o3
    o4 = o4
    o5 = o5
    Key = {o1, o2, o3, o4, o5}
    Hash <- Hashes
    NumMultipliers = 2
    InitialNumElements = 8
    MaxLoadFactor100 = 80
    InitialInfoInc = 4
    InfoByte = 7
    MaxAttempts = 4
    MinNumAllocs = 4
    MaxNumAllocs = 8
    Alignment = 8
    AlignedSize = 96
SPECIFICATION Spec
INVARIANTS
    TypeOK
    InfoBytesTrue
    CellsDisjoint
    EntriesFound
PROPERTIES
    ImplementsAddressMap
SYMMETRY Symmetry
CHECK_DEADLOCK FALSE
