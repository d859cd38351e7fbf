CONSTANTS
    a = a
    b = b
    c = c
    d = d
    MaxU64 = 9
    MaxU32 = 9
    OrderId <- ThreeIds
    Tickets <- LimitTickets
    ModifyPrices <- Two
    CancelQuantities <- ZeroOne
    ExecuteQuantities <- One
    ExecutePrices <- Two
    CallerContract = TRUE
SYMMETRY Symmetry3
SPECIFICATION ListenerSpec
INVARIANTS
    CopyIsTheBook
    VolumeConsistent
    BookUncrossed
    NoAssertionFails
PROPERTIES
    PriceTimePriority
    KeepsPromise
