CONSTANTS
    a = a
    b = b
    c = c
    d = d
    MaxU64 = 4
    MaxU32 = 4
    OrderId <- TwoIds
    Tickets <- MisuseTickets
    ModifyPrices <- Two
    CancelQuantities <- ZeroOne
    ExecuteQuantities <- One
    ExecutePrices <- Two
    CallerContract = FALSE
SYMMETRY Symmetry2
SPECIFICATION Spec
INVARIANTS
    IndexConsistent
    BookUncrossed
    VolumeConsistent
CHECK_DEADLOCK FALSE
