CONSTANTS
    a = a
    b = b
    c = c
    d = d
    MaxU64 = 9
    MaxU32 = 9
    OrderId <- ThreeIds
    Tickets <- LimitTickets
    ModifyPrices <- None
    CancelQuantities <- None
    ExecuteQuantities <- None
    ExecutePrices <- None
    CallerContract = TRUE
SYMMETRY Symmetry3
SPECIFICATION Spec
INVARIANTS
    FillOrKill
