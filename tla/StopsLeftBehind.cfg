CONSTANTS
    a = a
    b = b
    c = c
    d = d
    MaxU64 = 15
    MaxU32 = 15
    OrderId <- ThreeIds
    Tickets <- LadderTickets
    ModifyPrices <- None
    CancelQuantities <- None
    ExecuteQuantities <- One
    ExecutePrices <- OneToFour
    CallerContract = TRUE
SYMMETRY Symmetry3
SPECIFICATION Spec
INVARIANTS
    AllStopsSettled
