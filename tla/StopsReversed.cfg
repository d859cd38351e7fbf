CONSTANTS
    a = a
    b = b
    c = c
    d = d
    MaxU64 = 9
    MaxU32 = 9
    OrderId <- FourIds
    Tickets <- StopTickets
    ModifyPrices <- None
    CancelQuantities <- None
    ExecuteQuantities <- None
    ExecutePrices <- None
    CallerContract = TRUE
SYMMETRY Symmetry4
SPECIFICATION Spec
PROPERTIES
    StopsActivatedInOrder
