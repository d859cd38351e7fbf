CONSTANTS
    a = a
    b = b
    c = c
    d = d
    MaxU64 = 9
    MaxU32 = 9
    OrderId <- ThreeIds
    Tickets <- CompletionTickets
    ModifyPrices <- None
    CancelQuantities <- None
    ExecuteQuantities <- One
    ExecutePrices <- ThreeFour
    CallerContract = TRUE
SPECIFICATION FairSpec
INVARIANTS
    SellStopsSettled
PROPERTIES
    RequestsComplete
