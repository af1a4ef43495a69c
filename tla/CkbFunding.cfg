SPECIFICATION Spec
CONSTANTS
    NumCell = 8
    NumFirst = 7
    Kind <- MCKind
    Capacity <- MCCapacity
    Amount <- MCAmount
    PageSize = 2
    MinCapacity = 610
    MaxFee = 2
    Fees = {1, 2}
    RgbppCapacity = 2530
    RgbppOccupied = 1580
    UdtCapacity = 1430
    UdtOccupied = 1420
    TimeOccupied = 2470
    InfoCapacity = 1900
    Requests <- MCRequests
INVARIANTS
    NothingMissed
    PoorOnlyIfPoor
    CapacityBalanced
    NothingBurned
    OutputsViableIfPrepared
CHECK_DEADLOCK FALSE
