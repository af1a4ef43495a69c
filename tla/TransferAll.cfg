SPECIFICATION Spec
CONSTANTS
    A = A
    B = B
    F = F
    R = R
    AssetAddress = {A, B}
    From = F
    To = R
    NumUtxo = 7
    Owner <- MCOwner
    NumCell = 12
    Bound <- MCBound
    Type <- MCType
    Amount <- MCAmount
    MaxCells = 4
    MaxFeeInputs = 2
    MaxMoves = 2
    Worlds <- MCWorlds
INVARIANTS
    GroupsPartition
    SummaryTrue
    OthersReturned
    SharedOnlyIfEnlarged
    FailsForAReason
CHECK_DEADLOCK FALSE
