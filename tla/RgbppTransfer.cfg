SPECIFICATION Spec
CONSTANTS
    X = X
    Y = Y
    Spore = Spore
    To = To
    From = From
    NumCell = 8
    UtxoOf <- MCUtxoOf
    TypeOf <- MCTypeOf
    Amount <- MCAmount
    Capacity <- MCCapacity
    Late <- MCLate
    Supported = {X, Y}
    MinCapacity = 158
    MinTimeCapacity = 247
    CellCapacity = 253
    DefaultCellCapacity = 253
    MinChange = 61
    CkbFee = 1
    PaymasterCapacity = 316
    MaxInputs = 4
    Requests <- MCRequests
INVARIANTS
    NoCellStranded
    InputsStayLive
    AmountsConserved
    CapacityPaid
    BindingCorrectUnlessMixedJump
CHECK_DEADLOCK FALSE
