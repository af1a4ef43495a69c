SPECIFICATION RbfSpec
CONSTANTS
    A = A
    B = B
    Script = Script
    NoAddress = NoAddress
    Address = {A, B}
    NumUtxo = 6
    Value <- MCValue
    Listings <- MCListings
    MinUtxo = 4
    FeeBase = 2
    FeePerInput = 2
    FeePerOutput = 1
    FeeJitter = 1
    FeeRate = 2
    Fetched = {1, 3}
    Requests = {}
    Sent <- MCSent
    Calls <- MCCalls
INVARIANTS
    ExcludedUnspentWithChangeOutput
    ReceiversKept
    FeeNeverLower
CHECK_DEADLOCK FALSE
