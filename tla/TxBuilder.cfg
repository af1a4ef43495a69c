SPECIFICATION FairSpec
CONSTANTS
    A = A
    B = B
    Script = Script
    Address = {A, B}
    NumUtxo = 5
    Value <- MCValue
    Listings <- MCListings
    MinUtxo = 4
    FeeBase = 1
    FeePerInput = 2
    FeePerOutput = 1
    FeeJitter = 1
    Requests <- MCRequests
INVARIANTS
    Conservation
    FeePaid
    NoDust
    LeadingFixedKept
    InputsAccounted
    InsufficientOnlyIfTight
PROPERTIES
    SettlesUnlessExactMatch
CHECK_DEADLOCK FALSE
