SPECIFICATION Spec
CONSTANTS
    x = x
    y = y
    transfer = transfer
    rival = rival
    leap = leap
    Tx = {transfer, rival, leap}
    Asset = {x, y}
    AssetOf <- MCAssetOf
    LocksOf <- MCLocksOf
    Leap = {leap}
    Groups <- MCGroups
    Issuer = {rival}
    BtcConfirmationBlocks <- MCBtcConfirmationBlocks
    DefaultConfirmations = 2
    MaxReorg = 1
    MaxDepth = 2
    MaxCalls = 2
    MaxCallbacks = 2
    MaxHit = 1
INVARIANTS
    SpentMeansArrived
CHECK_DEADLOCK FALSE
