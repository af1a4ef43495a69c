SPECIFICATION Spec
CONSTANTS
    alice = alice
    bob = bob
    Owner = {alice, bob}
    Creator = alice
    Kept <- MCKept
    Data = {1}
    ClusterData = 1
    MaxSpores = 2
    LockSize <- MCLockSize
    TypeSize = 1
    CapacitySize = 1
    BtcTimeCellIncreasedSize = 1
    Unit = 3
    Fees = {2}
    MinCapacity = 4
    PaymasterCapacity = 12
    MaxTx = 6
    MaxFlying = 2
INVARIANTS
    NothingStuck
    WitnessesInPlace
    CommitmentKept
    EveryAssetOwned
CHECK_DEADLOCK FALSE
