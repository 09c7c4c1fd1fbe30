SPECIFICATION HSpec
CONSTANTS
    u1 = u1
    u2 = u2
    Users <- Wallets
    PRECISION = 10
    TIER_1_THRESHOLD = 1
    TIER_2_THRESHOLD = 2
    TIER_3_THRESHOLD = 3
    MAX_PROTOCOL_FEE_BPS = 5
    BpsDenominator = 100
    MIN_REWARD_DEPOSIT = 20
    MAX_STAKE_AMOUNT = 2
    EMERGENCY_VAULT_THRESHOLD = 5
    RentMinimum = 1
    MaxU64 = 2000000
    MaxU128 = 2000000
    Amounts = {1, 2, 3}
    Deposits = {5, 20, 21}
    MinStakes = {1}
    FeeChoices = {5}
    InitialBrain = 3
    InitialFunds = 41
    InitialVaults = {3}
    MaxTime = 3
SYMMETRY Symmetry
INVARIANT ClaimedWithinDeposits
CHECK_DEADLOCK FALSE
