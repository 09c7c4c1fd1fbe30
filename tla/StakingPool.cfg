SPECIFICATION Spec
CONSTANTS
    u1 = u1
    u2 = u2
    Users <- Wallets
    PRECISION = 10
    TIER_1_THRESHOLD = 1
    TIER_2_THRESHOLD = 2
    TIER_3_THRESHOLD = 3
    MAX_PROTOCOL_FEE_BPS = 5
    BpsDenominator = 100
    MIN_REWARD_DEPOSIT = 20
    MAX_STAKE_AMOUNT = 2
    EMERGENCY_VAULT_THRESHOLD = 5
    RentMinimum = 1
    MaxU64 = 200
    MaxU128 = 1000
    Amounts = {1, 2, 3}
    Deposits = {5, 20}
    MinStakes = {0, 1}
    FeeChoices = {0, 5, 6}
    InitialBrain = 2
    InitialFunds = 40
    InitialVaults = {0, 3}
    MaxTime = 3
SYMMETRY Symmetry
INVARIANTS
    TypeOK
    DebtCovered
    MultiplierEarned
    PrincipalConserved
    ExitBlockedOnlyByVault
PROPERTIES
    ImplementsLedger
    PaidExactlyWhatAccrued
    PausedPoolOnlyReleases
    PayoutsLeaveVaultSafe
CHECK_DEADLOCK FALSE
