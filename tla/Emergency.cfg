SPECIFICATION EmergencySpec
CONSTANTS
    k1 = k1
    k2 = k2
    none = none
    wallet1 = wallet1
    pair1 = pair1
    pair2 = pair2
    Keys = {k1, k2}
    NoKey = none
    Treasuries = {wallet1}
    FirstOwner = k1
    FirstCrank = k2
    FirstTreasury = wallet1
    Pairs <- MCPairs
    ClaimAmounts = {1}
    PassedVotes = {0}
    AutoExecute = TRUE
    MaxClaimed = 1
    MaxTime = 1
    MIN_REWARD_DEPOSIT = 1
    NoPair = none
    MaxRuns = 1
SYMMETRY Symmetry
VIEW View
INVARIANTS
    EmergencyTypeOK
    FailuresAreIsolated
    HaltReachesFetched
    RepaysRecordedAtMost
CHECK_DEADLOCK FALSE
