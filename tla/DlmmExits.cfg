SPECIFICATION Spec
CONSTANTS
    k1 = k1
    k2 = k2
    k3 = k3
    none = none
    wallet1 = wallet1
    wallet2 = wallet2
    pair1 = pair1
    pair2 = pair2
    Keys <- MCKeys
    NoKey = none
    Treasuries <- MCTreasuries
    FirstOwner = k1
    FirstCrank = k2
    FirstTreasury = wallet1
    Pairs <- MCPairs
    ClaimAmounts = {1, 2}
    PassedVotes = {0}
    AutoExecute = TRUE
    MaxClaimed = 2
    MaxTime = 2
SYMMETRY Symmetry
INVARIANTS
    TypeOK
    EndsAreDated
    HaltHolds
PROPERTIES
    EndedExitsAreFinal
    CrankIsLimited
    ImplementsLifecycle
CHECK_DEADLOCK FALSE
