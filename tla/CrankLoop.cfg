SPECIFICATION FairSpec
CONSTANTS
    exit1 = exit1
    exit2 = exit2
    pos1 = pos1
    pos2 = pos2
    none = none
    Exits = {exit1, exit2}
    Positions = {pos1}
    ExitOf <- OneExit
    claimThreshold = 1
    MIN_REWARD_DEPOSIT = 1
    MAX_OPS_PER_BUNDLE = 2
    Sellable = {}
    Prices = {1}
    NoPrice = none
    NoExit = none
    NoReading = none
    MaxFees = 1
    MaxBooked = 1
    MaxInFlight = 2
    MaxCrashes = 1
INVARIANTS
    TypeOK
PROPERTIES
    ShutdownStartsNothing
    EveryExitServed
    ShutdownStops
CHECK_DEADLOCK FALSE
