SPECIFICATION KindSpec
CONSTANTS
    exit1 = exit1
    exit2 = exit2
    pos1 = pos1
    pos2 = pos2
    none = none
    Exits = {exit1}
    Positions = {pos1}
    ExitOf <- OneExit
    claimThreshold = 1
    MIN_REWARD_DEPOSIT = 2
    MAX_OPS_PER_BUNDLE = 4
    Sellable = {pos1}
    Prices = {1}
    NoPrice = none
    NoExit = none
    NoReading = none
    MaxFees = 1
    MaxBooked = 2
    MaxInFlight = 1
    MaxCrashes = 0
PROPERTY FeesEventuallyClaimed
CHECK_DEADLOCK FALSE
