SPECIFICATION Spec
CONSTANTS
    v1 = v1
    v2 = v2
    pair1 = pair1
    pair2 = pair2
    Voters <- MCVoters
    Pairs <- MCPairs
    MIN_PROPOSAL_OPTIONS = 2
    MAX_PROPOSAL_OPTIONS = 3
    MIN_VOTING_PERIOD = 2
    MIN_EXECUTION_DELAY = 1
    BpsDenominator = 10000
    Windows <- MCWindows
    OptionCounts = {1, 3}
    ProposalTypes = {1, 2}
    QuorumChoices = {0, 10000}
    InitialBrain <- Brain
    MaxProposals = 1
    MaxMultiplier = 1
    MaxTime = 4
SYMMETRY Symmetry
INVARIANTS
    TypeOK
    TallyMatchesRecords
    OutcomeIsStrictPlurality
    ExitsFollowVotes
    ExitsKeepTerms
    ScanIsCorrect
PROPERTIES
    ImplementsMandates
    ClosedProposalsAreFinal
CHECK_DEADLOCK FALSE
