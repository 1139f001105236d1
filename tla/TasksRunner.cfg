SPECIFICATION RunnerSpec
CONSTANTS
    Owners = {o1, o2}
    maxOraclesPerRound = 2
    maxSubscribedOraclesPerRound = 2
    minOraclesPerRound = 1
    minCPSubscriptionStake = 1
    roundLockPeriodSecs = 1
    Awards = {}
    MaxStake = 1
    MaxTotalPoints = 2
    MaxRound = 2
    MaxMissed = 0
    Tasks = {t1, t2}
    BatchSizes = {1, 2}
    SelfTasks = {t2}
    TokenPrices = {0, 1, 2}
    GasCosts = {1}
    sharesCapMultiplier = 4
    PRECISION = 4
    MaxFees = 2
    MaxCoinbase = 1
SYMMETRY OwnerSymmetry
INVARIANTS
    NoStarvation
    RewardsCoveredUnlessStray
PROPERTIES
    CreditKeptUntilPaid
