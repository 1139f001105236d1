SPECIFICATION RunnerSpec
CONSTANTS
    Owners = {o1, o2}
    maxOraclesPerRound = 1
    maxSubscribedOraclesPerRound = 2
    minOraclesPerRound = 1
    minCPSubscriptionStake = 1
    roundLockPeriodSecs = 1
    Awards = {}
    MaxStake = 1
    MaxTotalPoints = 2
    MaxRound = 3
    MaxMissed = 0
    Tasks = {t1, t2}
    BatchSizes = {1}
    SelfTasks = {t2}
    TokenPrices = {1}
    GasCosts = {0}
    sharesCapMultiplier = 8
    PRECISION = 4
    MaxFees = 2
    MaxCoinbase = 0
SYMMETRY OwnerSymmetry
INVARIANTS
    SwitchAvailable
