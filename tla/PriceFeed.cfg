SPECIFICATION PriceSpec
CONSTANTS
    Owners = {o1, o2}
    maxOraclesPerRound = 2
    maxSubscribedOraclesPerRound = 2
    minOraclesPerRound = 1
    minCPSubscriptionStake = 1
    roundLockPeriodSecs = 1
    Awards = {1}
    MaxStake = 1
    MaxTotalPoints = 2
    MaxRound = 2
    MaxMissed = 0
    Prices = {0, 7}
    QueryModes = {"Ok", "Revert"}
    validPricePeriodInBlocks = 2
    emergencyPublishingPeriodInBlocks = 1
    MaxBlock = 4
    MaxFees = 2
SYMMETRY OwnerSymmetry
INVARIANTS
    PriceTypeOK
    NothingPublishedBetween
    EmergencyAfterSilence
    ValidPriceIsRecent
    RewardsAffordable
