SPECIFICATION Spec
CONSTANTS
    Owners = {1, 2, 3}
    maxOraclesPerRound = 2
    maxSubscribedOraclesPerRound = 2
    minOraclesPerRound = 0
    minCPSubscriptionStake = 1
    roundLockPeriodSecs = 1
    Awards = {1}
    MaxStake = 2
    MaxTotalPoints = 1
    MaxRound = 2
    MaxMissed = 1
    MaxSignatures = 2
INVARIANTS
    ArraysConsistent
PROPERTIES
    ImplementsRounds
