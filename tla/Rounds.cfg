SPECIFICATION HistorySpec
CONSTANTS
    Owners = {o1, o2, o3}
    maxOraclesPerRound = 2
    maxSubscribedOraclesPerRound = 2
    minOraclesPerRound = 0
    minCPSubscriptionStake = 1
    roundLockPeriodSecs = 1
    Awards = {1}
    MaxStake = 2
    MaxTotalPoints = 1
    MaxRound = 3
    MaxMissed = 2
SYMMETRY OwnerSymmetry
INVARIANTS
    MembersStaked
    MembershipBounded
    NoIdleSeat
    PointsBacked
    MissesHeldSince
PROPERTIES
    SeatLostByOwnWithdrawal
    AutoUnsubscribeSpares
