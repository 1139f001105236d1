SPECIFICATION PoolSpec
CONSTANTS
    Owners = {o1, o2}
    Periods = {1, 2}
    LockTimes = {3}
    MaxStaked = 2
    MaxMocs = 6
    MaxBlock = 4
SYMMETRY OwnerSymmetry
INVARIANTS
    Solvent
    TokenWorthAMoc
    SharesCovered
    LockHoldsButForRounding
PROPERTIES
    StakeFallsByOwnWithdrawal
    MoverNeverGains
