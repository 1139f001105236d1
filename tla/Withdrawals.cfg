SPECIFICATION Spec
CONSTANTS
    Owners = {o1, o2}
    Periods = {1}
    LockTimes = {}
    MaxStaked = 2
    MaxMocs = 4
    MaxBlock = 3
    withdrawLockTime = 1
    roundLockPeriodSecs = 0
    MaxPayments = 2
SYMMETRY OwnerSymmetry
INVARIANTS
    MachineTypeOK
    PaymentsCovered
PROPERTIES
    ChurningNeverGains
