SPECIFICATION OpsSpec
CONSTANTS
    Pairs = {"BTCUSD", "RIFBTC"}
    BasePairs = {"BTCUSD"}
    Calculated = "RIFUSD"
    Found = {"SupportersVested", "TestMOC", "UpgradeDelegator", "NewCoinPairPrice"}
    NewPairs = {"NewCoinPairPrice"}
    MaxAttempts = 1
    Terminals = {t1, t2}
    MaxGovernors = 2
    MaxSessions = 3
    MaxRuns = 1
    Servers = {"s1"}
    EACH_NEEDED = 2
    Funds = 2
SYMMETRY TerminalSymmetry
INVARIANT ListedTogether ControlKept ServersFunded
PROPERTY HandoverOnce
CHECK_DEADLOCK FALSE
