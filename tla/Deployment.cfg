SPECIFICATION DeploySpec
CONSTANTS
    Pairs = {"BTCUSD", "RIFBTC", "ETHUSD"}
    BasePairs = {"BTCUSD", "RIFBTC"}
    Calculated = "RIFUSD"
    Found = {"SupportersVested", "TestMOC", "UpgradeDelegator"}
    MaxAttempts = 3
INVARIANT DeployTypeOK RegisteredPairsReadable CalculatedReadable ContractsAgree FailureExplained
PROPERTY DeploymentFinishes
CHECK_DEADLOCK FALSE
