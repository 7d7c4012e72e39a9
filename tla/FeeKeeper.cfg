SPECIFICATION FairSpec
CONSTANTS
    Pools = {"p1", "p2", "bad"}
    Existing = {"p1", "bad"}
    Tokens = {"weth"}
    SideToken <- MCSideToken
    Refusing = {"bad"}
    Rates = {0, 4, 5}
    InitialRate = 4
    Owed = 3
    Accrual = 2
    MaxSwaps = 1
    MaxOwnerCalls = 1
    Networks <- MCNetworks
    Here = "here"
    Unreadable = {}
    Batch = 2
    ScriptMin = 2
    MaxFaults = 1
PROPERTIES GreenMeansDone FeesReachRevenue RevenueStreams
CHECK_DEADLOCK FALSE
