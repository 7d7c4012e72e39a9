SPECIFICATION Spec
CONSTANTS
    Users = {"ann", "ben"}
    Assets = {"a", "w", "b"}
    WETH9 = "w"
    Hooked20 = {"a"}
    Paths <- MCPaths
    Amounts = {1, 2}
    StartWallets <- MCWallets
    StartEther <- MCEther
    Router = "router"
    NoOne = NoOne
    MaxDepth = 2
INVARIANTS  SettledWhenIdle
 
CHECK_DEADLOCK FALSE
