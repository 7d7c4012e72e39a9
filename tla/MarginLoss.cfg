SPECIFICATION Spec
CONSTANTS
  lender = lender  borrower = borrower
  usd = usd  gem = gem  third = third  eth = eth
  Users = {lender, borrower}
  Tokens = {usd, gem, third, eth}
  ETH = eth
  WETH = usd
  Reentrant = {}
  Erc223 = {}
  NoOne = NoOne
  Reneging = {}
  MAX_FREEZE_DURATION = 1
  LENDER_WINDOW = 2
  FORCED_SWAP_MIN_OUT_BPS = 9500
  MAINTENANCE_MARGIN_BPS = 1000
  MAX_MAINTENANCE_MARGIN_BPS = 5000
  INTEREST_RATE_PRECISION = 10000
  INTEREST_PERIOD = 2
  Whitelists <- PlainLists
  OrderChoices <- CostlyOrder
  CollateralLists = {}
  MarginChoices = {5000}
  StatusChoices = {FALSE}
  FundAmounts = {6}
  LoanAmounts = {6}
  CollateralAmounts = {2}
  TopUps = {}
  SwapAmounts = {6}
  Slips <- Fills
  Shorts = {0, 1}
  InitialPrices <- TwoAssets
  Prices <- Crash
  MaxOrders = 1
  MaxPositions = 1
  MaxHeld = 8
  MaxTime = 4
SYMMETRY Symmetry
INVARIANTS AnyoneMayAfterWindow RecoveredCanBeClosed
PROPERTIES NoSaleWithoutNotice LossWaitsForLender MarkIsFresh DebtSettledOnce LossWithinFloor
CHECK_DEADLOCK FALSE
