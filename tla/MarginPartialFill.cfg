SPECIFICATION Spec
CONSTANTS
  lender = lender  borrower = borrower
  usd = usd  gem = gem  third = third  eth = eth
  Users = {lender, borrower}
  Tokens = {usd, gem, third, eth}
  ETH = eth
  WETH = usd
  Reentrant = {}
  Erc223 = {}
  NoOne = NoOne
  Reneging = {}
  MAX_FREEZE_DURATION = 1
  LENDER_WINDOW = 2
  FORCED_SWAP_MIN_OUT_BPS = 9500
  MAINTENANCE_MARGIN_BPS = 1000
  MAX_MAINTENANCE_MARGIN_BPS = 5000
  INTEREST_RATE_PRECISION = 10000
  INTEREST_PERIOD = 2
  Whitelists <- PlainLists
  OrderChoices <- OneOrder
  CollateralLists = {}
  MarginChoices = {}
  StatusChoices = {}
  FundAmounts = {6}
  LoanAmounts = {6}
  CollateralAmounts = {2}
  TopUps = {}
  SwapAmounts = {2, 3}
  Slips = {0, 1}
  Shorts = {0, 1}
  InitialPrices <- Quotes
  Prices <- Drop
  MaxOrders = 1
  MaxPositions = 1
  MaxHeld = 12
  MaxTime = 2
SYMMETRY Symmetry
PROPERTY LossLeavesNothing
CHECK_DEADLOCK FALSE
