SPECIFICATION Spec
CONSTANTS
  lender = lender  borrower = borrower
  usd = usd  gem = gem  third = third  eth = eth
  Users = {lender, borrower}
  Tokens = {usd, gem, third, eth}
  ETH = eth
  WETH = usd
  Reentrant = {usd}
  Erc223 = {third}
  NoOne = NoOne
  Reneging = {}
  MAX_FREEZE_DURATION = 1
  LENDER_WINDOW = 2
  FORCED_SWAP_MIN_OUT_BPS = 9500
  MAINTENANCE_MARGIN_BPS = 1000
  MAX_MAINTENANCE_MARGIN_BPS = 5000
  INTEREST_RATE_PRECISION = 10000
  INTEREST_PERIOD = 2
  Whitelists <- AutoLists
  OrderChoices <- CustodyOrders
  CollateralLists <- GemOnly
  MarginChoices = {}
  StatusChoices = {}
  FundAmounts = {2}
  LoanAmounts = {2}
  CollateralAmounts = {2}
  TopUps = {2}
  SwapAmounts = {2}
  Slips = {0}
  Shorts = {0}
  InitialPrices <- Quotes
  Prices <- Still
  MaxOrders = 1
  MaxPositions = 2
  MaxHeld = 4
  MaxTime = 1
SYMMETRY Symmetry
INVARIANTS Solvent HoldingsSound
CHECK_DEADLOCK FALSE
