SPECIFICATION Spec
CONSTANTS
  ann = ann  ben = ben  NoOne = NoOne
  Users = {ann, ben}
  Q96 = 8  Pips = 4  Fee = 1  Q128 = 16
  MinTick <- LowestTick  MaxTick = 2
  TickSpacing = 1  WordSize = 2
  SqrtRatio <- Doubling
  Keys <- WideAndNarrow
  Orders <- FewSwaps
  InitialPrices = {10}
  Liquidities = {16}
  Values = {20}
  Requests = {1000}
  FeeProtocols = {0, 4}
  MaxLiquidityPerTick = 32
  MaxOps = 5
INVARIANTS Solvent LiquidityAgrees PriceInTick NothingForFree SettledWhenUnlocked
PROPERTIES EarningsKept
