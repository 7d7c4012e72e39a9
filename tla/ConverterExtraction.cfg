SPECIFICATION ConverterSpec
CONSTANTS
  ann = ann  ben = ben
  coin = coin  coin223 = coin223
  hyb = hyb  hyb20 = hyb20  hyb223 = hyb223  hyb20w = hyb20w
  Users = {ann, ben}
  Converter = Converter
  Extractor = Extractor
  Others = {}
  Tokens = {coin, coin223, hyb, hyb20, hyb223, hyb20w}
  Hooked = {coin223, hyb, hyb223, hyb20w}
  erc223Address <- Wrapped223
  erc20Address <- Wrapped20
  InitialBalances <- StartBalances
  Amounts = {1}
  StuckTokens = {coin, hyb}
  MaxDepth = 2
\* All tokens may end up sent to the converter unannounced.
CHECK_DEADLOCK FALSE
PROPERTIES OnlyStuckExtracted
