SPECIFICATION Spec
CONSTANTS
  ann = ann  ben = ben
  coin = coin  coin223 = coin223
  hyb = hyb  hyb20 = hyb20  hyb223 = hyb223  hyb20w = hyb20w
  Users = {ann, ben}
  Converter = Converter
  Extractor = Extractor
  Router = Router
  Receiver = Receiver
  Others = {Router, Receiver}
  NoOne = NoOne
  Deployer = ann
  Tokens = {coin, coin223, hyb, hyb20, hyb223, hyb20w}
  Hooked = {coin223, hyb, hyb223, hyb20w}
  erc223Address <- Wrapped223
  erc20Address <- Wrapped20
  InitialBalances <- StartBalances
  Amounts = {1}
  StuckTokens = {coin}
  MaxDepth = 2
  OwnerCandidates = {ben}
  PayoutChoices = {ben}
  AcceptChoices = {coin223}
INVARIANTS ReservesCover Redeemable CreditBacked
