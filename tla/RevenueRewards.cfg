SPECIFICATION Spec
CONSTANTS
  u1 = u1  u2 = u2  r1 = r1   erc20 = erc20  erc223 = erc223
  Users = {u1, u2}
  Erc20 = erc20
  Erc223 = erc223
  RewardTokens = {r1}
  OwnerCandidates = {Admin}
  Admin = Admin
  NoOne = NoOne
  STREAM_SCALE = 4
  RPT_SCALE = 2
  MAX_REWARD_TOKENS = 1
  MAX_SYNC = 2
  MAX_CLAIM_DELAY = 0
  CLAIM_DELAY_NOTICE = 1
  reward_duration = 2
  min_stake = 1
  initial_claim_delay = 0
  StakeAmounts <- OneVersion
  ArrivalAmounts <- Revenue2
  ClaimLists <- ClaimLists1
  DelayChoices = {}
  MaxBalance = 3
  MaxTime = 3
SYMMETRY Symmetry
INVARIANTS RewardsBacked RewardSolvency EveryoneCanClaim
PROPERTIES EarningsFollowTime
