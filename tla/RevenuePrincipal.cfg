SPECIFICATION NoticeSpec
CONSTANTS
  u1 = u1  u2 = u2  erc20 = erc20  erc223 = erc223
  Users = {u1, u2}
  Erc20 = erc20
  Erc223 = erc223
  RewardTokens = {}
  OwnerCandidates = {}
  Admin = Admin
  NoOne = NoOne
  STREAM_SCALE = 4
  RPT_SCALE = 2
  MAX_REWARD_TOKENS = 2
  MAX_SYNC = 2
  MAX_CLAIM_DELAY = 3
  CLAIM_DELAY_NOTICE = 1
  reward_duration = 2
  min_stake = 2
  initial_claim_delay = 1
  StakeAmounts <- BothVersions
  ArrivalAmounts <- SurplusOnly
  ClaimLists <- NoClaims
  DelayChoices = {0, 2, 3}
  MaxBalance = 4
  MaxTime = 3
SYMMETRY Symmetry
INVARIANTS PrincipalBacked EveryoneCanExit
PROPERTIES PrincipalLeavesUnlocked LockWasAnnounced
