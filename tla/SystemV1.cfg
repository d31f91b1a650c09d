CONSTANTS
  Basic <- MCBasic
  MaxUint64 = 1000
  MaxGasPrice = 2
  MinSupply = 2
  Nobody = "nobody"
  Owner = "owner"
  Other = "other"
  Validators = {"v1", "v2", "v3", "v4", "v5"}
  Powers = {0, 12, 995}
  RewardAddrs = {"owner", "other", "nobody"}
  GenesisPower <- MCGenesisPower
  GenesisShares <- MCGenesisShares
  Shares <- MCShares
  Orders <- MCOrders
  Internal = {"mining", "token-issue", "token-basic", "token-templet", "system"}
  TokenNames = {"token-templet-x"}
  V2Lists <- MCV2Lists
  Named = {"v1", "v5"}
  Proposer = "v1"
  MaxHeight = 4
  MaxTxs = 3
SPECIFICATION Spec
CONSTRAINT OneKind
INVARIANTS ReportedToConsensus
PROPERTIES  NobodyHoldsAThird
CHECK_DEADLOCK FALSE
