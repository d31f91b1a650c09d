CONSTANTS
  Basic = "basic"
  MaxUint64 = 100000
  MaxGasPrice = 2
  MinSupply = 2
  Nobody = "nobody"
  Accounts = {"owner", "alice", "bob", "node", "cancellation", "foundation", "team", "agency", "mining"}
  Senders = {"owner", "alice", "bob"}
  GenesisOwner = "owner"
  Coin = "coin"
  CoinSupply = 9
  Fund = {"foundation", "team"}
  addressList <- MCAddressList
  unlockInfo <- MCUnlockInfo
  Funding = 8
  MiningPool = 3
  MiningReward = 2
  HalfLife = 2
  BCB_TOKEN_SUPPLY = 80
  BCB_TOKEN_NEW_SUPPLY = 60
  BCB_TOKEN_SUB_SUPPLY = 20
  Managers = {"alice", "owner"}
  Amounts = {0, 1}
  Gas = 2
  Proposer = "validator"
  Rewarder = "node"
  FirstHeights = {2, 3}
  MaxHeight = 5
  MaxTxs = 2
SPECIFICATION Spec
INVARIANTS SupplyBacked PaysOnSchedule
CHECK_DEADLOCK FALSE
