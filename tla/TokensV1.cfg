CONSTANTS
  Basic = "basic"
  MaxUint64 = 100000
  MaxGasPrice = 2
  MinSupply = 2
  Nobody = "nobody"
  Accounts = {"owner", "alice", "fund", "node"}
  Senders = {"owner", "alice"}
  GenesisOwner = "owner"
  TokenIssue = "token-issue"
  Names = {"n1", "n2"}
  Symbols = {"y1", "basic"}
  Proposer = "validator"
  Rewarder = "node"
  GenesisSupply = 32
  Gift = 13
  Gas = 6
  Values = {0, 2}
  GasLimits = {5, 6}
  Strategies <- MCStrategies
  MaxTxs = 3
SPECIFICATION Spec
INVARIANTS SupplyBacked RecordsAgree
PROPERTIES IssuedStays
CHECK_DEADLOCK FALSE
