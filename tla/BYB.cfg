CONSTANTS
  Basic = "basic"
  MaxUint64 = 1000
  MaxGasPrice = 2
  MinSupply = 2
  Nobody = "nobody"
  Byb = "byb"
  ContractAcct = "acct"
  Owner = "owner"
  Users = {"u1", "u2", "u3"}
  Miner = "miner"
  Values = {1, 3}
  MinTotalSupply = 5
  maxStockHolder = 2
  Height = 3
  Funds = 2
  OldTokens <- MCOldTokens
  MaxTxs = 3
SPECIFICATION Spec
INVARIANTS SupplyBacked ColourHasOneHolder
CHECK_DEADLOCK FALSE
