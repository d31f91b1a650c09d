SPECIFICATION Spec
CONSTANTS
  Payee = payee
  Rewarder = rewarder
  Foundation = foundation
  NoAddr = noAddr
  Acct = {a1}
  c1 = c1
  c2 = c2
  c3 = c3
  c4 = c4
  Contract = {c1, c2, c3, c4}
  EffectBlockHeight = 2
  Strategy <- TwoRewarders
  Fee = 10
  Amount = 15
  Balance = 35
  Blocks <- AllBlocks
  MaxNonce = 3
  MaxHeight = 2
  Effective <- ThreeAtOnce
  InitFails = {c1, c3, c4}
  MineHeight = 1
INVARIANTS
  ReplaySame
  NoncesInOrder
  KeyListComplete
  SupplyNeverGrows
  LastForbiddenNeverMines
  EndBlockReports
PROPERTIES
  FailedTxOnlyPaysFee
  OnlyFailuresOverdraw
