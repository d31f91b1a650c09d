SPECIFICATION GenesisSpec
CONSTANTS
  Blocks <- MixedBlocks
  MaxHeight = 1
  ForkHeight = 0
  MaxKills = 1
  Checked <- MCChecked
  Nil = Nil
INVARIANTS
  InitChainReturns
