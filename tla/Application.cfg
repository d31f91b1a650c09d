SPECIFICATION Spec
CONSTANTS
  Blocks <- AllBlocks
  MaxHeight = 3
  ForkHeight = 3
  MaxKills = 1
  Checked <- MCChecked
  Nil = Nil
CONSTRAINT OneKind
INVARIANTS
  ReplaySame
  VersionCacheFresh
  NonceOnce
  SwitchAtCommit
  StubsFollowContracts
  ContainerKnowsContracts
