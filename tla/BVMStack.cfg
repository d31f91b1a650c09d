CONSTANTS
  ByteBits = 2
  WordBytes = 3
  IntBytes = 2
  MaxMemory = 6
  Literals = {1, 3, 38, 61}
  GasLimit = 14
  Input <- MCInput
  Returned <- MCReturned
  JumpDests = {1}
  BlockHeight = 5
  MaximumAllowedBlockLookBack = 3
  DataStackMaxDepth = 3
SPECIFICATION MCSpec
INVARIANTS OperatorsAgree CodecAgrees
CHECK_DEADLOCK FALSE
