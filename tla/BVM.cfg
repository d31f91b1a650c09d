CONSTANTS
  Addrs = {1, 2, 3, 4, 5}
  Natives = {0}
  Sender = 1
  Funds <- MCFunds
  Coded = {2, 3}
  ContractAddr <- MCContractAddr
  ContractAddr2 <- MCContractAddr2
  Words = {0, 1}
  Values = {0, 1}
  Asks = {60, 2000}
  GasLimits = {1500}
  NativeGas = {10}
  CallStackMaxDepth = 4
  MaxTxs = 2
  MaxSteps = 3
SPECIFICATION Spec
INVARIANTS ValueConserved
PROPERTIES GasRunsOut FailedCallLeavesNoTrace
CHECK_DEADLOCK FALSE
