CONSTANTS
  Org <- MCOrg
  GenesisOrg = "genesis"
  Contract = {"c2"}
  OrgOf <- MCOrgOf
  Checker = {k1}
  Deliver = deliver
  None = None
  MaxBlocks = 2
  MaxTxs = 1
  MaxMsgs = 2
  MaxChecks = 1
  MaxStarts = 3
SPECIFICATION Spec
INVARIANTS NothingLeftBehind ReloadsWhatWasDeployed
CHECK_DEADLOCK FALSE
