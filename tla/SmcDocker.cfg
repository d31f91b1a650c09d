SPECIFICATION FairSpec
CONSTANTS
  Org = {o1, genesis}
  Caller = {check1, deliver}
  Slot = {s1, s2}
  MaxCalls = 2
  NoEntry = noEntry
  Genesis = genesis
  MkdirFails = TRUE
INVARIANTS
  SingleStarter
PROPERTIES
  StarterFinishes
  CallersAnswered
CHECK_DEADLOCK FALSE
