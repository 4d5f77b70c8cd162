SPECIFICATION Spec
CONSTANTS
  SimTypes = {"L1PHY"}
  Cksns = {0, 1}
  CardSeqBytes = {2, 15}
  NoKey = NoKey
  Dummy = Dummy
  MaxAuth = 3
  MaxPending = 1
  MaxInserts = 1
  Locs = {1}
  GIds = {1}
  Sigs = {1}
  CardStatusBytes = {11}
  MaxLocUpd = 2
  MsgbFails = TRUE
INVARIANTS
  KeyPairConsistent
CHECK_DEADLOCK FALSE
