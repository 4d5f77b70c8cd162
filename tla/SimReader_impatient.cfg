CONSTANTS
  SimTypes = {"L1PHY"}
  PinModes = {"unlock", "enable", "disable", "change", "unblock"}
  CardPinInit = {"open", "locked", "blocked"}
  PatientUser = FALSE
  MaxInserts = 1
  MaxPin = 2
  MaxAtr = 1
  MaxRemoves = 0
  Cards <- MCCards
SPECIFICATION Spec
INVARIANT RecordFromOwnFile
CHECK_DEADLOCK FALSE
