CONSTANTS
  SimTypes = {"L1PHY"}
  PinModes = {"unlock"}
  CardPinInit = {"open", "locked", "blocked"}
  PatientUser = TRUE
  MaxInserts = 1
  MaxPin = 2
  MaxAtr = 1
  MaxRemoves = 1
  Cards <- MCCards
SPECIFICATION Spec
INVARIANT NoAttachAfterDetach
CHECK_DEADLOCK FALSE
